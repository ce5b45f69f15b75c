---------------------- MODULE PruningCorrectness_proofs ----------------------
(***************************************************************************)
(* What pruning does after the analysis has returned, for every input and  *)
(* every program: the asserts of ProgramEditor::remove_modules hold, the   *)
(* program stays well formed, those of remove_bindings fail for write-only *)
(* imports at most, and what is left of the program means what it meant.   *)
(***************************************************************************)
EXTENDS PruningCorrectness, ReachabilityCorrectness_proofs

-----------------------------------------------------------------------------
(* What the answer of the analysis keeps                                   *)

\* In the answer an evaluated module's loads are live, and so is every binding
\* that one of its live exports names.
LEMMA UsesAreLive ==
  ASSUME Inv, phase = "done", NEW m \in program.modules, IsModuleEvaluated(m)
  PROVE  \A b \in program.loads[m] \cup LiveExportedBindings(program, m) : IsBindingLive(m, b)
<1>1. program \in JsProgramIr /\ WellFormed(program)
  BY DEF Inv, TypeOK
<1>2. m \in Module
  BY <1>1, ProgramParts
<1>3. CASE retained
  <2>1. settled = AllFacts(program)
    BY <1>3 DEF Inv, Accounting
  <2>2. \A b \in program.bindings[m] : IsBindingLive(m, b)
    BY <2>1 DEF AllFacts, IsBindingLive, UseBindings
  <2>3. program.loads[m] \cup ExportedBindings(program, m) \subseteq program.bindings[m]
    BY <1>1 DEF WellFormed, ReferencedBindings
  <2>4. LiveExportedBindings(program, m) \subseteq ExportedBindings(program, m)
    BY DEF LiveExportedBindings, ExportedBindings, ToSet
  <2> QED
    BY <2>2, <2>3, <2>4
<1>4. CASE ~retained
  <2>1. /\ ClosedUnderUse(program, settled, demands)
        /\ liveExports = ExportsOf(demands)
    BY <1>4, InvMeansClosed DEF AnswerIsClosed
  <2>2. ASSUME NEW b \in program.loads[m] PROVE IsBindingLive(m, b)
    <3>1. b \in LoadedBindings(program, m)
      BY <1>1 DEF LoadedBindings, WellFormed, ReferencedBindings
    <3>2. UseBinding(m, b) \in FactsOfModule(program, m)
      BY <3>1 DEF FactsOfModule, UseBindings
    <3>3. FactsOfModule(program, m) = Pushed(program, EvaluateModule(m))
      BY DEF Pushed, EvaluateModule
    <3> QED
      BY <2>1, <3>2, <3>3 DEF ClosedUnderUse, IsModuleEvaluated, IsBindingLive
  <2>3. ASSUME NEW i \in DOMAIN program.exports[m],
               program.exports[m][i].kind = "Local", <<m, i>> \in liveExports
        PROVE  IsBindingLive(m, program.exports[m][i].binding)
    <3>1. PICK d \in demands : <<m, i>> \in {d.module} \X DemandedExports(program, d)
      BY <2>1, <2>3 DEF ExportsOf
    <3>2. d.module = m /\ i \in DemandedExports(program, d)
      BY <3>1
    <3>3. <<m, program.exports[m][i].binding>> \in RequiredBindings(program, d)
      BY <2>3, <3>2 DEF RequiredBindings
    <3> QED
      BY <2>1, <3>3 DEF ClosedUnderUse, IsBindingLive
  <2> QED
    BY <2>2, <2>3 DEF LiveExportedBindings, IsExportLive
<1> QED
  BY <1>3, <1>4

\* A closed answer cuts nothing that is used.
LEMMA InvMeansCutsNothingUsed == Inv => CutsNothingUsed
<1> SUFFICES ASSUME Inv, phase = "done"
             PROVE  /\ RemoveModulesAllowed(program, UnreachableModules(program))
                    /\ \A m \in program.modules \ UnreachableModules(program) :
                         DeadImportBindings(program, m)
                           \cap (program.loads[m] \cup LiveExportedBindings(program, m)) = {}
  BY DEF CutsNothingUsed
<1>1. WellFormed(program)
  BY DEF Inv, TypeOK
<1>2. RemoveModulesAllowed(program, UnreachableModules(program))
  <2>1. UnreachableModules(program) \subseteq program.modules \ program.entries
    BY EvaluationFollowsDependencies DEF UnreachableModules
  <2>2. ASSUME NEW d \in program.dependencies,
               d.importer \notin UnreachableModules(program), d.target.kind = "Internal"
        PROVE  d.target.module \notin UnreachableModules(program)
    <3>1. IsModuleEvaluated(d.importer)
      BY <1>1, <2>2 DEF WellFormed, UnreachableModules
    <3> QED
      BY <2>2, <3>1, EvaluationFollowsDependencies DEF UnreachableModules
  <2> QED
    BY <2>1, <2>2 DEF RemoveModulesAllowed
<1>3. ASSUME NEW m \in program.modules \ UnreachableModules(program),
             NEW b \in DeadImportBindings(program, m)
      PROVE  b \notin program.loads[m] \cup LiveExportedBindings(program, m)
  <2>1. ~IsBindingLive(m, b)
    BY DEF DeadImportBindings, DeadImport
  <2>2. IsModuleEvaluated(m)
    BY DEF UnreachableModules
  <2> QED
    BY <2>1, <2>2, UsesAreLive
<1> QED
  BY <1>2, <1>3

\* Pruning after the analysis meets the asserts of remove_modules for every
\* program, and removes no import binding that is loaded or exported.
THEOREM PruningCutsNothingUsed == Spec => []CutsNothingUsed
  BY InvAlways, InvMeansCutsNothingUsed, PTL

-----------------------------------------------------------------------------
(* Filtered lists                                                          *)

\* The loop that keeps the members of S among the first n positions.
IsListing(f, S, n) ==
  f = [i \in 0..n |-> IF i = 0 THEN <<>> ELSE IF i \in S THEN Append(f[i - 1], i) ELSE f[i - 1]]

\* The loop that lists a set of positions in order has a result.
LEMMA ListingExists ==
  ASSUME NEW S, NEW n \in Nat
  PROVE  \E f : IsListing(f, S, n)
<1> DEFINE T == {k \in Nat : \E f : IsListing(f, S, k)}
           Step(k, r) == IF k \in S THEN Append(r, k) ELSE r
<1>1. \A f, k : IsListing(f, S, k) <=>
        f = [j \in 0..k |-> IF j = 0 THEN <<>> ELSE Step(j, f[j - 1])]
  BY DEF IsListing
<1> HIDE DEF Step
<1>2. 0 \in T
  <2> DEFINE f == [j \in 0..0 |-> <<>>]
  <2>1. f = [j \in 0..0 |-> IF j = 0 THEN <<>> ELSE Step(j, f[j - 1])]
    OBVIOUS
  <2> QED
    BY <1>1, <2>1
<1>3. ASSUME NEW k \in Nat, k \in T PROVE k + 1 \in T
  <2>1. PICK f : IsListing(f, S, k)
    BY <1>3
  <2> DEFINE g == [j \in 0..(k + 1) |-> IF j = 0 THEN <<>> ELSE Step(j, f[j - 1])]
  <2>2. f = [j \in 0..k |-> IF j = 0 THEN <<>> ELSE Step(j, f[j - 1])]
    BY <1>1, <2>1
  <2>3. ASSUME NEW j \in 1..(k + 1) PROVE g[j - 1] = f[j - 1]
    <3>1. j - 1 \in 0..k /\ j - 1 \in 0..(k + 1)
      OBVIOUS
    <3> QED
      BY <2>2, <3>1
  <2>4. \A j \in 0..(k + 1) : j # 0 => j \in 1..(k + 1)
    OBVIOUS
  <2>5. g = [j \in 0..(k + 1) |-> IF j = 0 THEN <<>> ELSE Step(j, g[j - 1])]
    <3> DEFINE h == [j \in 0..(k + 1) |-> IF j = 0 THEN <<>> ELSE Step(j, g[j - 1])]
    <3>1. \A j \in 0..(k + 1) : g[j] = h[j]
      BY <2>3, <2>4
    <3> QED
      BY <3>1
  <2>6. IsListing(g, S, k + 1)
    BY <1>1, <2>5, Zenon
  <2> QED
    BY <2>6
<1>4. Nat \subseteq T
  BY <1>2, <1>3, NatSetInduction
<1> QED
  BY <1>4

\* A list of the positions in S up to k, in ascending order.
IsAscending(s, S, k) ==
  /\ s \in Seq(S)
  /\ \A i \in DOMAIN s : s[i] <= k
  /\ \A i \in S : i <= k => \E j \in DOMAIN s : s[j] = i
  /\ \A i, j \in DOMAIN s : i < j => s[i] < s[j]

\* One more position keeps a list ascending.
LEMMA AscendingGrows ==
  ASSUME NEW S \in SUBSET (Nat \ {0}), NEW k \in Nat \ {0}, NEW s, IsAscending(s, S, k - 1)
  PROVE  IsAscending(IF k \in S THEN Append(s, k) ELSE s, S, k)
<1>1. s \in Seq(S) /\ Len(s) \in Nat /\ DOMAIN s = 1..Len(s)
  BY DEF IsAscending
<1>2. ASSUME NEW i \in DOMAIN s
      PROVE  s[i] \in Nat /\ s[i] <= k - 1 /\ s[i] < k /\ s[i] <= k
  <2>1. s[i] \in S /\ s[i] <= k - 1
    BY <1>1 DEF IsAscending
  <2>2. s[i] \in Nat
    BY <2>1
  <2> QED
    BY <2>1, <2>2
<1>3. CASE k \notin S
  <2>1. \A i \in S : i <= k => i <= k - 1
    BY <1>3
  <2> QED
    BY <1>2, <1>3, <2>1 DEF IsAscending
<1>4. CASE k \in S
  <2> DEFINE t == Append(s, k)
  <2>1. /\ t \in Seq(S) /\ DOMAIN t = 1..(Len(s) + 1) /\ t[Len(s) + 1] = k
        /\ \A i \in 1..Len(s) : t[i] = s[i]
    BY <1>1, <1>4
  <2> HIDE DEF t
  <2>2. \A i \in DOMAIN t : i \in 1..Len(s) \/ i = Len(s) + 1
    BY <1>1, <2>1
  <2>3. \A i \in DOMAIN t : t[i] <= k
    BY <1>1, <1>2, <2>1, <2>2
  <2>4. ASSUME NEW i \in S, i <= k PROVE \E j \in DOMAIN t : t[j] = i
    <3>1. CASE i = k
      <4>1. Len(s) + 1 \in DOMAIN t
        BY <1>1, <2>1
      <4> QED
        BY <2>1, <3>1, <4>1
    <3>2. CASE i # k
      <4>1. i <= k - 1
        BY <2>4, <3>2
      <4>2. PICK j \in DOMAIN s : s[j] = i
        BY <4>1 DEF IsAscending
      <4>3. j \in DOMAIN t /\ t[j] = i
        BY <1>1, <2>1, <4>2
      <4> QED
        BY <4>3
    <3> QED
      BY <3>1, <3>2
  <2>5. ASSUME NEW i \in DOMAIN t, NEW j \in DOMAIN t, i < j PROVE t[i] < t[j]
    <3>1. i \in 1..Len(s)
      BY <1>1, <2>1, <2>5
    <3>2. CASE j \in 1..Len(s)
      BY <1>1, <2>1, <2>5, <3>1, <3>2 DEF IsAscending
    <3>3. CASE j = Len(s) + 1
      BY <1>1, <1>2, <2>1, <3>1, <3>3
    <3> QED
      BY <2>2, <3>2, <3>3
  <2>6. IsAscending(t, S, k)
    BY <2>1, <2>3, <2>4, <2>5 DEF IsAscending
  <2> QED
    BY <1>4, <2>6 DEF t
<1> QED
  BY <1>3, <1>4

\* Ascending lists the positions of a set, each once, in order.
LEMMA AscendingHolds ==
  ASSUME NEW n \in Nat, NEW S \in SUBSET (1..n)
  PROVE  /\ Ascending(S, n) \in Seq(S)
         /\ \A i \in S : \E k \in DOMAIN Ascending(S, n) : Ascending(S, n)[k] = i
         /\ \A j, k \in DOMAIN Ascending(S, n) : j < k => Ascending(S, n)[j] < Ascending(S, n)[k]
<1> DEFINE f == CHOOSE f : IsListing(f, S, n)
           T == {k \in 0..n : IsAscending(f[k], S, k)}
<1>1. IsListing(f, S, n)
  BY ListingExists
<1>2. Ascending(S, n) = f[n]
  BY Zenon DEF Ascending, IsListing
<1> HIDE DEF f
<1>3. S \in SUBSET (Nat \ {0})
  OBVIOUS
<1>4. 0 \in T
  <2>1. f[0] = <<>>
    BY <1>1 DEF IsListing
  <2>2. <<>> \in Seq(S) /\ DOMAIN <<>> = {}
    OBVIOUS
  <2>3. \A i \in S : ~(i <= 0)
    BY <1>3
  <2>4. IsAscending(<<>>, S, 0)
    BY <2>2, <2>3 DEF IsAscending
  <2> QED
    BY <2>1, <2>4
<1>5. ASSUME NEW k \in 1..n, k - 1 \in T PROVE k \in T
  <2> DEFINE Step(i, r) == IF i \in S THEN Append(r, i) ELSE r
  <2>0. f = [i \in 0..n |-> IF i = 0 THEN <<>> ELSE Step(i, f[i - 1])]
    BY <1>1 DEF IsListing
  <2> HIDE DEF Step
  <2>1. f[k] = Step(k, f[k - 1])
    BY <2>0
  <2>2. k \in Nat \ {0} /\ IsAscending(f[k - 1], S, k - 1)
    BY <1>5
  <2> QED
    BY <1>3, <2>1, <2>2, AscendingGrows DEF Step
<1>6. n \in T
  <2>1. 0..n \subseteq T
    <3> HIDE DEF T
    <3> QED
      BY <1>4, <1>5, IntervalInduction
  <2> QED
    BY <2>1
<1> QED
  BY <1>2, <1>6 DEF IsAscending

-----------------------------------------------------------------------------
(* What a program may lose, given the answer of the analysis               *)

\* The names that can be looked up in the evaluated modules.
Demanded(p) == IF retained THEN p.modules \X Name ELSE DemandedPairs

\* The positions of the exports a name is looked up through.
LookedUpAt(p, x) ==
  LET explicit == ExplicitExport(p, x[1], x[2])
  IN  IF explicit # {} \/ x[2] = "default" THEN explicit ELSE StarExports(p, x[1])

\* The evaluated modules are modules of p, they hold the entries and what they
\* depend on, and what they load and export is live.
EvaluatedIsClosed(p) ==
  /\ Evaluated \subseteq p.modules /\ p.entries \subseteq Evaluated
  /\ \A d \in p.dependencies :
       d.importer \in Evaluated /\ d.target.kind = "Internal" => d.target.module \in Evaluated
  /\ \A m \in Evaluated :
       \A b \in ReadBindings(p, m) \cup LiveExportedBindings(p, m) : IsBindingLive(m, b)

\* The demanded names follow re-exports, stay within the evaluated modules, and
\* keep the exports alive that they are looked up through.
DemandedIsClosed(p) ==
  /\ FollowsReExports(p, Demanded(p)) /\ Demanded(p) \subseteq Evaluated \X Name
  /\ \A x \in Demanded(p) : \A i \in LookedUpAt(p, x) : IsExportLive(x[1], i)

\* Names are demanded of what a live import names, of namespaces that can be
\* reached through one, and of entry modules.
UsesAreDemanded(p) ==
  /\ p.entries \X Name \subseteq Demanded(p)
  /\ \A m \in Evaluated : \A i \in p.imports[m] :
       BindsName(i) /\ IsBindingLive(m, i.binding) =>
         \A n \in InternalTarget(p, m, "StaticImport", i.source) :
           /\ i.kind = "Default" => <<n, "default">> \in Demanded(p)
           /\ i.kind = "Named" => <<n, i.imported>> \in Demanded(p)
  /\ \A m \in Evaluated, b \in Binding : IsBindingLive(m, b) =>
       \A n \in Module :
         NamespaceTarget([kind |-> "Internal", module |-> n]) \in ImportedBinding(p, m, b) =>
           {n} \X Name \subseteq Demanded(p)

\* An answer that is not everything is the least that is closed under the rules
\* of the analysis, and speaks of evaluated modules only.
AnswerIsLeast(p) ==
  ~retained =>
    /\ settled \in SUBSET ReachabilityFact /\ demands \in SUBSET ExportDemand
    /\ settled \subseteq FactsWithin(p, Evaluated) /\ demands \subseteq DemandsWithin(Evaluated)
    /\ liveExports = UNION {{d.module} \X DemandedExports(p, d) : d \in demands}
    /\ ClosedUnderUse(p, settled, demands)
    /\ \A F \in SUBSET ReachabilityFact, D \in SUBSET ExportDemand :
         ClosedUnderUse(p, F, D) => settled \subseteq F /\ demands \subseteq D

\* The answer is the one that the program calls for, and keeps all this.
AnswerKeeps(p) ==
  /\ p \in JsProgramIr /\ WellFormed(p)
  /\ AnswerIsLeast(p)
  /\ EvaluatedIsClosed(p)
  /\ DemandedIsClosed(p)
  /\ UsesAreDemanded(p)
  /\ CurrentAnswer = CorrectAnswer(p)

\* An export is looked up at its position.
LEMMA LookedUpPositions ==
  ASSUME NEW p \in JsProgramIr, NEW x \in Pair
  PROVE  /\ LookedUpAt(p, x) \subseteq DOMAIN p.exports[x[1]]
         /\ LookedUp(p, x[1], x[2]) = {p.exports[x[1]][i] : i \in LookedUpAt(p, x)}
<1>1. ExplicitExport(p, x[1], x[2]) \subseteq DOMAIN p.exports[x[1]]
  BY DEF ExplicitExport
<1>2. StarExports(p, x[1]) \subseteq DOMAIN p.exports[x[1]]
  BY DEF StarExports
<1>3. {e \in ToSet(p.exports[x[1]]) : e.kind = "Star"} = {p.exports[x[1]][i] : i \in StarExports(p, x[1])}
  BY DEF ToSet, StarExports
<1> QED
  BY <1>1, <1>2, <1>3 DEF LookedUpAt, LookedUp

\* In the answer that keeps everything.
LEMMA RetainedKeeps ==
  ASSUME Inv, phase = "done", retained
  PROVE  /\ Evaluated = program.modules
         /\ \A m \in program.modules : \A b \in program.bindings[m] : IsBindingLive(m, b)
         /\ \A m \in program.modules : \A i \in DOMAIN program.exports[m] : IsExportLive(m, i)
<1>1. settled = AllFacts(program) /\ liveExports = AllExports(program) /\ program \in JsProgramIr
  BY DEF Inv, TypeOK, Accounting
<1>2. \A m, n, b : EvaluateModule(m) # UseBinding(n, b) /\ (EvaluateModule(m) = EvaluateModule(n) => m = n)
  BY DEF EvaluateModule, UseBinding
<1>3. Evaluated = program.modules
  <2>1. program.modules \subseteq Module
    BY <1>1, ProgramParts
  <2>2. \A m : EvaluateModule(m) \in AllFacts(program) => m \in program.modules
    BY <1>2 DEF AllFacts, UseBindings
  <2>3. \A m \in program.modules : EvaluateModule(m) \in AllFacts(program)
    BY DEF AllFacts
  <2> QED
    BY <1>1, <2>1, <2>2, <2>3 DEF Evaluated
<1>4. \A m \in program.modules : \A b \in program.bindings[m] : IsBindingLive(m, b)
  BY <1>1 DEF AllFacts, UseBindings, IsBindingLive
<1>5. \A m \in program.modules : \A i \in DOMAIN program.exports[m] : IsExportLive(m, i)
  BY <1>1 DEF AllExports, IsExportLive
<1> QED
  BY <1>3, <1>4, <1>5

\* In an answer, what an evaluated module depends on is evaluated, and what it
\* reads or exports is live.
LEMMA AnswerClosesEvaluated ==
  ASSUME Inv, NothingWithoutNeed, phase = "done"
  PROVE  EvaluatedIsClosed(program)
<1>1. program \in JsProgramIr /\ WellFormed(program)
  BY DEF Inv, TypeOK
<1>2. Evaluated \subseteq program.modules
  BY OwnedEntities DEF OnlyOwnedEntities, Evaluated, EvaluateModule
<1>3. program.entries \subseteq Evaluated
  BY <1>1, EvaluationFollowsDependencies, ProgramParts DEF Evaluated, IsModuleEvaluated
<1>4. ASSUME NEW d \in program.dependencies, d.importer \in Evaluated, d.target.kind = "Internal"
      PROVE  d.target.module \in Evaluated
  <2>1. d.target.module \in Module
    BY <1>1, <1>4, ProgramParts DEF WellFormed
  <2>2. IsModuleEvaluated(d.importer)
    BY <1>4 DEF Evaluated, IsModuleEvaluated
  <2> QED
    BY <1>4, <2>1, <2>2, EvaluationFollowsDependencies DEF Evaluated, IsModuleEvaluated
<1>5. \A m \in Evaluated :
        \A b \in ReadBindings(program, m) \cup LiveExportedBindings(program, m) : IsBindingLive(m, b)
  BY <1>2, UsesAreLive, ReadsAreLive DEF Evaluated, IsModuleEvaluated
<1> QED
  BY <1>2, <1>3, <1>4, <1>5 DEF EvaluatedIsClosed

\* In an answer, the demanded names are closed under re-exports, and the exports
\* they are looked up through are live.
LEMMA AnswerClosesDemanded ==
  ASSUME Inv, NothingWithoutNeed, phase = "done"
  PROVE  DemandedIsClosed(program)
<1>1. program \in JsProgramIr /\ WellFormed(program)
  BY DEF Inv, TypeOK
<1>2. CASE retained
  <2>1. Demanded(program) = program.modules \X Name
    BY <1>2 DEF Demanded
  <2>2. ClosedUnderLinks(program, program.modules)
    BY <1>1, ModulesDependOnEachOther, DependenciesLink
  <2>3. FollowsReExports(program, program.modules \X Name)
    BY <1>1, <2>2, ModulesFollow
  <2>4. ASSUME NEW x \in program.modules \X Name, NEW i \in LookedUpAt(program, x)
        PROVE  IsExportLive(x[1], i)
    <3>1. x \in Pair
      BY <2>3 DEF FollowsReExports
    <3> QED
      BY <1>1, <1>2, <3>1, LookedUpPositions, RetainedKeeps
  <2> QED
    BY <1>2, <2>1, <2>3, <2>4, RetainedKeeps DEF DemandedIsClosed
<1>3. CASE ~retained
  <2>1. Answered /\ Demanded(program) = DemandedPairs
    BY <1>3 DEF Answered, Demanded
  <2>2. FollowsReExports(program, DemandedPairs)
    BY <2>1, DemandedPairsFollow
  <2>3. ASSUME NEW x \in DemandedPairs PROVE x \in Evaluated \X Name
    <3>1. x = <<x[1], x[2]>> /\ x[2] \in Name
      BY DEF DemandedPairs, Pair
    <3>2. PICK d \in demands : d \in {NameDemand(x[1], x[2]), NamespaceDemand(x[1])}
      BY DEF DemandedPairs
    <3>3. d.module = x[1]
      BY <3>2 DEF NameDemand, NamespaceDemand
    <3>4. d.module \in Evaluated
      BY <2>1, FactsAreEvaluated DEF DemandsWithin
    <3> QED
      BY <3>1, <3>3, <3>4
  <2>4. ASSUME NEW x \in DemandedPairs, NEW i \in LookedUpAt(program, x)
        PROVE  IsExportLive(x[1], i)
    <3>1. ASSUME NEW d \in demands, d.module = x[1], i \in DemandedExports(program, d)
          PROVE  IsExportLive(x[1], i)
      <4>1. liveExports = ExportsOf(demands)
        BY <1>3, InvMeansClosed DEF AnswerIsClosed
      <4> QED
        BY <3>1, <4>1 DEF ExportsOf, IsExportLive
    <3>2. CASE NamespaceDemand(x[1]) \in demands
      <4> DEFINE d == NamespaceDemand(x[1])
      <4>1. d.kind = "Namespace" /\ d.module = x[1]
        BY DEF NamespaceDemand
      <4>2. i \in DemandedExports(program, d)
        BY <1>1, <4>1, LookedUpPositions DEF DemandedExports, DemandedPairs
      <4> QED
        BY <3>1, <3>2, <4>1, <4>2
    <3>3. CASE NameDemand(x[1], x[2]) \in demands
      <4> DEFINE d == NameDemand(x[1], x[2])
      <4>1. d.kind = "Name" /\ d.module = x[1] /\ d.name = x[2]
        BY DEF NameDemand
      <4>2. i \in DemandedExports(program, d)
        BY <4>1 DEF DemandedExports, LookedUpAt
      <4> QED
        BY <3>1, <3>3, <4>1, <4>2
    <3> QED
      BY <3>2, <3>3 DEF DemandedPairs
  <2> QED
    BY <2>1, <2>2, <2>3, <2>4 DEF DemandedIsClosed
<1> QED
  BY <1>2, <1>3

\* In an answer, what a live import names is demanded where it is looked
\* up.
LEMMA AnswerDemandsUses ==
  ASSUME Inv, NothingWithoutNeed, phase = "done"
  PROVE  UsesAreDemanded(program)
<1>1. program \in JsProgramIr /\ WellFormed(program)
  BY DEF Inv, TypeOK
<1>2. Evaluated \subseteq program.modules /\ program.entries \subseteq program.modules
  BY <1>1, AnswerClosesEvaluated DEF EvaluatedIsClosed, WellFormed
<1>3. ASSUME NEW m \in Evaluated, NEW i \in program.imports[m], BindsName(i)
      PROVE  /\ i.kind \in {"Default", "Namespace", "Named"}
             /\ i.kind = "Named" => i.imported \in Name
  BY <1>1, <1>2, <1>3, ProgramParts DEF ModuleImport, BindsName
<1>4. DependOnEachOther(program, program.modules)
  BY <1>1, ModulesDependOnEachOther
<1>5. CASE retained
  <2>1. Demanded(program) = program.modules \X Name
    BY <1>5 DEF Demanded
  <2>2. ASSUME NEW m \in Evaluated, NEW i \in program.imports[m], BindsName(i),
               NEW n \in InternalTarget(program, m, "StaticImport", i.source)
        PROVE  n \in program.modules
    BY <1>1, <1>2, <1>4, DependenciesLink DEF RequestKind
  <2>3. ASSUME NEW m \in Evaluated, NEW b \in Binding, NEW n \in Module,
               NamespaceTarget([kind |-> "Internal", module |-> n]) \in ImportedBinding(program, m, b)
        PROVE  n \in program.modules
    <3>1. ClosedUnderLinks(program, program.modules)
      BY <1>1, <1>4, DependenciesLink
    <3> QED
      BY <1>1, <1>2, <2>3, <3>1, LinkedWithin
  <2> QED
    BY <1>2, <1>3, <2>1, <2>2, <2>3, DefaultIsAName DEF UsesAreDemanded
<1>6. CASE ~retained
  <2>1. Answered /\ Demanded(program) = DemandedPairs
    BY <1>6 DEF Answered, Demanded
  <2>2. ClosedUnderUse(program, settled, demands)
    BY <1>6, InvMeansClosed DEF AnswerIsClosed
  <2>3. ASSUME NEW n \in Module, NamespaceDemand(n) \in demands PROVE {n} \X Name \subseteq DemandedPairs
    BY <2>3 DEF DemandedPairs, Pair
  <2>4. ASSUME NEW n \in Module, NEW x \in Name, NameDemand(n, x) \in demands
        PROVE  <<n, x>> \in DemandedPairs
    BY <2>4 DEF DemandedPairs, Pair
  <2>5. ASSUME NEW m \in program.entries PROVE {m} \X Name \subseteq DemandedPairs
    <3>1. NamespaceDemand(m) \in demands
      BY <2>2 DEF ClosedUnderUse, InitialDemands
    <3>2. m \in Module
      BY <1>1, ProgramParts
    <3> QED
      BY <2>3, <3>1, <3>2
  <2>6. ASSUME NEW m \in Evaluated, NEW i \in program.imports[m], BindsName(i),
               IsBindingLive(m, i.binding),
               NEW n \in InternalTarget(program, m, "StaticImport", i.source)
        PROVE  /\ i.kind = "Default" => <<n, "default">> \in DemandedPairs
               /\ i.kind = "Named" => <<n, i.imported>> \in DemandedPairs
    <3>1. n \in Module
      BY DEF InternalTarget
    <3>2. ImportDemand(i, n) \in ImportDemands(program, m, settled)
      BY <2>6 DEF ImportDemands, IsBindingLive
    <3>3. ImportDemand(i, n) \in demands
      BY <1>2, <2>2, <3>2 DEF ClosedUnderUse, InitialDemands
    <3>4. CASE i.kind = "Default"
      BY <2>4, <3>1, <3>3, <3>4, DefaultIsAName DEF ImportDemand
    <3>5. CASE i.kind = "Named"
      <4>1. i.imported \in Name
        BY <1>3, <2>6, <3>5
      <4> QED
        BY <2>4, <3>1, <3>3, <3>5, <4>1 DEF ImportDemand
    <3> QED
      BY <3>4, <3>5
  <2>7. ASSUME NEW m \in Evaluated, NEW b \in Binding, IsBindingLive(m, b), NEW n \in Module,
               NamespaceTarget([kind |-> "Internal", module |-> n]) \in ImportedBinding(program, m, b)
        PROVE  {n} \X Name \subseteq DemandedPairs
    <3> DEFINE f == UseBinding(m, b)
    <3>1. f \in settled /\ f.kind = "UseBinding" /\ f.module = m /\ f.binding = b
      BY <2>7 DEF IsBindingLive, UseBinding
    <3>2. UseNamespace(n) \in FactsOfBinding(program, m, b)
      BY <2>7 DEF FactsOfBinding
    <3>3. UseNamespace(n) \in settled
      BY <2>2, <3>1, <3>2 DEF ClosedUnderUse, Pushed
    <3>4. NamespaceDemand(n) \in demands
      BY <2>2, <3>3 DEF ClosedUnderUse, InitialDemands
    <3> QED
      BY <2>3, <3>4
  <2> QED
    BY <2>1, <2>5, <2>6, <2>7 DEF UsesAreDemanded
<1> QED
  BY <1>5, <1>6

\* The answer is the least one.
LEMMA AnswerIsTheLeast ==
  ASSUME Inv, NothingWithoutNeed, phase = "done"
  PROVE  AnswerIsLeast(program)
<1> SUFFICES ASSUME ~retained PROVE AnswerIsLeast(program)
  BY DEF AnswerIsLeast
<1>1. Answered
  BY DEF Answered
<1>2. liveExports = ExportsOf(demands)
  BY InvMeansClosed DEF AnswerIsClosed
<1> QED
  BY <1>1, <1>2, AnswerFacts, FactsAreEvaluated DEF AnswerIsLeast, ExportsOf

\* The answer keeps all that pruning must not take away.
LEMMA AnswerIsKept ==
  ASSUME Inv, NothingWithoutNeed, phase = "done"
  PROVE  AnswerKeeps(program)
<1>1. program \in JsProgramIr /\ WellFormed(program)
  BY DEF Inv, TypeOK
<1> QED
  BY <1>1, AnswerIsTheLeast, AnswerClosesEvaluated, AnswerClosesDemanded, AnswerDemandsUses, AnswerIsCorrect
  DEF AnswerKeeps, AnswerOwed

-----------------------------------------------------------------------------
(* The program while it is pruned                                          *)

\* The modules before k have had their interface pruned.
PrunedUpTo(p, k) ==
  LET Before(m) == m \in Evaluated /\ m < k
  IN  [p EXCEPT
         !.modules = Evaluated,
         !.dependencies = {d \in @ : d.importer \in Evaluated},
         !.imports = [m \in Module |-> IF Before(m) THEN PrunedImports(p, m) ELSE @[m]],
         !.exports = [m \in Module |-> IF Before(m) THEN PrunedExports(p, m) ELSE @[m]],
         !.bindings = [m \in Module |-> IF Before(m) THEN @[m] \ DeadImportBindings(p, m) ELSE @[m]]]

-----------------------------------------------------------------------------
(* Names lead to the same in what is left                                  *)

\* If an export carries a name, one of them is the first.
LEMMA FirstExportExists ==
  ASSUME NEW p \in JsProgramIr, NEW m \in Module, NEW name,
         NEW i \in DOMAIN p.exports[m], HasExportedName(p.exports[m][i], name)
  PROVE  ExplicitExport(p, m, name) # {}
<1> DEFINE n == Len(p.exports[m])
           T == {k \in 0..n : ExplicitExport(p, m, name) = {} =>
                   \A j \in 1..k : ~HasExportedName(p.exports[m][j], name)}
<1>1. n \in Nat /\ DOMAIN p.exports[m] = 1..n
  BY StarExportsLoop
<1>2. 0 \in T
  BY <1>1
<1>3. ASSUME NEW k \in 1..n, k - 1 \in T PROVE k \in T
  <2>1. \A j \in 1..n : j < k => j \in 1..(k - 1)
    OBVIOUS
  <2>2. \A j \in 1..k : j = k \/ j \in 1..(k - 1)
    OBVIOUS
  <2>3. ASSUME ExplicitExport(p, m, name) = {}, HasExportedName(p.exports[m][k], name)
        PROVE  FALSE
    <3>1. PICK j \in 1..n : j < k /\ HasExportedName(p.exports[m][j], name)
      BY <1>1, <2>3 DEF ExplicitExport
    <3>2. j \in 1..(k - 1)
      BY <2>1, <3>1
    <3>3. \A l \in 1..(k - 1) : ~HasExportedName(p.exports[m][l], name)
      BY <1>3, <2>3
    <3> QED
      BY <3>1, <3>2, <3>3
  <2>4. k \in 0..n
    BY <1>1
  <2>5. ASSUME ExplicitExport(p, m, name) = {}, NEW j \in 1..k
        PROVE  ~HasExportedName(p.exports[m][j], name)
    <3>1. \A l \in 1..(k - 1) : ~HasExportedName(p.exports[m][l], name)
      BY <1>3, <2>5
    <3>2. CASE j = k
      BY <2>3, <2>5, <3>2
    <3>3. CASE j \in 1..(k - 1)
      BY <3>1, <3>3
    <3> QED
      BY <2>2, <3>2, <3>3
  <2> QED
    BY <2>4, <2>5
<1>4. n \in T
  <2>1. 0..n \subseteq T
    <3> HIDE DEF T
    <3> QED
      BY <1>1, <1>2, <1>3, IntervalInduction
  <2> QED
    BY <1>1, <2>1
<1> QED
  BY <1>1, <1>4

\* new holds the live exports of old, in their order and at the positions K
\* names, and among them empty ones for requests.
IsPrunedList(m, old, K, new) ==
  /\ new \in Seq(ModuleExport)
  /\ DOMAIN new = DOMAIN K
  /\ \A k \in DOMAIN K :
       /\ k \in Nat /\ K[k] \in DOMAIN old
       /\ IsExportLive(m, K[k]) => new[k] = old[K[k]]
       /\ ~IsExportLive(m, K[k]) => /\ HasSource(old[K[k]])
                                   /\ new[k] = [kind |-> "Empty", source |-> old[K[k]].source]
  /\ \A i \in DOMAIN old : IsExportLive(m, i) \/ HasSource(old[i]) => \E k \in DOMAIN K : K[k] = i
  /\ \A j, k \in DOMAIN K : j < k => K[j] < K[k]

\* The pruned export list of a module is such a list.
LEMMA PrunedExportsHold ==
  ASSUME NEW p \in JsProgramIr, NEW m \in Module
  PROVE  IsPrunedList(m, p.exports[m], KeptExports(p, m), PrunedExports(p, m))
<1> DEFINE K == KeptExports(p, m)
           n == Len(p.exports[m])
           S == StayingExports(p, m)
           e(k) == p.exports[m][K[k]]
<1>1. n \in Nat /\ DOMAIN p.exports[m] = 1..n
  BY StarExportsLoop
<1>2. S \in SUBSET (1..n)
  BY <1>1 DEF StayingExports
<1>3. /\ K \in Seq(S)
      /\ \A i \in S : \E k \in DOMAIN K : K[k] = i
      /\ \A j, k \in DOMAIN K : j < k => K[j] < K[k]
  <2> HIDE DEF S, n
  <2> QED
    BY <1>1, <1>2, AscendingHolds DEF KeptExports, S, n
<1> HIDE DEF K, S
<1>4. ASSUME NEW k \in DOMAIN K
      PROVE  /\ K[k] \in S /\ k \in Nat /\ K[k] \in DOMAIN p.exports[m]
             /\ e(k) \in ModuleExport
             /\ ~IsExportLive(m, K[k]) => e(k).kind # "Local" /\ HasSource(e(k))
  <2>1. K[k] \in S /\ k \in Nat
    BY <1>3
  <2>2. K[k] \in DOMAIN p.exports[m]
    BY <1>1, <1>2, <2>1
  <2>3. e(k) \in ModuleExport
    BY <2>2, ExportTypes
  <2>4. IsExportLive(m, K[k]) \/ HasSource(e(k))
    BY <2>1 DEF S, StayingExports
  <2> QED
    BY <2>1, <2>2, <2>3, <2>4 DEF HasSource
<1>5. PrunedExports(p, m) = [k \in DOMAIN K |->
        IF IsExportLive(m, K[k]) THEN e(k) ELSE [kind |-> "Empty", source |-> e(k).source]]
  BY DEF PrunedExports, K
<1>6. \A k \in DOMAIN K :
        /\ PrunedExports(p, m)[k] = IF IsExportLive(m, K[k]) THEN e(k)
                                    ELSE [kind |-> "Empty", source |-> e(k).source]
  BY <1>5
<1>7. ASSUME NEW k \in DOMAIN K PROVE PrunedExports(p, m)[k] \in ModuleExport
  <2>1. CASE IsExportLive(m, K[k])
    BY <1>4, <1>6, <2>1
  <2>2. CASE ~IsExportLive(m, K[k])
    <3>1. e(k) \in ModuleExport /\ e(k).kind # "Local"
      BY <1>4, <2>2
    <3>2. e(k).source \in Source
      BY <3>1 DEF ModuleExport
    <3>3. [kind |-> "Empty", source |-> e(k).source] \in ModuleExport
      BY <3>2 DEF ModuleExport
    <3> QED
      BY <1>6, <2>2, <3>3, Zenon
  <2> QED
    BY <2>1, <2>2
<1>8. PrunedExports(p, m) \in Seq(ModuleExport)
  <2>1. DOMAIN K = 1..Len(K) /\ Len(K) \in Nat
    BY <1>3
  <2>2. DOMAIN PrunedExports(p, m) = 1..Len(K)
    BY <1>5, <2>1
  <2>3. PrunedExports(p, m) \in [1..Len(K) -> ModuleExport]
    BY <1>5, <1>7, <2>1, <2>2
  <2> QED
    BY <2>1, <2>3
<1>9. \A i \in DOMAIN p.exports[m] : IsExportLive(m, i) \/ HasSource(p.exports[m][i]) => i \in S
  BY DEF S, StayingExports
<1> QED
  BY <1>3, <1>4, <1>5, <1>6, <1>8, <1>9 DEF IsPrunedList, K

\* What the pruned export list says of a demanded name is what the old one said.
LEMMA LookedUpTheSame ==
  ASSUME NEW p \in JsProgramIr, NEW q \in JsProgramIr, NEW m \in Module, NEW name \in Name,
         \A i \in LookedUpAt(p, <<m, name>>) : IsExportLive(m, i),
         q.exports[m] = PrunedExports(p, m)
  PROVE  LookedUp(q, m, name) = LookedUp(p, m, name)
<1> DEFINE K == KeptExports(p, m)
           old(i) == p.exports[m][i]
           new(k) == q.exports[m][k]
<1>1. /\ DOMAIN q.exports[m] = DOMAIN K
      /\ \A k \in DOMAIN K :
           /\ k \in Nat /\ K[k] \in DOMAIN p.exports[m]
           /\ IF IsExportLive(m, K[k]) THEN new(k) = old(K[k]) ELSE new(k).kind = "Empty"
      /\ \A i \in DOMAIN p.exports[m] : IsExportLive(m, i) => \E k \in DOMAIN K : K[k] = i
      /\ \A j, k \in DOMAIN K : j < k => K[j] < K[k]
  <2>1. IsPrunedList(m, p.exports[m], K, q.exports[m])
    BY PrunedExportsHold
  <2> HIDE DEF K
  <2> QED
    BY <2>1 DEF IsPrunedList
<1> HIDE DEF K
<1>2. \A k \in DOMAIN K :
        HasExportedName(new(k), name) <=> IsExportLive(m, K[k]) /\ HasExportedName(old(K[k]), name)
  BY <1>1 DEF HasExportedName
<1>3. \A i \in DOMAIN p.exports[m] : i \in Nat
  BY ExportTypes
<1>4. CASE ExplicitExport(p, m, name) # {}
  <2>1. PICK i \in ExplicitExport(p, m, name) : TRUE
    BY <1>4
  <2>2. ExplicitExport(p, m, name) = {i} /\ i \in DOMAIN p.exports[m]
    BY <2>1, ExplicitExportTypes
  <2>3. /\ HasExportedName(old(i), name)
        /\ \A j \in DOMAIN p.exports[m] : j < i => ~HasExportedName(old(j), name)
    BY <2>1 DEF ExplicitExport
  <2>4. i \in LookedUpAt(p, <<m, name>>)
    BY <1>4, <2>1 DEF LookedUpAt
  <2>5. PICK k \in DOMAIN K : K[k] = i
    BY <1>1, <2>2, <2>4
  <2>6. IsExportLive(m, i) /\ new(k) = old(i)
    BY <1>1, <2>4, <2>5
  <2>7. k \in ExplicitExport(q, m, name)
    <3>1. ASSUME NEW j \in DOMAIN K, j < k PROVE ~HasExportedName(new(j), name)
      BY <1>1, <1>2, <2>3, <2>5, <3>1
    <3> QED
      BY <1>1, <2>3, <2>6, <3>1 DEF ExplicitExport
  <2>8. ExplicitExport(q, m, name) = {k}
    BY <2>7, ExplicitExportTypes
  <2>9. LookedUp(q, m, name) = {new(k)} /\ LookedUp(p, m, name) = {old(i)}
    BY <1>4, <2>2, <2>8 DEF LookedUp
  <2> QED
    BY <2>6, <2>9
<1>5. CASE ExplicitExport(p, m, name) = {}
  <2>1. \A i \in DOMAIN p.exports[m] : ~HasExportedName(old(i), name)
    BY <1>5, FirstExportExists
  <2>2. ExplicitExport(q, m, name) = {}
    BY <1>1, <1>2, <2>1 DEF ExplicitExport
  <2>3. CASE name = "default"
    BY <1>5, <2>2, <2>3 DEF LookedUp
  <2>4. CASE name # "default"
    <3>1. LookedUp(q, m, name) = {e \in ToSet(q.exports[m]) : e.kind = "Star"}
      BY <2>2, <2>4 DEF LookedUp
    <3>2. LookedUp(p, m, name) = {e \in ToSet(p.exports[m]) : e.kind = "Star"}
      BY <1>5, <2>4 DEF LookedUp
    <3>3. ASSUME NEW k \in DOMAIN K, new(k).kind = "Star"
          PROVE  \E i \in DOMAIN p.exports[m] : old(i) = new(k)
      BY <1>1, <3>3
    <3>4. ASSUME NEW i \in DOMAIN p.exports[m], old(i).kind = "Star"
          PROVE  \E k \in DOMAIN K : old(i) = new(k)
      <4>1. i \in LookedUpAt(p, <<m, name>>)
        BY <1>5, <2>4, <3>4 DEF LookedUpAt, StarExports
      <4> QED
        BY <1>1, <4>1
    <3> QED
      BY <1>1, <3>1, <3>2, <3>3, <3>4 DEF ToSet
  <2> QED
    BY <2>3, <2>4
<1> QED
  BY <1>4, <1>5

\* What pruning leaves of a program: the demanded names of evaluated modules
\* lead to the same and say the same.
\* q keeps the evaluated modules of p, their dependencies and their pruned exports.
LeavesExports(p, q) ==
  /\ q.modules = Evaluated
  /\ q.dependencies = {d \in p.dependencies : d.importer \in Evaluated}
  /\ \A m \in Evaluated : q.exports[m] = PrunedExports(p, m)

\* The requests of a module that stays are answered by the same modules
\* after pruning.
LEMMA RequestsAnsweredTheSame ==
  ASSUME NEW p, NEW q, LeavesExports(p, q), NEW m \in Evaluated, NEW request, NEW source
  PROVE  UniqueTarget(q, m, request, source) = UniqueTarget(p, m, request, source)
<1>1. Targets(q, m, request, source) = Targets(p, m, request, source)
  BY DEF LeavesExports, Targets
<1> QED
  BY <1>1 DEF UniqueTarget

\* Of a demanded name, the export lists before and after pruning say the
\* same.
LEMMA DemandedNamesAgree ==
  ASSUME NEW p, AnswerKeeps(p), NEW q \in JsProgramIr, LeavesExports(p, q)
  PROVE  AgreeOn(p, q, Demanded(p))
<1>1. /\ p \in JsProgramIr /\ FollowsReExports(p, Demanded(p))
      /\ Demanded(p) \subseteq Evaluated \X Name
      /\ \A x \in Demanded(p) : \A i \in LookedUpAt(p, x) : IsExportLive(x[1], i)
  BY DEF AnswerKeeps, DemandedIsClosed
<1>2. ASSUME NEW x \in Demanded(p)
      PROVE  PairLeadsTo(q, x) = PairLeadsTo(p, x) /\ PairSays(q, x) = PairSays(p, x)
  <2>1. x[1] \in Evaluated /\ x[1] \in Module /\ x[2] \in Name /\ x = <<x[1], x[2]>>
    BY <1>1 DEF Evaluated
  <2>2. LookedUp(q, x[1], x[2]) = LookedUp(p, x[1], x[2])
    BY <1>1, <2>1, LookedUpTheSame DEF LeavesExports
  <2>3. \A source : UniqueTarget(q, x[1], "ReExport", source) = UniqueTarget(p, x[1], "ReExport", source)
    BY <2>1, RequestsAnsweredTheSame
  <2>4. \A e : ExportLeadsTo(q, x[1], e, x[2]) = ExportLeadsTo(p, x[1], e, x[2])
    BY <2>3 DEF ExportLeadsTo, InternalTarget
  <2>5. \A source : ReExportTarget(q, x[1], source) = ReExportTarget(p, x[1], source)
    BY <2>3 DEF ReExportTarget
  <2>6. \A e : ExportSays(q, x[1], e, x[2]) = ExportSays(p, x[1], e, x[2])
    <3> TAKE e
    <3>1. ReExportTarget(q, x[1], e.source) = ReExportTarget(p, x[1], e.source)
      BY <2>5
    <3>2. CASE e.kind = "Local"
      BY <3>2 DEF ExportSays, HasSource
    <3>3. CASE e.kind # "Local"
      BY <3>1, <3>3 DEF ExportSays
    <3> QED
      BY <3>2, <3>3
  <2> QED
    BY <2>2, <2>4, <2>6 DEF PairLeadsTo, PairSays
<1> QED
  BY <1>1, <1>2 DEF AgreeOn

\* A demanded name of a module resolves to what it resolved to.
LEMMA ResolvedAsBefore ==
  ASSUME NEW p, AnswerKeeps(p), NEW q \in JsProgramIr, WellFormed(q), LeavesExports(p, q),
         NEW m, NEW name, <<m, name>> \in Demanded(p)
  PROVE  ResolveExport(q, m, name) = ResolveExport(p, m, name)
<1>1. /\ p \in JsProgramIr /\ WellFormed(p) /\ Demanded(p) \subseteq Evaluated \X Name
      /\ Evaluated \subseteq p.modules
  BY DEF AnswerKeeps, DemandedIsClosed, EvaluatedIsClosed
<1>2. m \in p.modules /\ m \in q.modules /\ name \in Name
  BY <1>1 DEF LeavesExports
<1>3. AgreeOn(p, q, Demanded(p))
  BY DemandedNamesAgree
<1> QED
  BY <1>1, <1>2, <1>3, ResolvedTheSame

-----------------------------------------------------------------------------
(* Links are preserved                                                     *)

\* q is what pruning may leave of p.
Leaves(p, q) ==
  /\ q \in JsProgramIr /\ WellFormed(q)
  /\ LeavesExports(p, q)
  /\ q.entries = p.entries /\ q.directEval = p.directEval
  /\ \A m \in Evaluated :
       /\ q.imports[m] = PrunedImports(p, m) /\ q.loads[m] = p.loads[m]
       /\ q.bindings[m] = p.bindings[m] \ DeadImportBindings(p, m)

\* What a name of another module resolves to is what it resolved to.
LEMMA NameImportedAsBefore ==
  ASSUME NEW p, AnswerKeeps(p), NEW q, Leaves(p, q), NEW target, NEW name,
         target.kind = "Internal" => <<target.module, name>> \in Demanded(p)
  PROVE  ResolveImportedName(q, target, name) = ResolveImportedName(p, target, name)
<1>1. CASE target.kind # "Internal"
  BY <1>1 DEF ResolveImportedName
<1>2. CASE target.kind = "Internal"
  <2>1. ResolveExport(q, target.module, name) = ResolveExport(p, target.module, name)
    BY <1>2, ResolvedAsBefore DEF Leaves
  <2> QED
    BY <1>2, <2>1 DEF ResolveImportedName
<1> QED
  BY <1>1, <1>2

\* A live import is resolved to what it was resolved to.
LEMMA ImportResolvedAsBefore ==
  ASSUME NEW p, AnswerKeeps(p), NEW q, Leaves(p, q), NEW m \in Evaluated,
         NEW i \in p.imports[m], BindsName(i), IsBindingLive(m, i.binding)
  PROVE  ResolveImport(q, m, i) = ResolveImport(p, m, i)
<1> DEFINE targets == UniqueTarget(p, m, "StaticImport", i.source)
           target == CHOOSE t \in targets : TRUE
<1>1. p \in JsProgramIr /\ WellFormed(p) /\ m \in Module /\ Evaluated \subseteq p.modules
  BY DEF AnswerKeeps, EvaluatedIsClosed, Evaluated
<1>2. UniqueTarget(q, m, "StaticImport", i.source) = targets
  BY RequestsAnsweredTheSame DEF Leaves
<1>3. i.kind \in {"Default", "Namespace", "Named"}
  BY <1>1, ProgramParts DEF ModuleImport, BindsName
<1> HIDE DEF targets
<1>4. CASE targets = {}
  BY <1>2, <1>4 DEF ResolveImport, targets
<1>5. CASE targets # {}
  <2>1. target \in targets
    BY <1>5
  <2>2. ASSUME target.kind = "Internal"
        PROVE  /\ i.kind = "Default" => <<target.module, "default">> \in Demanded(p)
               /\ i.kind = "Named" => <<target.module, i.imported>> \in Demanded(p)
    <3>1. target \in ModuleTarget
      BY <1>1, <2>1, ProgramParts DEF targets, UniqueTarget, Targets, ModuleDependency
    <3>2. target.module \in Module /\ target = [kind |-> "Internal", module |-> target.module]
      BY <2>2, <3>1 DEF ModuleTarget
    <3>3. target.module \in InternalTarget(p, m, "StaticImport", i.source)
      BY <2>1, <3>2 DEF InternalTarget, targets
    <3> QED
      BY <3>3 DEF AnswerKeeps, UsesAreDemanded
  <2>3. CASE i.kind = "Namespace"
    <3>1. ResolveImport(p, m, i) = NamespaceTarget(target)
      BY <1>5, <2>3 DEF ResolveImport, targets
    <3>2. ResolveImport(q, m, i) = NamespaceTarget(target)
      BY <1>2, <1>5, <2>3 DEF ResolveImport
    <3> QED
      BY <3>1, <3>2
  <2>4. CASE i.kind = "Default"
    <3>1. ResolveImportedName(q, target, "default") = ResolveImportedName(p, target, "default")
      BY <2>2, <2>4, NameImportedAsBefore
    <3> QED
      BY <1>2, <1>5, <2>4, <3>1 DEF ResolveImport, targets
  <2>5. CASE i.kind = "Named"
    <3>1. ResolveImportedName(q, target, i.imported) = ResolveImportedName(p, target, i.imported)
      BY <2>2, <2>5, NameImportedAsBefore
    <3> QED
      BY <1>2, <1>5, <2>5, <3>1 DEF ResolveImport, targets
  <2> QED
    BY <1>3, <2>3, <2>4, <2>5
<1> QED
  BY <1>4, <1>5

\* The imports that are left are the live ones.
LEMMA ImportsLeft ==
  ASSUME NEW p, NEW q, Leaves(p, q), NEW m \in Evaluated, NEW b \in ImportedBindings(q, m)
  PROVE  /\ IsBindingLive(m, b)
         /\ {i \in q.imports[m] : BindsName(i) /\ i.binding = b}
              = {i \in p.imports[m] : BindsName(i) /\ i.binding = b}
<1>1. q.imports[m] = {IF DeadImport(m, i) THEN [kind |-> "Bare", source |-> i.source] ELSE i :
                        i \in p.imports[m]}
  BY DEF Leaves, PrunedImports
<1>2. ASSUME NEW i \in q.imports[m], BindsName(i)
      PROVE  i \in p.imports[m] /\ IsBindingLive(m, i.binding)
  BY <1>1, <1>2 DEF BindsName, DeadImport
<1>3. IsBindingLive(m, b)
  BY <1>2 DEF ImportedBindings
<1>4. ASSUME NEW i \in p.imports[m], BindsName(i), i.binding = b
      PROVE  i \in q.imports[m]
  BY <1>1, <1>3, <1>4 DEF DeadImport
<1> QED
  BY <1>2, <1>3, <1>4

\* Every import that is left is linked to what it was linked to, and sees the
\* same names in a namespace.
LEMMA LinkedAsBefore ==
  ASSUME NEW p, AnswerKeeps(p), NEW q, Leaves(p, q), NEW m \in Evaluated,
         NEW b \in ImportedBindings(q, m)
  PROVE  /\ ImportedBinding(q, m, b) = ImportedBinding(p, m, b)
         /\ \A n \in Module :
              NamespaceTarget([kind |-> "Internal", module |-> n]) \in ImportedBinding(q, m, b)
                => View(q, n) = View(p, n)
<1> DEFINE I == {i \in p.imports[m] : BindsName(i) /\ i.binding = b}
<1>1. IsBindingLive(m, b) /\ {i \in q.imports[m] : BindsName(i) /\ i.binding = b} = I
  BY ImportsLeft
<1>2. \A i \in I : ResolveImport(q, m, i) = ResolveImport(p, m, i)
  BY <1>1, ImportResolvedAsBefore
<1>3. ImportedBinding(q, m, b) = ImportedBinding(p, m, b)
  BY <1>1, <1>2 DEF ImportedBinding
<1>4. ASSUME NEW n \in Module,
             NamespaceTarget([kind |-> "Internal", module |-> n]) \in ImportedBinding(p, m, b)
      PROVE  View(q, n) = View(p, n)
  <2>1. b \in Binding
    <3>1. q \in JsProgramIr /\ WellFormed(q) /\ m \in Module /\ m \in q.modules
      BY DEF Leaves, LeavesExports, Evaluated
    <3> QED
      BY <3>1, ProgramParts DEF WellFormed
  <2>2. {n} \X Name \subseteq Demanded(p)
    BY <1>1, <1>4, <2>1 DEF AnswerKeeps, UsesAreDemanded
  <2>3. q \in JsProgramIr /\ WellFormed(q) /\ LeavesExports(p, q)
    BY DEF Leaves
  <2>4. ASSUME NEW name \in Name PROVE ResolveExport(q, n, name) = ResolveExport(p, n, name)
    <3>1. <<n, name>> \in Demanded(p)
      BY <2>2
    <3> QED
      BY <2>3, <3>1, ResolvedAsBefore
  <2> QED
    BY <2>4 DEF View
<1> QED
  BY <1>3, <1>4

\* The public names of an entry module denote what they denoted.
LEMMA EntriesAsBefore ==
  ASSUME NEW p, AnswerKeeps(p), NEW q, Leaves(p, q), NEW m \in q.entries
  PROVE  View(q, m) = View(p, m)
<1>1. \A name \in Name : <<m, name>> \in Demanded(p)
  BY DEF Leaves, AnswerKeeps, UsesAreDemanded
<1>2. q \in JsProgramIr /\ WellFormed(q) /\ LeavesExports(p, q)
  BY DEF Leaves
<1>3. ASSUME NEW name \in Name PROVE ResolveExport(q, m, name) = ResolveExport(p, m, name)
  <2>1. <<m, name>> \in Demanded(p)
    BY <1>1
  <2> QED
    BY <1>2, <2>1, ResolvedAsBefore
<1> QED
  BY <1>3 DEF View

-----------------------------------------------------------------------------
(* The steps of pruning                                                    *)

\* Programs with the same parts are the same.
LEMMA SameParts ==
  ASSUME NEW p \in JsProgramIr, NEW q \in JsProgramIr,
         p.modules = q.modules, p.entries = q.entries, p.dependencies = q.dependencies,
         \A m \in Module : /\ p.imports[m] = q.imports[m] /\ p.exports[m] = q.exports[m]
                           /\ p.bindings[m] = q.bindings[m] /\ p.loads[m] = q.loads[m]
                           /\ p.writes[m] = q.writes[m] /\ p.guardedLoads[m] = q.guardedLoads[m]
                           /\ p.dynamicImports[m] = q.dynamicImports[m],
         p.directEval = q.directEval, p.guardedEval = q.guardedEval
  PROVE  p = q
<1>1. /\ p.imports = q.imports /\ p.exports = q.exports /\ p.bindings = q.bindings
      /\ p.loads = q.loads /\ p.writes = q.writes /\ p.dynamicImports = q.dynamicImports
      /\ p.guardedLoads = q.guardedLoads
  BY DEF JsProgramIr
<1>2. ASSUME NEW x \in JsProgramIr
      PROVE  x = [modules |-> x.modules, entries |-> x.entries, dependencies |-> x.dependencies,
                  imports |-> x.imports, exports |-> x.exports, bindings |-> x.bindings,
                  loads |-> x.loads, writes |-> x.writes, guardedLoads |-> x.guardedLoads,
                  directEval |-> x.directEval, guardedEval |-> x.guardedEval,
                  dynamicImports |-> x.dynamicImports]
  BY DEF JsProgramIr
<1>3. p = [modules |-> q.modules, entries |-> q.entries, dependencies |-> q.dependencies,
           imports |-> q.imports, exports |-> q.exports, bindings |-> q.bindings,
           loads |-> q.loads, writes |-> q.writes, guardedLoads |-> q.guardedLoads,
           directEval |-> q.directEval, guardedEval |-> q.guardedEval,
           dynamicImports |-> q.dynamicImports]
  BY <1>1, <1>2, Zenon
<1> QED
  BY <1>2, <1>3, Zenon

\* Pruned imports are imports, and those that bind a name have not changed.
LEMMA PrunedImportsHold ==
  ASSUME NEW p \in JsProgramIr, NEW m \in Module
  PROVE  /\ PrunedImports(p, m) \in SUBSET ModuleImport
         /\ \A i : i \in PrunedImports(p, m) /\ BindsName(i)
                     <=> i \in p.imports[m] /\ BindsName(i) /\ ~DeadImport(m, i)
<1>1. ASSUME NEW i \in p.imports[m]
      PROVE  [kind |-> "Bare", source |-> i.source] \in ModuleImport
  <2>1. i \in ModuleImport
    BY ProgramParts
  <2>2. i.source \in Source
    BY <2>1 DEF ModuleImport
  <2> QED
    BY <2>2 DEF ModuleImport
<1>2. p.imports[m] \subseteq ModuleImport
  BY ProgramParts
<1>3. PrunedImports(p, m) \in SUBSET ModuleImport
  BY <1>1, <1>2 DEF PrunedImports
<1> QED
  BY <1>3 DEF PrunedImports, BindsName, DeadImport

\* Part by part, q is p with the interfaces of the modules before k pruned.
IsPrunedUpTo(p, q, k) ==
  /\ q \in JsProgramIr
  /\ q.modules = Evaluated /\ q.entries = p.entries
  /\ q.dependencies = {d \in p.dependencies : d.importer \in Evaluated}
  /\ \A m \in Module :
       /\ q.imports[m] = IF m \in Evaluated /\ m < k THEN PrunedImports(p, m) ELSE p.imports[m]
       /\ q.exports[m] = IF m \in Evaluated /\ m < k THEN PrunedExports(p, m) ELSE p.exports[m]
       /\ q.bindings[m] = IF m \in Evaluated /\ m < k THEN p.bindings[m] \ DeadImportBindings(p, m)
                          ELSE p.bindings[m]
       /\ q.loads[m] = p.loads[m] /\ q.writes[m] = p.writes[m]
       /\ q.guardedLoads[m] = p.guardedLoads[m]
       /\ q.dynamicImports[m] = p.dynamicImports[m]
  /\ q.directEval = p.directEval /\ q.guardedEval = p.guardedEval

\* PrunedUpTo is that program.
LEMMA PrunedParts ==
  ASSUME NEW p \in JsProgramIr, NEW k
  PROVE  IsPrunedUpTo(p, PrunedUpTo(p, k), k)
<1> DEFINE Before(m) == m \in Evaluated /\ m < k
           I == [m \in Module |-> IF Before(m) THEN PrunedImports(p, m) ELSE p.imports[m]]
           X == [m \in Module |-> IF Before(m) THEN PrunedExports(p, m) ELSE p.exports[m]]
           B == [m \in Module |-> IF Before(m) THEN p.bindings[m] \ DeadImportBindings(p, m)
                                  ELSE p.bindings[m]]
           D == {d \in p.dependencies : d.importer \in Evaluated}
<1>1. /\ I \in [Module -> SUBSET ModuleImport] /\ X \in [Module -> Seq(ModuleExport)]
      /\ B \in [Module -> SUBSET Binding]
  <2>1. \A m \in Module : PrunedImports(p, m) \in SUBSET ModuleImport
    BY PrunedImportsHold
  <2>2. \A m \in Module : PrunedExports(p, m) \in Seq(ModuleExport)
    BY PrunedExportsHold DEF IsPrunedList
  <2>3. \A m \in Module : /\ p.imports[m] \in SUBSET ModuleImport
                          /\ p.exports[m] \in Seq(ModuleExport)
                          /\ p.bindings[m] \in SUBSET Binding
    BY DEF JsProgramIr
  <2> HIDE DEF Before
  <2> QED
    BY <2>1, <2>2, <2>3
<1>2. PrunedUpTo(p, k) = [p EXCEPT !.modules = Evaluated, !.dependencies = D,
                                   !.imports = I, !.exports = X, !.bindings = B]
  BY DEF PrunedUpTo
<1>3. Evaluated \in SUBSET Module /\ D \in SUBSET ModuleDependency
  BY ProgramParts DEF Evaluated
<1>4. \A m \in Module :
        /\ I[m] = IF Before(m) THEN PrunedImports(p, m) ELSE p.imports[m]
        /\ X[m] = IF Before(m) THEN PrunedExports(p, m) ELSE p.exports[m]
        /\ B[m] = IF Before(m) THEN p.bindings[m] \ DeadImportBindings(p, m) ELSE p.bindings[m]
  OBVIOUS
<1> HIDE DEF I, X, B, D, Before
<1>5. /\ PrunedUpTo(p, k) \in JsProgramIr
      /\ PrunedUpTo(p, k).modules = Evaluated /\ PrunedUpTo(p, k).dependencies = D
      /\ PrunedUpTo(p, k).imports = I /\ PrunedUpTo(p, k).exports = X
      /\ PrunedUpTo(p, k).bindings = B
      /\ PrunedUpTo(p, k).entries = p.entries /\ PrunedUpTo(p, k).loads = p.loads
      /\ PrunedUpTo(p, k).writes = p.writes /\ PrunedUpTo(p, k).directEval = p.directEval
      /\ PrunedUpTo(p, k).guardedLoads = p.guardedLoads
      /\ PrunedUpTo(p, k).guardedEval = p.guardedEval
      /\ PrunedUpTo(p, k).dynamicImports = p.dynamicImports
  <2> DEFINE q == PrunedUpTo(p, k)
  <2>1. q = [p EXCEPT !.modules = Evaluated, !.dependencies = D, !.imports = I, !.exports = X,
                      !.bindings = B]
    BY <1>2, Zenon
  <2> HIDE DEF q
  <2>2. /\ q \in JsProgramIr
        /\ q.modules = Evaluated /\ q.dependencies = D
        /\ q.imports = I /\ q.exports = X /\ q.bindings = B
        /\ q.entries = p.entries /\ q.loads = p.loads
        /\ q.writes = p.writes /\ q.directEval = p.directEval
        /\ q.guardedLoads = p.guardedLoads /\ q.guardedEval = p.guardedEval
        /\ q.dynamicImports = p.dynamicImports
    BY <1>1, <1>3, <2>1 DEF JsProgramIr
  <2> QED
    BY <2>2, Zenon DEF q
<1> QED
  BY <1>4, <1>5, Zenon DEF IsPrunedUpTo, D, Before

\* Removing the modules that are not evaluated is the start of it.
LEMMA PruningStarts ==
  ASSUME NEW p, AnswerKeeps(p), p.modules \subseteq Nat \ {0}
  PROVE  /\ RemoveModulesAllowed(p, UnreachableModules(p))
         /\ RemoveModules(p, UnreachableModules(p)) = PrunedUpTo(p, 1)
         /\ WellFormed(PrunedUpTo(p, 1))
<1> DEFINE q == RemoveModules(p, UnreachableModules(p))
           r == PrunedUpTo(p, 1)
<1>1. /\ p \in JsProgramIr /\ WellFormed(p)
      /\ Evaluated \subseteq p.modules /\ p.entries \subseteq Evaluated
      /\ \A d \in p.dependencies :
           d.importer \in Evaluated /\ d.target.kind = "Internal" => d.target.module \in Evaluated
  BY DEF AnswerKeeps, EvaluatedIsClosed
<1>2. UnreachableModules(p) = p.modules \ Evaluated
  BY <1>1, ProgramParts DEF UnreachableModules, Evaluated, IsModuleEvaluated
<1>3. \A d \in p.dependencies : d.importer \in p.modules
  BY <1>1 DEF WellFormed
<1>4. RemoveModulesAllowed(p, UnreachableModules(p))
  BY <1>1, <1>2, <1>3 DEF RemoveModulesAllowed
<1>5. /\ p.modules \ UnreachableModules(p) = Evaluated
      /\ {d \in p.dependencies : d.importer \notin UnreachableModules(p)}
           = {d \in p.dependencies : d.importer \in Evaluated}
  BY <1>1, <1>2, <1>3
<1>6. /\ r \in JsProgramIr
      /\ r.modules = Evaluated /\ r.entries = p.entries
      /\ r.dependencies = {d \in p.dependencies : d.importer \in Evaluated}
      /\ \A m \in Module :
           /\ r.imports[m] = p.imports[m] /\ r.exports[m] = p.exports[m]
           /\ r.bindings[m] = p.bindings[m]
           /\ r.loads[m] = p.loads[m] /\ r.writes[m] = p.writes[m]
           /\ r.guardedLoads[m] = p.guardedLoads[m]
           /\ r.dynamicImports[m] = p.dynamicImports[m]
      /\ r.directEval = p.directEval /\ r.guardedEval = p.guardedEval
  <2> DEFINE Before(m) == m \in Evaluated /\ m < 1
  <2>1. \A m : ~Before(m)
    BY <1>1
  <2>2. /\ r \in JsProgramIr
        /\ r.modules = Evaluated /\ r.entries = p.entries
        /\ r.dependencies = {d \in p.dependencies : d.importer \in Evaluated}
        /\ \A m \in Module :
             /\ r.imports[m] = IF Before(m) THEN PrunedImports(p, m) ELSE p.imports[m]
             /\ r.exports[m] = IF Before(m) THEN PrunedExports(p, m) ELSE p.exports[m]
             /\ r.bindings[m] = IF Before(m) THEN p.bindings[m] \ DeadImportBindings(p, m)
                                ELSE p.bindings[m]
             /\ r.loads[m] = p.loads[m] /\ r.writes[m] = p.writes[m]
             /\ r.guardedLoads[m] = p.guardedLoads[m]
             /\ r.dynamicImports[m] = p.dynamicImports[m]
        /\ r.directEval = p.directEval /\ r.guardedEval = p.guardedEval
    BY <1>1, PrunedParts, Zenon DEF IsPrunedUpTo
  <2> HIDE DEF Before, r
  <2> QED
    BY <2>1, <2>2
<1> HIDE DEF r
<1>7. q = [p EXCEPT !.modules = Evaluated,
                    !.dependencies = {d \in p.dependencies : d.importer \in Evaluated}]
  BY <1>5 DEF RemoveModules
<1>8. q \in JsProgramIr /\ q = r
  <2>1. Evaluated \in SUBSET Module /\ p.dependencies \in SUBSET ModuleDependency
    BY <1>1, ProgramParts
  <2> DEFINE kept == {d \in p.dependencies : d.importer \in Evaluated}
  <2>5. kept \in SUBSET ModuleDependency
    BY <2>1
  <2>6. q = [p EXCEPT !.modules = Evaluated, !.dependencies = kept]
    BY <1>7, Zenon
  <2> HIDE DEF q, kept
  <2>2. /\ q \in JsProgramIr
        /\ q.modules = Evaluated /\ q.entries = p.entries /\ q.dependencies = kept
        /\ q.imports = p.imports /\ q.exports = p.exports /\ q.bindings = p.bindings
        /\ q.loads = p.loads /\ q.writes = p.writes /\ q.directEval = p.directEval
        /\ q.guardedLoads = p.guardedLoads /\ q.guardedEval = p.guardedEval
        /\ q.dynamicImports = p.dynamicImports
    BY <1>1, <2>1, <2>5, <2>6 DEF JsProgramIr
  <2> USE DEF kept
  <2>3. /\ q.modules = r.modules /\ q.entries = r.entries /\ q.dependencies = r.dependencies
        /\ \A m \in Module : /\ q.imports[m] = r.imports[m] /\ q.exports[m] = r.exports[m]
                             /\ q.bindings[m] = r.bindings[m] /\ q.loads[m] = r.loads[m]
                             /\ q.writes[m] = r.writes[m] /\ q.guardedLoads[m] = r.guardedLoads[m]
                             /\ q.dynamicImports[m] = r.dynamicImports[m]
        /\ q.directEval = r.directEval /\ q.guardedEval = r.guardedEval
    BY <1>6, <2>2
  <2>4. q = r
    BY <1>6, <2>2, <2>3, SameParts, Zenon
  <2> QED
    BY <2>2, <2>4
<1>9. WellFormed(r)
  <2>1. \A m \in Module : /\ ImportedBindings(r, m) = ImportedBindings(p, m)
                          /\ ExportedBindings(r, m) = ExportedBindings(p, m)
                          /\ ReferencedBindings(r, m) = ReferencedBindings(p, m)
    BY <1>6 DEF ImportedBindings, ExportedBindings, ReferencedBindings
  <2>2. Evaluated \subseteq Module
    BY <1>1, ProgramParts
  <2> QED
    BY <1>1, <1>6, <2>1, <2>2 DEF WellFormed
<1> QED
  BY <1>4, <1>8, <1>9 DEF r

\* What is left when the interface of m is pruned in q.
InterfacePruned(q, m) == RemoveBindings(PrunedInterface(q, m), m, DeadImportBindings(q, m))

\* Part by part, r is q with the interface of m pruned.
IsInterfacePruned(q, r, m) ==
  /\ r \in JsProgramIr
  /\ r.modules = q.modules /\ r.entries = q.entries /\ r.dependencies = q.dependencies
  /\ \A n \in Module :
       /\ r.imports[n] = IF n = m THEN PrunedImports(q, m) ELSE q.imports[n]
       /\ r.exports[n] = IF n = m THEN PrunedExports(q, m) ELSE q.exports[n]
       /\ r.bindings[n] = IF n = m THEN q.bindings[m] \ DeadImportBindings(q, m) ELSE q.bindings[n]
       /\ r.loads[n] = q.loads[n] /\ r.writes[n] = q.writes[n]
       /\ r.guardedLoads[n] = q.guardedLoads[n]
       /\ r.dynamicImports[n] = q.dynamicImports[n]
  /\ r.directEval = q.directEval /\ r.guardedEval = q.guardedEval

\* InterfacePruned is that program.
LEMMA InterfaceParts ==
  ASSUME NEW q \in JsProgramIr, NEW m \in Module
  PROVE  IsInterfacePruned(q, InterfacePruned(q, m), m)
<1> DEFINE r == InterfacePruned(q, m)
           I == [q.imports EXCEPT ![m] = PrunedImports(q, m)]
           X == [q.exports EXCEPT ![m] = PrunedExports(q, m)]
           B == [q.bindings EXCEPT ![m] = q.bindings[m] \ DeadImportBindings(q, m)]
<1>1. r = [q EXCEPT !.imports = I, !.exports = X, !.bindings = B]
  BY DEF InterfacePruned, RemoveBindings, PrunedInterface, ReplaceInterface, JsProgramIr
<1>2. /\ PrunedImports(q, m) \in SUBSET ModuleImport
      /\ PrunedExports(q, m) \in Seq(ModuleExport)
  BY PrunedImportsHold, PrunedExportsHold DEF IsPrunedList
<1>3. /\ q.imports \in [Module -> SUBSET ModuleImport] /\ q.exports \in [Module -> Seq(ModuleExport)]
      /\ q.bindings \in [Module -> SUBSET Binding]
  BY DEF JsProgramIr
<1>4. /\ I \in [Module -> SUBSET ModuleImport] /\ X \in [Module -> Seq(ModuleExport)]
      /\ B \in [Module -> SUBSET Binding]
  BY <1>2, <1>3
<1>5. \A n \in Module :
        /\ I[n] = IF n = m THEN PrunedImports(q, m) ELSE q.imports[n]
        /\ X[n] = IF n = m THEN PrunedExports(q, m) ELSE q.exports[n]
        /\ B[n] = IF n = m THEN q.bindings[m] \ DeadImportBindings(q, m) ELSE q.bindings[n]
  BY <1>3
<1> HIDE DEF r, I, X, B
<1>6. /\ r \in JsProgramIr
      /\ r.modules = q.modules /\ r.entries = q.entries /\ r.dependencies = q.dependencies
      /\ r.imports = I /\ r.exports = X /\ r.bindings = B
      /\ r.loads = q.loads /\ r.writes = q.writes /\ r.directEval = q.directEval
      /\ r.guardedLoads = q.guardedLoads /\ r.guardedEval = q.guardedEval
      /\ r.dynamicImports = q.dynamicImports
  BY <1>1, <1>4 DEF JsProgramIr
<1> QED
  BY <1>5, <1>6, Zenon DEF IsInterfacePruned, r

\* Pruning the interface of the next module goes one module on.
LEMMA PruningGoesOn ==
  ASSUME NEW p \in JsProgramIr, NEW k \in Nat, NEW m \in Evaluated,
         Evaluated \subseteq Nat, m >= k, \A n \in Evaluated : n >= k => m <= n
  PROVE  InterfacePruned(PrunedUpTo(p, k), m) = PrunedUpTo(p, m + 1)
<1> DEFINE q == PrunedUpTo(p, k)
           r == InterfacePruned(q, m)
           s == PrunedUpTo(p, m + 1)
<1>1. m \in Module /\ m \in Nat
  BY DEF Evaluated
<1>2. ASSUME NEW n \in Module
      PROVE  (n \in Evaluated /\ n < m + 1) <=> (n = m \/ (n \in Evaluated /\ n < k))
  <2>1. CASE n \in Evaluated
    <3>1. n \in Nat /\ (n >= k => m <= n)
      BY <2>1
    <3> QED
      BY <1>1, <2>1, <3>1
  <2>2. CASE n \notin Evaluated
    BY <2>2
  <2> QED
    BY <2>1, <2>2
<1>3. IsPrunedUpTo(p, q, k) /\ IsPrunedUpTo(p, s, m + 1)
  BY PrunedParts
<1> HIDE DEF q, s
<1>4. IsInterfacePruned(q, r, m)
  BY <1>1, <1>3, InterfaceParts DEF IsPrunedUpTo
<1> HIDE DEF r
<1>5. ~(m < k)
  BY <1>1
<1>6. q \in JsProgramIr /\ s \in JsProgramIr /\ r \in JsProgramIr
  BY <1>3, <1>4 DEF IsPrunedUpTo, IsInterfacePruned
<1>7. q.imports[m] = p.imports[m] /\ q.exports[m] = p.exports[m] /\ q.bindings[m] = p.bindings[m]
  BY <1>1, <1>3, <1>5 DEF IsPrunedUpTo
<1>8. /\ PrunedImports(q, m) = PrunedImports(p, m)
      /\ PrunedExports(q, m) = PrunedExports(p, m)
      /\ DeadImportBindings(q, m) = DeadImportBindings(p, m)
  BY <1>7 DEF PrunedImports, PrunedExports, KeptExports, StayingExports, DeadImportBindings
<1>9. ASSUME NEW n \in Module
      PROVE  /\ r.imports[n] = s.imports[n] /\ r.exports[n] = s.exports[n]
             /\ r.bindings[n] = s.bindings[n] /\ r.loads[n] = s.loads[n]
             /\ r.writes[n] = s.writes[n] /\ r.dynamicImports[n] = s.dynamicImports[n]
             /\ r.guardedLoads[n] = s.guardedLoads[n]
  <2>1. /\ r.imports[n] = IF n = m THEN PrunedImports(q, m) ELSE q.imports[n]
        /\ r.exports[n] = IF n = m THEN PrunedExports(q, m) ELSE q.exports[n]
        /\ r.bindings[n] = IF n = m THEN q.bindings[m] \ DeadImportBindings(q, m) ELSE q.bindings[n]
        /\ r.loads[n] = q.loads[n] /\ r.writes[n] = q.writes[n]
        /\ r.guardedLoads[n] = q.guardedLoads[n]
        /\ r.dynamicImports[n] = q.dynamicImports[n]
    BY <1>4 DEF IsInterfacePruned
  <2>2. /\ q.imports[n] = IF n \in Evaluated /\ n < k THEN PrunedImports(p, n) ELSE p.imports[n]
        /\ q.exports[n] = IF n \in Evaluated /\ n < k THEN PrunedExports(p, n) ELSE p.exports[n]
        /\ q.bindings[n] = IF n \in Evaluated /\ n < k THEN p.bindings[n] \ DeadImportBindings(p, n)
                           ELSE p.bindings[n]
        /\ q.loads[n] = p.loads[n] /\ q.writes[n] = p.writes[n]
        /\ q.guardedLoads[n] = p.guardedLoads[n]
        /\ q.dynamicImports[n] = p.dynamicImports[n]
    BY <1>3 DEF IsPrunedUpTo
  <2>3. /\ s.imports[n] = IF n \in Evaluated /\ n < m + 1 THEN PrunedImports(p, n) ELSE p.imports[n]
        /\ s.exports[n] = IF n \in Evaluated /\ n < m + 1 THEN PrunedExports(p, n) ELSE p.exports[n]
        /\ s.bindings[n] = IF n \in Evaluated /\ n < m + 1
                           THEN p.bindings[n] \ DeadImportBindings(p, n) ELSE p.bindings[n]
        /\ s.loads[n] = p.loads[n] /\ s.writes[n] = p.writes[n]
        /\ s.guardedLoads[n] = p.guardedLoads[n]
        /\ s.dynamicImports[n] = p.dynamicImports[n]
    BY <1>3 DEF IsPrunedUpTo
  <2>4. (n \in Evaluated /\ n < m + 1) <=> (n = m \/ (n \in Evaluated /\ n < k))
    BY <1>2
  <2>5. CASE n = m
    BY <1>7, <1>8, <2>1, <2>2, <2>3, <2>4, <2>5
  <2>6. CASE n # m
    BY <2>1, <2>2, <2>3, <2>4, <2>6
  <2> QED
    BY <2>5, <2>6
<1>10. /\ r.modules = s.modules /\ r.entries = s.entries /\ r.dependencies = s.dependencies
       /\ r.directEval = s.directEval /\ r.guardedEval = s.guardedEval
  BY <1>3, <1>4 DEF IsPrunedUpTo, IsInterfacePruned
<1>11. r = s
  BY <1>6, <1>9, <1>10, SameParts, Zenon
<1> QED
  BY <1>11 DEF q, r, s

\* It keeps the program well formed, if the asserts of remove_bindings hold.
LEMMA InterfaceStaysWellFormed ==
  ASSUME NEW q \in JsProgramIr, WellFormed(q), NEW m \in q.modules,
         RemoveBindingsAllowed(PrunedInterface(q, m), m, DeadImportBindings(q, m))
  PROVE  WellFormed(InterfacePruned(q, m))
<1> DEFINE r == InterfacePruned(q, m)
           dead == DeadImportBindings(q, m)
           u == PrunedInterface(q, m)
<1>1. m \in Module /\ q.modules \subseteq Module
  BY ProgramParts
<1>2. /\ r \in JsProgramIr
      /\ r.modules = q.modules /\ r.entries = q.entries /\ r.dependencies = q.dependencies
      /\ \A n \in Module :
           /\ r.imports[n] = IF n = m THEN PrunedImports(q, m) ELSE q.imports[n]
           /\ r.exports[n] = IF n = m THEN PrunedExports(q, m) ELSE q.exports[n]
           /\ r.bindings[n] = IF n = m THEN q.bindings[m] \ dead ELSE q.bindings[n]
           /\ r.loads[n] = q.loads[n] /\ r.writes[n] = q.writes[n]
           /\ r.guardedLoads[n] = q.guardedLoads[n]
  <2>1. IsInterfacePruned(q, r, m)
    BY <1>1, InterfaceParts
  <2> HIDE DEF r
  <2> QED
    BY <2>1 DEF IsInterfacePruned
<1>3. u.imports[m] = PrunedImports(q, m) /\ u.exports[m] = PrunedExports(q, m)
      /\ u.loads[m] = q.loads[m] /\ u.writes[m] = q.writes[m]
      /\ u.guardedLoads[m] = q.guardedLoads[m]
  BY <1>1 DEF PrunedInterface, ReplaceInterface, JsProgramIr
<1> HIDE DEF r, u, dead
<1>4. /\ ReferencedBindings(u, m) \cap dead = {}
      /\ (ImportedBindings(u, m) \cup ExportedBindings(u, m)) \cap dead = {}
  BY DEF RemoveBindingsAllowed, u, dead
<1>5. /\ ImportedBindings(r, m) = ImportedBindings(u, m)
      /\ ExportedBindings(r, m) = ExportedBindings(u, m)
      /\ ReferencedBindings(r, m) = ReferencedBindings(u, m)
  BY <1>1, <1>2, <1>3 DEF ImportedBindings, ExportedBindings, ReferencedBindings
<1>6. ASSUME NEW i \in r.imports[m], BindsName(i) PROVE i \in q.imports[m]
  BY <1>1, <1>2, <1>6, PrunedImportsHold
<1>7. ExportedBindings(r, m) \subseteq ExportedBindings(q, m)
  <2> DEFINE K == KeptExports(q, m)
  <2>1. ASSUME NEW k \in DOMAIN PrunedExports(q, m), PrunedExports(q, m)[k].kind = "Local"
        PROVE  \E i \in DOMAIN q.exports[m] : q.exports[m][i] = PrunedExports(q, m)[k]
    <3>1. /\ k \in DOMAIN K /\ K[k] \in DOMAIN q.exports[m]
          /\ IF IsExportLive(m, K[k]) THEN PrunedExports(q, m)[k] = q.exports[m][K[k]]
             ELSE PrunedExports(q, m)[k].kind = "Empty"
      <4>1. IsPrunedList(m, q.exports[m], K, PrunedExports(q, m))
        BY <1>1, PrunedExportsHold
      <4> HIDE DEF K
      <4> QED
        BY <2>1, <4>1 DEF IsPrunedList
    <3> QED
      BY <2>1, <3>1
  <2>2. r.exports[m] = PrunedExports(q, m)
    BY <1>1, <1>2
  <2> QED
    BY <2>1, <2>2 DEF ExportedBindings, ToSet
<1>8. /\ ImportedBindings(q, m) \cup ExportedBindings(q, m) \subseteq q.bindings[m]
      /\ ReferencedBindings(q, m) \subseteq q.bindings[m]
      /\ \A i, j \in q.imports[m] :
           BindsName(i) /\ BindsName(j) /\ i.binding = j.binding => i = j
  BY DEF WellFormed
<1>9. /\ ImportedBindings(r, m) \subseteq ImportedBindings(q, m)
      /\ ReferencedBindings(r, m) = ReferencedBindings(q, m)
  BY <1>1, <1>2, <1>6 DEF ImportedBindings, ReferencedBindings
<1>10. /\ ImportedBindings(r, m) \cup ExportedBindings(r, m) \subseteq r.bindings[m]
       /\ ReferencedBindings(r, m) \subseteq r.bindings[m]
       /\ \A i, j \in r.imports[m] :
            BindsName(i) /\ BindsName(j) /\ i.binding = j.binding => i = j
  <2>1. r.bindings[m] = q.bindings[m] \ dead
    BY <1>1, <1>2
  <2>2. /\ ImportedBindings(r, m) \cap dead = {} /\ ExportedBindings(r, m) \cap dead = {}
        /\ ReferencedBindings(r, m) \cap dead = {}
    BY <1>4, <1>5
  <2> QED
    BY <1>6, <1>7, <1>8, <1>9, <2>1, <2>2
<1>11. ASSUME NEW n \in q.modules, n # m
       PROVE  /\ ImportedBindings(r, n) \cup ExportedBindings(r, n) \subseteq r.bindings[n]
              /\ ReferencedBindings(r, n) \subseteq r.bindings[n]
              /\ \A i, j \in r.imports[n] :
                   BindsName(i) /\ BindsName(j) /\ i.binding = j.binding => i = j
  <2>1. /\ r.imports[n] = q.imports[n] /\ r.exports[n] = q.exports[n]
        /\ r.bindings[n] = q.bindings[n] /\ r.loads[n] = q.loads[n] /\ r.writes[n] = q.writes[n]
        /\ r.guardedLoads[n] = q.guardedLoads[n]
    BY <1>1, <1>2, <1>11
  <2> QED
    BY <2>1 DEF WellFormed, ImportedBindings, ExportedBindings, ReferencedBindings
<1> QED
  BY <1>2, <1>10, <1>11 DEF WellFormed, r

\* The asserts fail for nothing but an import that is named only by uses that
\* reachability does not count, and that is not live.
LEMMA AssertsFailForUncounted ==
  ASSUME NEW p, AnswerKeeps(p), NEW q, NEW upTo, IsPrunedUpTo(p, q, upTo),
         WellFormed(q), NEW m \in Evaluated, q.exports[m] = p.exports[m],
         ~RemoveBindingsAllowed(PrunedInterface(q, m), m, DeadImportBindings(q, m))
  PROVE  \E b \in UncountedImports(q, m) : ~IsBindingLive(m, b)
<1> DEFINE dead == DeadImportBindings(q, m)
           u == PrunedInterface(q, m)
<1>1. /\ q \in JsProgramIr /\ q.modules = Evaluated
      /\ \A n \in Module : q.loads[n] = p.loads[n]
  BY DEF IsPrunedUpTo
<1>2. m \in Module /\ m \in q.modules
  BY <1>1 DEF Evaluated
<1>3. /\ u.imports[m] = PrunedImports(q, m) /\ u.exports[m] = PrunedExports(q, m)
      /\ u.loads[m] = q.loads[m] /\ u.writes[m] = q.writes[m] /\ u.bindings[m] = q.bindings[m]
      /\ u.guardedLoads[m] = q.guardedLoads[m]
  BY <1>1, <1>2 DEF PrunedInterface, ReplaceInterface, JsProgramIr
<1> HIDE DEF u
<1>4. dead \subseteq ImportedBindings(q, m) /\ \A b \in dead : ~IsBindingLive(m, b)
  BY DEF DeadImportBindings, DeadImport, ImportedBindings
<1>5. dead \subseteq u.bindings[m]
  BY <1>2, <1>3, <1>4 DEF WellFormed
<1>6. \A b \in p.loads[m] \cup LiveExportedBindings(p, m) : IsBindingLive(m, b)
  BY DEF AnswerKeeps, EvaluatedIsClosed, ReadBindings
<1>7. ImportedBindings(u, m) \cap dead = {}
  <2>1. ASSUME NEW i \in u.imports[m], BindsName(i) PROVE i.binding \notin dead
    <3>1. i \in q.imports[m] /\ ~DeadImport(m, i)
      BY <1>1, <1>2, <1>3, <2>1, PrunedImportsHold
    <3>2. IsBindingLive(m, i.binding)
      BY <2>1, <3>1 DEF DeadImport
    <3> QED
      BY <1>4, <3>2
  <2> QED
    BY <2>1 DEF ImportedBindings
<1>8. ExportedBindings(u, m) \cap dead = {}
  <2> DEFINE K == KeptExports(q, m)
  <2>1. ASSUME NEW k \in DOMAIN u.exports[m], u.exports[m][k].kind = "Local"
        PROVE  u.exports[m][k].binding \notin dead
    <3>1. /\ k \in DOMAIN K /\ K[k] \in DOMAIN q.exports[m]
          /\ IF IsExportLive(m, K[k]) THEN u.exports[m][k] = q.exports[m][K[k]]
             ELSE u.exports[m][k].kind = "Empty"
      <4>1. IsPrunedList(m, q.exports[m], K, u.exports[m])
        BY <1>1, <1>2, <1>3, PrunedExportsHold
      <4> HIDE DEF K, dead
      <4> DEFINE e == u.exports[m]
      <4>2. k \in DOMAIN e /\ IsPrunedList(m, q.exports[m], K, e)
        BY <2>1, <4>1
      <4> HIDE DEF e
      <4>3. /\ k \in DOMAIN K /\ K[k] \in DOMAIN q.exports[m]
            /\ IF IsExportLive(m, K[k]) THEN e[k] = q.exports[m][K[k]] ELSE e[k].kind = "Empty"
        BY <4>2 DEF IsPrunedList
      <4> QED
        BY <4>3 DEF e
    <3>2. /\ IsExportLive(m, K[k]) /\ K[k] \in DOMAIN p.exports[m]
          /\ p.exports[m][K[k]].kind = "Local"
          /\ u.exports[m][k].binding = p.exports[m][K[k]].binding
      BY <2>1, <3>1
    <3>3. u.exports[m][k].binding \in LiveExportedBindings(p, m)
      BY <3>2 DEF LiveExportedBindings
    <3> QED
      BY <1>4, <1>6, <3>3
  <2> QED
    BY <2>1 DEF ExportedBindings, ToSet
<1>9. PICK b \in dead : b \in ReferencedBindings(u, m)
  BY <1>5, <1>7, <1>8 DEF RemoveBindingsAllowed, u
<1>10. b \notin q.loads[m]
  BY <1>1, <1>2, <1>4, <1>6
<1>11. b \in UncountedImports(q, m)
  BY <1>3, <1>4, <1>9, <1>10 DEF ReferencedBindings, UncountedImports
<1> QED
  BY <1>4, <1>11

\* Past the last module, q is what pruning leaves of p.
LEMMA PruningEnds ==
  ASSUME NEW p, NEW q, WellFormed(q), NEW k, IsPrunedUpTo(p, q, k), \A m \in Evaluated : m < k
  PROVE  Leaves(p, q)
<1>1. Evaluated \subseteq Module
  BY DEF Evaluated
<1> QED
  BY <1>1 DEF IsPrunedUpTo, Leaves, LeavesExports

\* The modules left keep their requests, whether the interface of m is pruned.
LEMMA InterfaceKeepsRequests ==
  ASSUME NEW q \in JsProgramIr, NEW m \in Module, NEW r, IsInterfacePruned(q, r, m), NEW n \in Module
  PROVE  RequestsOf(r, n) = RequestsOf(q, n)
<1> DEFINE K == KeptExports(q, m)
           old(i) == q.exports[m][i]
           new(k) == PrunedExports(q, m)[k]
<1>1. CASE n # m
  <2>1. r.imports[n] = q.imports[n] /\ r.exports[n] = q.exports[n]
    BY <1>1 DEF IsInterfacePruned
  <2> QED
    BY <2>1 DEF RequestsOf
<1>2. CASE n = m
  <2>1. r.imports[m] = PrunedImports(q, m) /\ r.exports[m] = PrunedExports(q, m)
    BY DEF IsInterfacePruned
  <2>2. {<<"StaticImport", i.source>> : i \in PrunedImports(q, m)}
          = {<<"StaticImport", i.source>> : i \in q.imports[m]}
    <3> DEFINE kept(i) == IF DeadImport(m, i) THEN [kind |-> "Bare", source |-> i.source] ELSE i
    <3>1. \A i : kept(i).source = i.source
      OBVIOUS
    <3>2. PrunedImports(q, m) = {kept(i) : i \in q.imports[m]}
      BY DEF PrunedImports
    <3> HIDE DEF kept
    <3> QED
      BY <3>1, <3>2
  <2>3. /\ DOMAIN PrunedExports(q, m) = DOMAIN K
        /\ \A k \in DOMAIN K :
             /\ K[k] \in DOMAIN q.exports[m]
             /\ IF IsExportLive(m, K[k]) THEN new(k) = old(K[k])
                ELSE /\ HasSource(old(K[k]))
                     /\ new(k) = [kind |-> "Empty", source |-> old(K[k]).source]
        /\ \A i \in DOMAIN q.exports[m] :
             IsExportLive(m, i) \/ HasSource(old(i)) => \E k \in DOMAIN K : K[k] = i
    BY PrunedExportsHold DEF IsPrunedList
  <2> DEFINE Sources(s) == {<<"ReExport", e.source>> : e \in {x \in ToSet(s) : HasSource(x)}}
  <2>4. ASSUME NEW k \in DOMAIN K, HasSource(new(k))
        PROVE  HasSource(old(K[k])) /\ old(K[k]).source = new(k).source
    BY <2>3, <2>4
  <2>5. ASSUME NEW i \in DOMAIN q.exports[m], HasSource(old(i))
        PROVE  \E k \in DOMAIN K : HasSource(new(k)) /\ new(k).source = old(i).source
    <3>1. PICK k \in DOMAIN K : K[k] = i
      BY <2>3, <2>5
    <3>2. HasSource([kind |-> "Empty", source |-> old(i).source])
      BY DEF HasSource
    <3> QED
      BY <2>3, <2>5, <3>1, <3>2
  <2> HIDE DEF K
  <2>6. Sources(PrunedExports(q, m)) = Sources(q.exports[m])
    BY <2>3, <2>4, <2>5 DEF ToSet
  <2> QED
    BY <1>2, <2>1, <2>2, <2>6 DEF RequestsOf
<1> QED
  BY <1>1, <1>2

-----------------------------------------------------------------------------
(* The program an input describes                                          *)

\* The modules of an input and what they hold.
LEMMA InputTypes ==
  ASSUME input \in Inputs
  PROVE  /\ Len(input.modules) \in Nat
         /\ DOMAIN input.modules = 1..Len(input.modules)
         /\ \A m \in DOMAIN input.modules :
              /\ m \in Module /\ m \in Nat \ {0}
              /\ input.modules[m] \in ProgramModule
              /\ input.modules[m] \in ToSet(input.modules)
              /\ input.modules[m].key \in ModuleKey
              /\ input.modules[m].requests \subseteq ResolvedRequest
              /\ input.modules[m].ir \in ModuleIr /\ WellFormedIr(input.modules[m].ir)
         /\ input.entrypoints \in Seq(ModuleKey)
<1>1. /\ input \in ProgramInput
      /\ DOMAIN input.modules \subseteq Module
      /\ \A m \in DOMAIN input.modules : WellFormedIr(input.modules[m].ir)
  BY InputsLowerable
<1>2. input.modules \in Seq(ProgramModule) /\ input.entrypoints \in Seq(ModuleKey)
  BY <1>1 DEF ProgramInput
<1>3. /\ Len(input.modules) \in Nat /\ DOMAIN input.modules = 1..Len(input.modules)
      /\ \A m \in DOMAIN input.modules : m \in Nat \ {0} /\ input.modules[m] \in ProgramModule
  BY <1>2
<1>4. \A m \in DOMAIN input.modules : input.modules[m] \in ToSet(input.modules)
  BY DEF ToSet
<1>5. ASSUME NEW x \in ProgramModule
      PROVE  x.key \in ModuleKey /\ x.requests \subseteq ResolvedRequest /\ x.ir \in ModuleIr
  BY DEF ProgramModule
<1> QED
  BY <1>1, <1>2, <1>3, <1>4, <1>5

\* The keys of a valid input name its modules.
LEMMA KeysNameModules ==
  ASSUME input \in Inputs, InputIsValid
  PROVE  /\ \A i \in DOMAIN input.modules : IndexOfKey(KeyOf(i)) = i
         /\ \A key \in InputKeys : IndexOfKey(key) \in DOMAIN input.modules
         /\ \A i \in DOMAIN input.modules : KeyOf(i) \in InputKeys
<1>1. \A i \in DOMAIN input.modules : KeyOf(i) \in InputKeys
  BY InputTypes DEF InputKeys, KeyOf
<1>2. ASSUME NEW key \in InputKeys
      PROVE  IndexOfKey(key) \in DOMAIN input.modules /\ KeyOf(IndexOfKey(key)) = key
  <2>1. \E i \in DOMAIN input.modules : KeyOf(i) = key
    BY DEF InputKeys, KeyOf, ToSet
  <2> QED
    BY <2>1 DEF IndexOfKey
<1>3. ASSUME NEW i \in DOMAIN input.modules PROVE IndexOfKey(KeyOf(i)) = i
  BY <1>1, <1>2 DEF InputIsValid
<1> QED
  BY <1>1, <1>2, <1>3

\* Part by part, q is made of the modules of the input before k, with entries
\* and dependencies as they are given.
IsLowered(q, k, entries, dependencies) ==
  /\ q \in JsProgramIr
  /\ q.modules = 1..(k - 1) /\ q.entries = entries /\ q.dependencies = dependencies
  /\ \A m \in Module :
       /\ q.imports[m] = IF m \in 1..(k - 1) THEN input.modules[m].ir.imports ELSE {}
       /\ q.exports[m] = IF m \in 1..(k - 1) THEN input.modules[m].ir.exports ELSE <<>>
       /\ q.bindings[m] = IF m \in 1..(k - 1) THEN input.modules[m].ir.bindings ELSE {}
       /\ q.loads[m] = IF m \in 1..(k - 1) THEN input.modules[m].ir.loads ELSE {}
       /\ q.writes[m] = IF m \in 1..(k - 1) THEN input.modules[m].ir.writes ELSE {}
       /\ q.guardedLoads[m] = IF m \in 1..(k - 1) THEN input.modules[m].ir.guardedLoads ELSE {}
       /\ q.dynamicImports[m] = IF m \in 1..(k - 1) THEN input.modules[m].ir.dynamic ELSE {}
  /\ q.directEval = {m \in 1..(k - 1) : input.modules[m].ir.eval}
  /\ q.guardedEval = {m \in 1..(k - 1) : input.modules[m].ir.guardedEval}

\* The entries and the dependencies the input describes.
InputEntries == {IndexOfKey(k) : k \in ToSet(input.entrypoints)}

InputDependencies ==
  UNION {{[importer |-> i, request |-> r.request, source |-> r.source,
           target |-> IF r.target.kind = "Internal"
                      THEN [kind |-> "Internal", module |-> IndexOfKey(r.target.key)]
                      ELSE r.target] : r \in input.modules[i].requests} :
           i \in DOMAIN input.modules}

\* A valid input's entries and dependency edges are those of a program
\* with its modules.
LEMMA InputEdgesTypes ==
  ASSUME input \in Inputs, InputIsValid
  PROVE  /\ InputEntries \subseteq DOMAIN input.modules
         /\ InputDependencies \subseteq ModuleDependency
         /\ \A d \in InputDependencies :
              /\ d.importer \in DOMAIN input.modules
              /\ d.target.kind = "Internal" => d.target.module \in DOMAIN input.modules
<1>1. InputEntries \subseteq DOMAIN input.modules
  BY KeysNameModules DEF InputEntries, InputIsValid
<1>2. ASSUME NEW i \in DOMAIN input.modules, NEW r \in input.modules[i].requests, NEW d,
             d = [importer |-> i, request |-> r.request, source |-> r.source,
                  target |-> IF r.target.kind = "Internal"
                             THEN [kind |-> "Internal", module |-> IndexOfKey(r.target.key)]
                             ELSE r.target]
      PROVE  /\ d \in ModuleDependency
             /\ d.importer \in DOMAIN input.modules
             /\ d.target.kind = "Internal" => d.target.module \in DOMAIN input.modules
  <2>1. r \in ResolvedRequest /\ i \in Module /\ input.modules[i] \in ToSet(input.modules)
    BY InputTypes
  <2>2. /\ r.request \in RequestKind /\ r.source \in Source
        /\ r.target.kind # "Internal" => r.target \in [kind : {"Opaque", "External"}, key : Key]
    BY <2>1 DEF ResolvedRequest
  <2>3. ASSUME r.target.kind = "Internal"
        PROVE  IndexOfKey(r.target.key) \in DOMAIN input.modules /\ IndexOfKey(r.target.key) \in Module
    <3>1. r.target.key \in InputKeys
      BY <2>1, <2>3 DEF InputIsValid
    <3> QED
      BY <3>1, KeysNameModules, InputTypes
  <2>4. d.target \in ModuleTarget
    BY <1>2, <2>2, <2>3 DEF ModuleTarget
  <2> QED
    BY <1>2, <2>1, <2>2, <2>3, <2>4 DEF ModuleDependency
<1>3. ASSUME NEW d \in InputDependencies
      PROVE  /\ d \in ModuleDependency
             /\ d.importer \in DOMAIN input.modules
             /\ d.target.kind = "Internal" => d.target.module \in DOMAIN input.modules
  <2>1. PICK i \in DOMAIN input.modules, r \in UNION {input.modules[j].requests : j \in DOMAIN input.modules} :
          /\ r \in input.modules[i].requests
          /\ d = [importer |-> i, request |-> r.request, source |-> r.source,
                  target |-> IF r.target.kind = "Internal"
                             THEN [kind |-> "Internal", module |-> IndexOfKey(r.target.key)]
                             ELSE r.target]
    BY DEF InputDependencies
  <2> QED
    BY <1>2, <2>1
<1> QED
  BY <1>1, <1>3

\* The parts of the IR of a module of the input.
LEMMA IrTypes ==
  ASSUME NEW ir \in ModuleIr
  PROVE  /\ ir.imports \in SUBSET ModuleImport /\ ir.exports \in Seq(ModuleExport)
         /\ ir.bindings \in SUBSET Binding /\ ir.loads \in SUBSET Binding
         /\ ir.writes \in SUBSET Binding /\ ir.guardedLoads \in SUBSET Binding
         /\ ir.dynamic \in SUBSET DynamicImport
         /\ ir.eval \in BOOLEAN /\ ir.guardedEval \in BOOLEAN
  BY DEF ModuleIr

\* The program an input describes has all its modules, entries and dependencies.
LEMMA InputParts ==
  ASSUME input \in Inputs, InputIsValid
  PROVE  IsLowered(InputProgram, Len(input.modules) + 1, InputEntries, InputDependencies)
<1> DEFINE n == Len(input.modules)
           ir(m) == input.modules[m].ir
           I == [m \in Module |-> IF m \in DOMAIN input.modules THEN ir(m).imports ELSE {}]
           X == [m \in Module |-> IF m \in DOMAIN input.modules THEN ir(m).exports ELSE <<>>]
           B == [m \in Module |-> IF m \in DOMAIN input.modules THEN ir(m).bindings ELSE {}]
           L == [m \in Module |-> IF m \in DOMAIN input.modules THEN ir(m).loads ELSE {}]
           W == [m \in Module |-> IF m \in DOMAIN input.modules THEN ir(m).writes ELSE {}]
           G == [m \in Module |-> IF m \in DOMAIN input.modules THEN ir(m).guardedLoads ELSE {}]
           D == [m \in Module |-> IF m \in DOMAIN input.modules THEN ir(m).dynamic ELSE {}]
           V == {m \in DOMAIN input.modules : input.modules[m].ir.eval}
           U == {m \in DOMAIN input.modules : input.modules[m].ir.guardedEval}
<1>1. /\ n \in Nat /\ DOMAIN input.modules = 1..n /\ 1..((n + 1) - 1) = 1..n
      /\ \A m \in DOMAIN input.modules : m \in Module /\ ir(m) \in ModuleIr
  BY InputTypes
<1>2. InputProgram =
        [modules |-> DOMAIN input.modules, entries |-> InputEntries,
         dependencies |-> InputDependencies, imports |-> I, exports |-> X, bindings |-> B,
         loads |-> L, guardedLoads |-> G, writes |-> W,
         directEval |-> V, guardedEval |-> U, dynamicImports |-> D]
  BY DEF InputProgram, InputPart, InputEntries, InputDependencies
<1>3. /\ I \in [Module -> SUBSET ModuleImport] /\ X \in [Module -> Seq(ModuleExport)]
      /\ B \in [Module -> SUBSET Binding] /\ L \in [Module -> SUBSET Binding]
      /\ W \in [Module -> SUBSET Binding] /\ G \in [Module -> SUBSET Binding]
      /\ D \in [Module -> SUBSET DynamicImport]
  <2>1. \A m \in DOMAIN input.modules :
          /\ ir(m).imports \in SUBSET ModuleImport /\ ir(m).exports \in Seq(ModuleExport)
          /\ ir(m).bindings \in SUBSET Binding /\ ir(m).loads \in SUBSET Binding
          /\ ir(m).writes \in SUBSET Binding /\ ir(m).guardedLoads \in SUBSET Binding
          /\ ir(m).dynamic \in SUBSET DynamicImport
    BY <1>1, IrTypes
  <2>2. <<>> \in Seq(ModuleExport)
    OBVIOUS
  <2> HIDE DEF ir
  <2> QED
    BY <2>1, <2>2
<1>4. /\ DOMAIN input.modules \in SUBSET Module /\ V \in SUBSET Module /\ U \in SUBSET Module
      /\ InputEntries \in SUBSET Module /\ InputDependencies \in SUBSET ModuleDependency
  BY <1>1, InputEdgesTypes
<1>5. \A m \in Module :
        /\ I[m] = IF m \in 1..n THEN input.modules[m].ir.imports ELSE {}
        /\ X[m] = IF m \in 1..n THEN input.modules[m].ir.exports ELSE <<>>
        /\ B[m] = IF m \in 1..n THEN input.modules[m].ir.bindings ELSE {}
        /\ L[m] = IF m \in 1..n THEN input.modules[m].ir.loads ELSE {}
        /\ W[m] = IF m \in 1..n THEN input.modules[m].ir.writes ELSE {}
        /\ G[m] = IF m \in 1..n THEN input.modules[m].ir.guardedLoads ELSE {}
        /\ D[m] = IF m \in 1..n THEN input.modules[m].ir.dynamic ELSE {}
  BY <1>1
<1>6. /\ V = {m \in 1..n : input.modules[m].ir.eval}
      /\ U = {m \in 1..n : input.modules[m].ir.guardedEval}
  BY <1>1
<1> HIDE DEF I, X, B, L, W, G, D, V, U, n
<1>7. /\ InputProgram \in JsProgramIr
      /\ InputProgram.modules = 1..n /\ InputProgram.entries = InputEntries
      /\ InputProgram.dependencies = InputDependencies
      /\ InputProgram.imports = I /\ InputProgram.exports = X /\ InputProgram.bindings = B
      /\ InputProgram.loads = L /\ InputProgram.writes = W /\ InputProgram.guardedLoads = G
      /\ InputProgram.directEval = V /\ InputProgram.guardedEval = U
      /\ InputProgram.dynamicImports = D
  BY <1>1, <1>2, <1>3, <1>4 DEF JsProgramIr
<1> HIDE DEF ir
<1>8. IsLowered(InputProgram, n + 1, InputEntries, InputDependencies)
  BY <1>1, <1>5, <1>6, <1>7 DEF IsLowered
<1> QED
  BY <1>8 DEF n

\* Every stage of lowering has a well formed program: the modules that are
\* lowered have the interfaces of the input, and the others have none yet.
LEMMA LoweredWellFormed ==
  ASSUME input \in Inputs, NEW k \in 1..(Len(input.modules) + 1), NEW q, NEW E, NEW D,
         IsLowered(q, k, E, D), E \subseteq 1..(k - 1),
         \A d \in D : /\ d.importer \in 1..(k - 1)
                      /\ d.target.kind = "Internal" => d.target.module \in 1..(k - 1)
  PROVE  WellFormed(q)
<1>1. ASSUME NEW m \in q.modules
      PROVE  /\ ImportedBindings(q, m) \cup ExportedBindings(q, m) \subseteq q.bindings[m]
             /\ ReferencedBindings(q, m) \subseteq q.bindings[m]
             /\ \A i, j \in q.imports[m] :
                  BindsName(i) /\ BindsName(j) /\ i.binding = j.binding => i = j
  <2> DEFINE ir == input.modules[m].ir
  <2>1. m \in 1..(k - 1) /\ m \in DOMAIN input.modules /\ m \in Module
    BY <1>1, InputTypes DEF IsLowered
  <2>2. /\ q.imports[m] = ir.imports /\ q.exports[m] = ir.exports /\ q.bindings[m] = ir.bindings
        /\ q.loads[m] = ir.loads /\ q.writes[m] = ir.writes
        /\ q.guardedLoads[m] = ir.guardedLoads
    BY <2>1 DEF IsLowered
  <2>3. WellFormedIr(ir)
    BY <2>1, InputTypes
  <2> HIDE DEF ir
  <2> QED
    BY <2>2, <2>3 DEF WellFormedIr, ImportedBindings, ExportedBindings, ReferencedBindings
<1> QED
  BY <1>1 DEF WellFormed, IsLowered

\* The program an input describes is well formed.
LEMMA InputWellFormed ==
  ASSUME input \in Inputs, InputIsValid
  PROVE  /\ InputProgram \in JsProgramIr /\ WellFormed(InputProgram)
         /\ InputProgram.modules = DOMAIN input.modules
         /\ InputProgram.modules \subseteq Nat \ {0}
<1> DEFINE n == Len(input.modules)
<1>1. n \in Nat /\ DOMAIN input.modules = 1..n /\ n + 1 \in 1..(n + 1) /\ (n + 1) - 1 = n
  BY InputTypes
<1>2. IsLowered(InputProgram, n + 1, InputEntries, InputDependencies)
  BY InputParts
<1>3. WellFormed(InputProgram)
  BY <1>1, <1>2, InputEdgesTypes, LoweredWellFormed
<1> QED
  BY <1>1, <1>2, <1>3 DEF IsLowered

-----------------------------------------------------------------------------
(* The steps of lowering                                                   *)

\* Lowering starts with nothing.
LEMMA LoweringStarts == IsLowered(EmptyProgram, 1, {}, {})
<1>1. \A m : m \notin 1..(1 - 1)
  OBVIOUS
<1>2. EmptyProgram \in JsProgramIr
  BY DEF EmptyProgram, JsProgramIr
<1> QED
  BY <1>1, <1>2 DEF IsLowered, EmptyProgram

\* One more module.
LEMMA LoweringGoesOn ==
  ASSUME input \in Inputs, NEW k \in DOMAIN input.modules, NEW q, NEW E, NEW D, IsLowered(q, k, E, D)
  PROVE  IsLowered(AddModule(q, k, input.modules[k].ir), k + 1, E, D)
<1> DEFINE ir == input.modules[k].ir
           r == AddModule(q, k, ir)
           I == [q.imports EXCEPT ![k] = ir.imports]
           X == [q.exports EXCEPT ![k] = ir.exports]
           B == [q.bindings EXCEPT ![k] = ir.bindings]
           L == [q.loads EXCEPT ![k] = ir.loads]
           W == [q.writes EXCEPT ![k] = ir.writes]
           G == [q.guardedLoads EXCEPT ![k] = ir.guardedLoads]
           Y == [q.dynamicImports EXCEPT ![k] = ir.dynamic]
           V == IF ir.eval THEN q.directEval \cup {k} ELSE q.directEval
           U == IF ir.guardedEval THEN q.guardedEval \cup {k} ELSE q.guardedEval
<1>1. k \in Module /\ k \in Nat \ {0} /\ ir \in ModuleIr
  BY InputTypes
<1>2. /\ ir.imports \in SUBSET ModuleImport /\ ir.exports \in Seq(ModuleExport)
      /\ ir.bindings \in SUBSET Binding /\ ir.loads \in SUBSET Binding
      /\ ir.writes \in SUBSET Binding /\ ir.guardedLoads \in SUBSET Binding
      /\ ir.dynamic \in SUBSET DynamicImport
  BY <1>1, IrTypes
<1>3. /\ q \in JsProgramIr /\ q.modules = 1..(k - 1)
      /\ q.imports \in [Module -> SUBSET ModuleImport] /\ q.exports \in [Module -> Seq(ModuleExport)]
      /\ q.bindings \in [Module -> SUBSET Binding] /\ q.loads \in [Module -> SUBSET Binding]
      /\ q.writes \in [Module -> SUBSET Binding] /\ q.guardedLoads \in [Module -> SUBSET Binding]
      /\ q.dynamicImports \in [Module -> SUBSET DynamicImport]
      /\ q.directEval \in SUBSET Module /\ q.guardedEval \in SUBSET Module
  BY DEF IsLowered, JsProgramIr
<1>4. r = [q EXCEPT !.modules = q.modules \cup {k}, !.imports = I, !.exports = X, !.bindings = B,
                    !.loads = L, !.guardedLoads = G, !.writes = W,
                    !.directEval = V, !.guardedEval = U, !.dynamicImports = Y]
  BY <1>3 DEF AddModule, JsProgramIr
<1>5. /\ I \in [Module -> SUBSET ModuleImport] /\ X \in [Module -> Seq(ModuleExport)]
      /\ B \in [Module -> SUBSET Binding] /\ L \in [Module -> SUBSET Binding]
      /\ W \in [Module -> SUBSET Binding] /\ G \in [Module -> SUBSET Binding]
      /\ Y \in [Module -> SUBSET DynamicImport]
      /\ V \in SUBSET Module /\ U \in SUBSET Module /\ q.modules \cup {k} \in SUBSET Module
  <2> HIDE DEF ir
  <2>1. /\ q.modules \cup {k} \in SUBSET Module
        /\ V \in SUBSET Module /\ U \in SUBSET Module
    BY <1>1, <1>3 DEF JsProgramIr
  <2> QED
    BY <1>1, <1>2, <1>3, <2>1
<1>6. \A m \in Module :
        /\ I[m] = IF m = k THEN ir.imports ELSE q.imports[m]
        /\ X[m] = IF m = k THEN ir.exports ELSE q.exports[m]
        /\ B[m] = IF m = k THEN ir.bindings ELSE q.bindings[m]
        /\ L[m] = IF m = k THEN ir.loads ELSE q.loads[m]
        /\ W[m] = IF m = k THEN ir.writes ELSE q.writes[m]
        /\ G[m] = IF m = k THEN ir.guardedLoads ELSE q.guardedLoads[m]
        /\ Y[m] = IF m = k THEN ir.dynamic ELSE q.dynamicImports[m]
  <2> HIDE DEF ir
  <2> QED
    BY <1>3
<1>7. 1..((k + 1) - 1) = 1..(k - 1) \cup {k} /\ k \notin 1..(k - 1)
  BY <1>1
<1>8. /\ V = {m \in 1..((k + 1) - 1) : input.modules[m].ir.eval}
      /\ U = {m \in 1..((k + 1) - 1) : input.modules[m].ir.guardedEval}
  <2>1. /\ q.directEval = {m \in 1..(k - 1) : input.modules[m].ir.eval}
        /\ q.guardedEval = {m \in 1..(k - 1) : input.modules[m].ir.guardedEval}
    BY DEF IsLowered
  <2> QED
    BY <1>7, <2>1
<1> HIDE DEF I, X, B, L, W, G, Y, V, U, r
<1>9. /\ r \in JsProgramIr
      /\ r.modules = q.modules \cup {k} /\ r.entries = q.entries /\ r.dependencies = q.dependencies
      /\ r.imports = I /\ r.exports = X /\ r.bindings = B /\ r.loads = L /\ r.writes = W
      /\ r.guardedLoads = G /\ r.directEval = V /\ r.guardedEval = U /\ r.dynamicImports = Y
  BY <1>3, <1>4, <1>5 DEF JsProgramIr
<1>10. ASSUME NEW m \in Module
       PROVE  /\ I[m] = IF m \in 1..((k + 1) - 1) THEN input.modules[m].ir.imports ELSE {}
              /\ X[m] = IF m \in 1..((k + 1) - 1) THEN input.modules[m].ir.exports ELSE <<>>
              /\ B[m] = IF m \in 1..((k + 1) - 1) THEN input.modules[m].ir.bindings ELSE {}
              /\ L[m] = IF m \in 1..((k + 1) - 1) THEN input.modules[m].ir.loads ELSE {}
              /\ W[m] = IF m \in 1..((k + 1) - 1) THEN input.modules[m].ir.writes ELSE {}
              /\ G[m] = IF m \in 1..((k + 1) - 1) THEN input.modules[m].ir.guardedLoads ELSE {}
              /\ Y[m] = IF m \in 1..((k + 1) - 1) THEN input.modules[m].ir.dynamic ELSE {}
  <2>1. CASE m = k
    BY <1>6, <1>7, <2>1
  <2>2. CASE m # k
    <3>1. m \in 1..((k + 1) - 1) <=> m \in 1..(k - 1)
      BY <1>7, <2>2
    <3> QED
      BY <1>6, <2>2, <3>1 DEF IsLowered
  <2> QED
    BY <2>1, <2>2
<1>11. IsLowered(r, k + 1, E, D)
  BY <1>3, <1>7, <1>8, <1>9, <1>10 DEF IsLowered
<1> QED
  BY <1>11 DEF r

-----------------------------------------------------------------------------
(* What the driver leaves alone                                            *)

\* The input stays what it is, and so does the program it describes.
LEMMA InputStays ==
  ASSUME UNCHANGED input
  PROVE  InputProgram' = InputProgram /\ InputIsValid' = InputIsValid /\ FailsToParse' = FailsToParse
  BY DEF InputProgram, InputPart, InputIsValid, FailsToParse, IndexOfKey, InputKeys, KeyOf

\* So does the answer of the analysis.
LEMMA AnswerStays ==
  ASSUME UNCHANGED reachVars
  PROVE  /\ Evaluated' = Evaluated
         /\ CurrentAnswer' = CurrentAnswer
         /\ DemandedPairs' = DemandedPairs
         /\ \A p : /\ Demanded(p)' = Demanded(p)
                   /\ UnreachableModules(p)' = UnreachableModules(p)
         /\ \A p, m : /\ LiveExportedBindings(p, m)' = LiveExportedBindings(p, m)
                      /\ DeadImportBindings(p, m)' = DeadImportBindings(p, m)
                      /\ PrunedImports(p, m)' = PrunedImports(p, m)
                      /\ PrunedExports(p, m)' = PrunedExports(p, m)
<1> USE DEF reachVars
<1>1. Evaluated' = Evaluated
  BY DEF Evaluated
<1>2. CurrentAnswer' = CurrentAnswer
  BY DEF CurrentAnswer, NoAnswer
<1>3. DemandedPairs' = DemandedPairs
  BY DEF DemandedPairs
<1>4. ASSUME NEW p PROVE Demanded(p)' = Demanded(p) /\ UnreachableModules(p)' = UnreachableModules(p)
  BY <1>3 DEF Demanded, UnreachableModules, IsModuleEvaluated
<1>5. ASSUME NEW p, NEW m
      PROVE  /\ LiveExportedBindings(p, m)' = LiveExportedBindings(p, m)
             /\ DeadImportBindings(p, m)' = DeadImportBindings(p, m)
             /\ PrunedImports(p, m)' = PrunedImports(p, m)
             /\ PrunedExports(p, m)' = PrunedExports(p, m)
  BY DEF LiveExportedBindings, DeadImportBindings, DeadImport, PrunedImports, PrunedExports,
         KeptExports, StayingExports, IsBindingLive, IsExportLive
<1> QED
  BY <1>1, <1>2, <1>3, <1>4, <1>5

\* What the answer keeps it goes on keeping, and the program half pruned stays.
LEMMA KeepingStays ==
  ASSUME UNCHANGED reachVars, NEW p
  PROVE  /\ AnswerKeeps(p)' = AnswerKeeps(p)
         /\ \A q : Leaves(p, q)' = Leaves(p, q)
         /\ \A k : PrunedUpTo(p, k)' = PrunedUpTo(p, k)
<1>1. \A m, b : IsBindingLive(m, b)' = IsBindingLive(m, b)
  BY DEF reachVars, IsBindingLive
<1>2. \A m, i : IsExportLive(m, i)' = IsExportLive(m, i)
  BY DEF reachVars, IsExportLive
<1>3. EvaluatedIsClosed(p)' = EvaluatedIsClosed(p)
  BY <1>1, AnswerStays DEF EvaluatedIsClosed
<1>4. DemandedIsClosed(p)' = DemandedIsClosed(p)
  BY <1>2, AnswerStays DEF DemandedIsClosed
<1>5. /\ UsesAreDemanded(p)' = UsesAreDemanded(p)
      /\ AnswerIsLeast(p)' = AnswerIsLeast(p)
  <2>1. AnswerIsLeast(p)' = AnswerIsLeast(p)
    BY AnswerStays DEF AnswerIsLeast, reachVars
  <2> QED
    BY <1>1, <2>1, AnswerStays DEF UsesAreDemanded
<1>6. AnswerKeeps(p)' = AnswerKeeps(p)
  BY <1>3, <1>4, <1>5, AnswerStays DEF AnswerKeeps
<1>7. ASSUME NEW q PROVE Leaves(p, q)' = Leaves(p, q)
  BY AnswerStays DEF Leaves, LeavesExports
<1>8. ASSUME NEW k PROVE PrunedUpTo(p, k)' = PrunedUpTo(p, k)
  BY AnswerStays DEF PrunedUpTo
<1> QED
  BY <1>6, <1>7, <1>8

-----------------------------------------------------------------------------
(* The run of the driver                                                   *)

\* What holds of the program in every part of compile_program.
Validating ==
  /\ program = EmptyProgram /\ ReachabilityInit /\ cursor = 1

Lowering ==
  /\ InputIsValid /\ ReachabilityInit
  /\ cursor \in 1..(Len(input.modules) + 1)
  /\ IsLowered(program, cursor, {}, {})

Analyzing ==
  /\ InputIsValid
  /\ program = InputProgram
  /\ Inv /\ NothingWithoutNeed

PruningInterfaces ==
  /\ InputIsValid /\ AnswerKeeps(InputProgram)
  /\ program = PrunedUpTo(InputProgram, cursor)

FullyPruned ==
  /\ InputIsValid /\ AnswerKeeps(InputProgram)
  /\ Leaves(InputProgram, program)

\* A panic has a cause, and a success has a program.
EndedWell ==
  /\ outcome # Pending
  /\ PanicsOnUncountedImports
  /\ outcome = Success => FullyPruned

DriverInv ==
  /\ input \in Inputs
  /\ cursor \in Nat
  /\ ProgramStaysWellFormed
  /\ stage \in {"validate", "lower", "analyze", "interfaces", "compile", "done"}
  /\ stage # "done" => outcome = Pending
  /\ stage = "validate" => Validating
  /\ stage = "lower" => Lowering
  /\ stage = "analyze" => Analyzing
  /\ stage = "interfaces" => PruningInterfaces
  /\ stage = "compile" => FullyPruned
  /\ stage = "done" => EndedWell

\* Errors and panics are neither Pending nor Success.
LEMMA OutcomesDiffer ==
  /\ Panic # Pending /\ Panic # Success /\ Success # Pending
  /\ \A kind, m : Error(kind, m) # Pending /\ Error(kind, m) # Success /\ Error(kind, m) # Panic
<1>1. \A kind, m : DOMAIN Error(kind, m) = {"kind", "module"}
  BY DEF Error
<1>2. DOMAIN Pending = {"kind"} /\ DOMAIN Success = {"kind"} /\ DOMAIN Panic = {"kind"}
  BY DEF Pending, Success, Panic
<1>3. \A kind, m : Error(kind, m) # Pending /\ Error(kind, m) # Success /\ Error(kind, m) # Panic
  BY <1>1, <1>2
<1>4. Pending.kind = "Pending" /\ Success.kind = "Success" /\ Panic.kind = "Panic"
  BY DEF Pending, Success, Panic
<1> QED
  BY <1>3, <1>4

\* Validation lets valid inputs pass, and rejects others with an error.
LEMMA ValidationHolds ==
  ASSUME input \in Inputs
  PROVE  /\ Validation = Pending <=> InputIsValid
         /\ Validation # Pending =>
              \E m : Validation \in {Error("DuplicateProgramModule", m),
                                     Error("UnknownProgramEntrypoint", m),
                                     Error("UnknownInternalModule", m)}
<1>1. DuplicateModules = {} <=> \A i, j \in DOMAIN input.modules : KeyOf(i) = KeyOf(j) => i = j
  <2>1. DuplicateModules = {} <=>
          \A i \in DOMAIN input.modules : \A j \in 1..(i - 1) : KeyOf(i) # KeyOf(j)
    BY DEF DuplicateModules
  <2>2. \A i \in DOMAIN input.modules : i \in Nat \ {0}
    BY InputTypes
  <2>3. \A i \in DOMAIN input.modules : \A j \in 1..(i - 1) : j \in DOMAIN input.modules /\ j # i
    BY InputTypes
  <2>4. \A i, j \in DOMAIN input.modules : i # j => i \in 1..(j - 1) \/ j \in 1..(i - 1)
    BY <2>2
  <2> QED
    BY <2>1, <2>3, <2>4
<1>2. UnknownEntrypoints = {} <=> ToSet(input.entrypoints) \subseteq InputKeys
  BY DEF UnknownEntrypoints, ToSet
<1>3. UnknownTargets = {} <=>
        \A m \in ToSet(input.modules) : \A r \in m.requests :
          r.target.kind = "Internal" => r.target.key \in InputKeys
  BY DEF UnknownTargets, ToSet
<1>4. CASE DuplicateModules # {}
  <2>1. Validation = Error("DuplicateProgramModule", KeyOf(FirstOf(DuplicateModules)))
    BY <1>4 DEF Validation
  <2> QED
    BY <1>1, <1>4, <2>1, OutcomesDiffer DEF InputIsValid
<1>5. CASE DuplicateModules = {} /\ UnknownEntrypoints # {}
  <2>1. Validation = Error("UnknownProgramEntrypoint", input.entrypoints[FirstOf(UnknownEntrypoints)])
    BY <1>5 DEF Validation
  <2> QED
    BY <1>2, <1>5, <2>1, OutcomesDiffer DEF InputIsValid
<1>6. CASE DuplicateModules \cup UnknownEntrypoints = {} /\ UnknownTargets # {}
  <2>1. Validation = Error("UnknownInternalModule", KeyOf(FirstOf(UnknownTargets)))
    BY <1>6 DEF Validation
  <2> QED
    BY <1>3, <1>6, <2>1, OutcomesDiffer DEF InputIsValid
<1>7. CASE DuplicateModules = {} /\ UnknownEntrypoints = {} /\ UnknownTargets = {}
  <2>1. Validation = Pending
    BY <1>7 DEF Validation
  <2> QED
    BY <1>1, <1>2, <1>3, <1>7, <2>1 DEF InputIsValid
<1> QED
  BY <1>4, <1>5, <1>6, <1>7

\* Linking the lowered modules makes the program the input describes.
LEMMA LinkingCompletes ==
  ASSUME input \in Inputs, Lowering, cursor \notin DOMAIN input.modules
  PROVE  [program EXCEPT
            !.dependencies = UNION {DependenciesOf(i) : i \in DOMAIN input.modules},
            !.entries = {ModuleByKey(k) : k \in ToSet(input.entrypoints)}] = InputProgram
<1> DEFINE n == Len(input.modules)
           D == UNION {DependenciesOf(i) : i \in DOMAIN input.modules}
           E == {ModuleByKey(k) : k \in ToSet(input.entrypoints)}
           q == [program EXCEPT !.dependencies = D, !.entries = E]
<1>1. n \in Nat /\ DOMAIN input.modules = 1..n /\ cursor = n + 1 /\ 1..(cursor - 1) = 1..n
  BY InputTypes DEF Lowering
<1>2. IsLowered(program, n + 1, {}, {}) /\ program.modules = DOMAIN input.modules
  BY <1>1 DEF Lowering, IsLowered
<1>3. \A key : ModuleByKey(key) = IndexOfKey(key)
  BY <1>2, Zenon DEF ModuleByKey, IndexOfKey
<1>4. E = InputEntries
  BY <1>3 DEF InputEntries
<1>5. D = InputDependencies
  <2>1. \A i \in DOMAIN input.modules : ModuleByKey(KeyOf(i)) = i
    BY <1>3, KeysNameModules DEF Lowering
  <2>2. \A t : ResolvedTarget(t) = IF t.kind = "Internal"
                                   THEN [kind |-> "Internal", module |-> IndexOfKey(t.key)] ELSE t
    BY <1>3 DEF ResolvedTarget
  <2>3. ASSUME NEW i \in DOMAIN input.modules
        PROVE  DependenciesOf(i) =
                 {[importer |-> i, request |-> r.request, source |-> r.source,
                   target |-> IF r.target.kind = "Internal"
                              THEN [kind |-> "Internal", module |-> IndexOfKey(r.target.key)]
                              ELSE r.target] : r \in input.modules[i].requests}
    BY <2>1, <2>2 DEF DependenciesOf
  <2> QED
    BY <2>3 DEF InputDependencies
<1>6. /\ program \in JsProgramIr /\ InputEntries \in SUBSET Module
      /\ InputDependencies \in SUBSET ModuleDependency
  BY <1>2, InputTypes, InputEdgesTypes DEF IsLowered, Lowering
<1>7. q = [program EXCEPT !.dependencies = InputDependencies, !.entries = InputEntries]
  BY <1>4, <1>5
<1>8. IsLowered(InputProgram, n + 1, InputEntries, InputDependencies)
  BY InputParts DEF Lowering
<1> HIDE DEF q, n
<1>9. /\ q \in JsProgramIr /\ q.modules = program.modules /\ q.entries = InputEntries
      /\ q.dependencies = InputDependencies /\ q.imports = program.imports
      /\ q.exports = program.exports /\ q.bindings = program.bindings /\ q.loads = program.loads
      /\ q.writes = program.writes /\ q.guardedLoads = program.guardedLoads
      /\ q.directEval = program.directEval /\ q.guardedEval = program.guardedEval
      /\ q.dynamicImports = program.dynamicImports
  BY <1>6, <1>7 DEF JsProgramIr
<1>10. /\ q.modules = InputProgram.modules /\ q.entries = InputProgram.entries
       /\ q.dependencies = InputProgram.dependencies /\ q.directEval = InputProgram.directEval
       /\ q.guardedEval = InputProgram.guardedEval
  BY <1>2, <1>8, <1>9 DEF IsLowered
<1>11. ASSUME NEW m \in Module
       PROVE  /\ q.imports[m] = InputProgram.imports[m] /\ q.exports[m] = InputProgram.exports[m]
              /\ q.bindings[m] = InputProgram.bindings[m] /\ q.loads[m] = InputProgram.loads[m]
              /\ q.writes[m] = InputProgram.writes[m]
              /\ q.guardedLoads[m] = InputProgram.guardedLoads[m]
              /\ q.dynamicImports[m] = InputProgram.dynamicImports[m]
  BY <1>2, <1>8, <1>9 DEF IsLowered
<1>12. InputProgram \in JsProgramIr
  BY <1>8 DEF IsLowered
<1>13. q = InputProgram
  BY <1>9, <1>10, <1>11, <1>12, SameParts, Zenon
<1> QED
  BY <1>13 DEF q

\* The analysis starts with its invariants, on any program that is well formed.
LEMMA AnalysisStarts ==
  ReachabilityInit /\ program \in JsProgramIr /\ WellFormed(program) => Inv /\ NothingWithoutNeed
<1> SUFFICES ASSUME ReachabilityInit, program \in JsProgramIr, WellFormed(program)
             PROVE  Inv /\ NothingWithoutNeed
  OBVIOUS
<1>1. TypeOK
  BY EmptySeq, EmptyHolds DEF ReachabilityInit, TypeOK
<1>2. Accounting
  BY DEF ReachabilityInit, Accounting, FactsAccountedFor, DemandsAccountedFor
<1>3. NothingWithoutNeed
  BY EmptyHolds DEF ReachabilityInit, NothingWithoutNeed, WithinReason
<1> QED
  BY <1>1, <1>2, <1>3 DEF Inv

\* It keeps them, and leaves the program alone.
LEMMA AnalysisGoesOn ==
  ASSUME Inv, NothingWithoutNeed, Analyze
  PROVE  Inv' /\ NothingWithoutNeed' /\ UNCHANGED program
<1>1. [Next]_vars
  BY DEF Next
<1>2. Inv' /\ NothingWithoutNeed'
  BY <1>1, TypesNext, AccountingNext, NeedNext DEF Inv
<1>3. UNCHANGED program
  BY DEF Analyze, SeedEntries, RetainUnresolvedEntry, RetainAll, SkipSettled, SettleFact,
         RetainUnresolvedFact, StartExports, MeetDemand, RequireBindings, Finish
<1> QED
  BY <1>2, <1>3

\* The run starts with the driver's invariant.
LEMMA DriverInit == CompileInit => DriverInv
<1>1. EmptyProgram \in JsProgramIr /\ WellFormed(EmptyProgram)
  BY DEF EmptyProgram, JsProgramIr, WellFormed
<1> QED
  BY <1>1 DEF CompileInit, DriverInv, Validating, ProgramStaysWellFormed

\* A run that fails keeps it: the program stays as it is.
LEMMA FailingEndsWell ==
  ASSUME DriverInv, NEW result, Fail(result), result # Pending, result # Success, result # Panic
  PROVE  DriverInv'
<1>1. EndedWell'
  BY DEF Fail, EndedWell, PanicsOnUncountedImports
<1> QED
  BY <1>1 DEF DriverInv, Fail, ProgramStaysWellFormed

\* Steps up to the analysis.
LEMMA FrontEndSteps ==
  ASSUME DriverInv, RejectInput \/ AcceptInput \/ LowerModule \/ RejectModule \/ LinkDependencies
  PROVE  DriverInv'
<1>1. input \in Inputs
  BY DEF DriverInv
<1>2. CASE RejectInput
  <2>1. PICK kind, m : Validation = Error(kind, m)
    BY <1>1, <1>2, ValidationHolds DEF RejectInput
  <2> QED
    BY <1>2, <2>1, OutcomesDiffer, FailingEndsWell DEF RejectInput
<1>3. CASE AcceptInput
  <2>1. Validating /\ InputIsValid
    BY <1>1, <1>3, ValidationHolds DEF DriverInv, AcceptInput
  <2>2. 1 \in 1..(Len(input.modules) + 1)
    BY <1>1, InputTypes
  <2>3. Lowering
    BY <2>1, <2>2, LoweringStarts DEF Validating, Lowering
  <2>4. Lowering'
    <3>1. cursor' = cursor
      BY <1>3, <2>1 DEF AcceptInput, GoTo, Validating
    <3>2. UNCHANGED <<program, reachVars, input>>
      BY <1>3 DEF AcceptInput
    <3>3. InputIsValid'
      BY <2>1, <3>2, InputStays
    <3> QED
      BY <2>3, <3>1, <3>2, <3>3 DEF Lowering, ReachabilityInit, reachVars, IsLowered
  <2> QED
    BY <1>3, <2>4 DEF DriverInv, AcceptInput, GoTo, ProgramStaysWellFormed
<1>4. CASE LowerModule
  <2>1. Lowering /\ cursor \in DOMAIN input.modules /\ cursor \in Nat
    BY <1>4 DEF DriverInv, LowerModule
  <2> DEFINE q == AddModule(program, cursor, input.modules[cursor].ir)
  <2>2. IsLowered(q, cursor + 1, {}, {})
    BY <1>1, <2>1, LoweringGoesOn DEF Lowering
  <2>3. cursor + 1 \in 1..(Len(input.modules) + 1)
    BY <1>1, <2>1, InputTypes
  <2>4. q \in JsProgramIr /\ WellFormed(q)
    BY <1>1, <2>2, <2>3, LoweredWellFormed DEF IsLowered
  <2> HIDE DEF q
  <2>5. program' = q /\ cursor' = cursor + 1 /\ UNCHANGED <<reachVars, input, stage, outcome>>
    BY <1>4 DEF LowerModule, q
  <2>6. Lowering'
    <3>1. InputIsValid' /\ ReachabilityInit'
      BY <2>1, <2>5, InputStays DEF Lowering, ReachabilityInit, reachVars
    <3> QED
      BY <2>2, <2>3, <2>5, <3>1 DEF Lowering, IsLowered
  <2> QED
    BY <1>4, <2>1, <2>4, <2>5, <2>6 DEF DriverInv, LowerModule, ProgramStaysWellFormed
<1>5. CASE RejectModule
  BY <1>5, OutcomesDiffer, FailingEndsWell DEF RejectModule
<1>6. CASE LinkDependencies
  <2>1. Lowering /\ cursor \notin DOMAIN input.modules
    BY <1>6 DEF DriverInv, LinkDependencies
  <2>2. program' = InputProgram
    BY <1>1, <1>6, <2>1, LinkingCompletes DEF LinkDependencies
  <2>3. UNCHANGED <<reachVars, input>>
    BY <1>6 DEF LinkDependencies
  <2>4. InputIsValid' /\ program' = InputProgram'
    BY <2>1, <2>2, <2>3, InputStays DEF Lowering
  <2>5. (program \in JsProgramIr /\ WellFormed(program))'
    BY <1>1, <2>1, <2>2, InputWellFormed DEF Lowering
  <2>6. ReachabilityInit'
    BY <2>1, <2>3 DEF Lowering, ReachabilityInit, reachVars
  <2>7. (ReachabilityInit /\ program \in JsProgramIr /\ WellFormed(program) => Inv /\ NothingWithoutNeed)'
    BY AnalysisStarts, PTL
  <2>8. Analyzing'
    BY <2>4, <2>5, <2>6, <2>7 DEF Analyzing
  <2> QED
    BY <1>6, <2>5, <2>8 DEF DriverInv, LinkDependencies, GoTo, ProgramStaysWellFormed
<1> QED
  BY <1>2, <1>3, <1>4, <1>5, <1>6

\* Steps of the analysis.
LEMMA AnalysisSteps ==
  ASSUME DriverInv, AnalyzeProgram
  PROVE  DriverInv'
<1>1. Analyzing /\ Analyze /\ UNCHANGED driverVars
  BY DEF DriverInv, AnalyzeProgram
<1>2. Inv' /\ NothingWithoutNeed' /\ UNCHANGED program
  BY <1>1, AnalysisGoesOn DEF Analyzing
<1>3. InputProgram' = InputProgram /\ InputIsValid' = InputIsValid
  BY <1>1, InputStays DEF driverVars
<1>4. Analyzing'
  BY <1>1, <1>2, <1>3 DEF Analyzing
<1> QED
  BY <1>1, <1>2, <1>4 DEF DriverInv, AnalyzeProgram, driverVars, ProgramStaysWellFormed

-----------------------------------------------------------------------------
(* The steps of the driver                                                 *)

\* A set of numbers has a least one.
LEMMA LeastExists ==
  ASSUME NEW S, S \subseteq Nat, S # {}
  PROVE  \E m \in S : \A n \in S : m <= n
<1>1. PICK m \in S : \A k \in S : ~(<<k, m>> \in OpToRel(<, Nat))
  BY NatLessThanWellFounded, WFMin
<1>2. ASSUME NEW k \in S PROVE m <= k
  <2>1. ~(k < m)
    BY <1>1 DEF OpToRel
  <2> QED
    BY <2>1
<1> QED
  BY <1>2

\* Removing the unreachable modules starts the pruning.
LEMMA ModulePruningSteps ==
  ASSUME DriverInv, PruneModules
  PROVE  DriverInv'
<1>1. /\ Analyzing /\ phase = "done" /\ input \in Inputs
  BY DEF DriverInv, PruneModules
<1>2. /\ AnswerKeeps(program) /\ program = InputProgram /\ InputIsValid
  BY <1>1, AnswerIsKept DEF Analyzing
<1>3. program.modules \subseteq Nat \ {0}
  BY <1>1, <1>2, InputWellFormed
<1>4. /\ RemoveModulesAllowed(program, UnreachableModules(program))
      /\ RemoveModules(program, UnreachableModules(program)) = PrunedUpTo(program, 1)
      /\ WellFormed(PrunedUpTo(program, 1))
  BY <1>2, <1>3, PruningStarts
<1>5. /\ program' = PrunedUpTo(program, 1) /\ stage' = "interfaces" /\ cursor' = 1
      /\ UNCHANGED <<reachVars, input, output, outcome>>
  BY <1>4 DEF PruneModules, GoTo
<1>6. PrunedUpTo(program, 1) \in JsProgramIr
  BY <1>2, PrunedParts DEF AnswerKeeps, IsPrunedUpTo
<1>7. InputProgram' = InputProgram /\ InputIsValid'
  BY <1>2, <1>5, InputStays
<1>8. PruningInterfaces'
  BY <1>2, <1>5, <1>7, KeepingStays DEF PruningInterfaces
<1> QED
  BY <1>1, <1>4, <1>5, <1>6, <1>8 DEF DriverInv, PruneModules, ProgramStaysWellFormed

\* Pruning the interface of the next module goes on with it, or panics.
LEMMA InterfacePruningSteps ==
  ASSUME DriverInv, PruneInterface
  PROVE  DriverInv'
<1>1. /\ PruningInterfaces /\ cursor \in Nat /\ input \in Inputs /\ ProgramStaysWellFormed
      /\ stage = "interfaces" /\ outcome = Pending
  BY DEF DriverInv, PruneInterface
<1> PICK p : p = InputProgram
  OBVIOUS
<1>2. /\ AnswerKeeps(p) /\ program = PrunedUpTo(p, cursor) /\ InputIsValid
  BY <1>1 DEF PruningInterfaces
<1>3. p \in JsProgramIr /\ Evaluated \subseteq Nat
  <2>1. p \in JsProgramIr /\ p.modules \subseteq Nat \ {0} /\ Evaluated \subseteq p.modules
    BY <1>1, <1>2, InputWellFormed DEF AnswerKeeps, EvaluatedIsClosed
  <2> QED
    BY <2>1
<1>4. IsPrunedUpTo(p, program, cursor)
  BY <1>2, <1>3, PrunedParts
<1>5. program.modules = Evaluated /\ program \in JsProgramIr /\ WellFormed(program)
  BY <1>1, <1>4 DEF IsPrunedUpTo, ProgramStaysWellFormed
<1>6. PICK m \in NextModule :
        IF RemoveBindingsAllowed(PrunedInterface(program, m), m, DeadImportBindings(program, m))
        THEN /\ program' = InterfacePruned(program, m)
             /\ cursor' = m + 1
             /\ UNCHANGED <<reachVars, input, stage, output, outcome>>
        ELSE Fail(Panic)
  BY DEF PruneInterface, InterfacePruned
<1>7. m \in Evaluated /\ m >= cursor /\ \A n \in Evaluated : n >= cursor => m <= n
  BY <1>5 DEF NextModule
<1>8. m \in Nat /\ m \in Module
  BY <1>3, <1>7 DEF Evaluated
<1>9. CASE RemoveBindingsAllowed(PrunedInterface(program, m), m, DeadImportBindings(program, m))
  <2>1. /\ program' = InterfacePruned(program, m) /\ cursor' = m + 1
        /\ UNCHANGED <<reachVars, input, stage, output, outcome>>
    BY <1>6, <1>9
  <2>2. InterfacePruned(program, m) = PrunedUpTo(p, m + 1)
    BY <1>1, <1>2, <1>3, <1>7, PruningGoesOn
  <2>3. WellFormed(InterfacePruned(program, m))
    BY <1>5, <1>7, <1>9, InterfaceStaysWellFormed
  <2>4. InterfacePruned(program, m) \in JsProgramIr
    BY <1>3, <2>2, PrunedParts DEF IsPrunedUpTo
  <2>5. InputProgram' = p /\ InputIsValid'
    BY <1>2, <2>1, InputStays
  <2>6. PruningInterfaces'
    <3>1. AnswerKeeps(p)' = AnswerKeeps(p) /\ \A k : PrunedUpTo(p, k)' = PrunedUpTo(p, k)
      BY <2>1, KeepingStays
    <3> QED
      BY <1>2, <2>1, <2>2, <2>5, <3>1 DEF PruningInterfaces
  <2> QED
    BY <1>1, <1>8, <2>1, <2>3, <2>4, <2>6 DEF DriverInv, ProgramStaysWellFormed
<1>10. CASE ~RemoveBindingsAllowed(PrunedInterface(program, m), m, DeadImportBindings(program, m))
  <2>1. Fail(Panic)
    BY <1>6, <1>10
  <2>2. program.exports[m] = p.exports[m]
    <3>1. ~(m < cursor)
      BY <1>1, <1>7, <1>8
    <3> QED
      BY <1>4, <1>8, <3>1 DEF IsPrunedUpTo
  <2>3. PICK b \in UncountedImports(program, m) : ~IsBindingLive(m, b)
    BY <1>2, <1>4, <1>5, <1>7, <1>10, <2>2, AssertsFailForUncounted
  <2>4. IsModuleEvaluated(m) /\ m \in program.modules
    BY <1>5, <1>7 DEF Evaluated, IsModuleEvaluated
  <2>5. UNCHANGED <<program, reachVars, input, cursor>> /\ outcome' = Panic /\ stage' = "done"
    BY <2>1 DEF Fail
  <2>6. PanicsOnUncountedImports'
    BY <2>3, <2>4, <2>5 DEF PanicsOnUncountedImports, UncountedImports, IsModuleEvaluated,
                            IsBindingLive, reachVars, ImportedBindings
  <2>7. EndedWell'
    BY <2>5, <2>6, OutcomesDiffer DEF EndedWell, Panic, Pending, Success
  <2> QED
    BY <1>1, <2>5, <2>7 DEF DriverInv, ProgramStaysWellFormed
<1> QED
  BY <1>9, <1>10

\* A step that leaves program and analysis alone leaves what was pruned.
LEMMA PrunedStays ==
  ASSUME FullyPruned, UNCHANGED <<program, reachVars, input>>
  PROVE  FullyPruned'
<1>1. InputProgram' = InputProgram /\ InputIsValid' = InputIsValid
  BY InputStays
<1> PICK p : p = InputProgram
  OBVIOUS
<1>2. AnswerKeeps(p)' = AnswerKeeps(p) /\ \A q : Leaves(p, q)' = Leaves(p, q)
  BY KeepingStays
<1>3. AnswerKeeps(p) /\ Leaves(p, program) /\ InputIsValid
  BY DEF FullyPruned
<1> QED
  BY <1>1, <1>2, <1>3 DEF FullyPruned

\* After the last module the program is pruned.
LEMMA PruningFinishes ==
  ASSUME DriverInv, FinishPruning
  PROVE  DriverInv'
<1>1. /\ PruningInterfaces /\ cursor \in Nat /\ input \in Inputs /\ ProgramStaysWellFormed
      /\ stage = "interfaces" /\ outcome = Pending
  BY DEF DriverInv, FinishPruning
<1> PICK p : p = InputProgram
  OBVIOUS
<1>2. /\ AnswerKeeps(p) /\ program = PrunedUpTo(p, cursor) /\ InputIsValid
  BY <1>1 DEF PruningInterfaces
<1>3. p \in JsProgramIr /\ Evaluated \subseteq Nat /\ WellFormed(program)
  <2>1. p \in JsProgramIr /\ p.modules \subseteq Nat \ {0} /\ Evaluated \subseteq p.modules
    BY <1>1, <1>2, InputWellFormed DEF AnswerKeeps, EvaluatedIsClosed
  <2> QED
    BY <1>1, <2>1 DEF ProgramStaysWellFormed
<1>4. IsPrunedUpTo(p, program, cursor)
  BY <1>2, <1>3, PrunedParts
<1>5. \A m \in Evaluated : m < cursor
  <2> SUFFICES ASSUME NEW m0 \in Evaluated, ~(m0 < cursor) PROVE FALSE
    OBVIOUS
  <2> DEFINE S == {m \in Evaluated : m >= cursor}
  <2>1. S \subseteq Nat /\ S # {}
    <3>1. m0 \in Nat /\ m0 >= cursor
      BY <1>1, <1>3
    <3> QED
      BY <1>3, <3>1
  <2>2. PICK m \in S : \A n \in S : m <= n
    BY <2>1, LeastExists
  <2>3. m \in NextModule
    BY <1>4, <2>2 DEF NextModule, IsPrunedUpTo
  <2> QED
    BY <2>3 DEF FinishPruning
<1>6. Leaves(p, program)
  BY <1>3, <1>4, <1>5, PruningEnds
<1>7. FullyPruned
  BY <1>2, <1>6 DEF FullyPruned
<1>8. FullyPruned'
  BY <1>7, PrunedStays DEF FinishPruning
<1> QED
  BY <1>1, <1>8 DEF DriverInv, FinishPruning, GoTo, ProgramStaysWellFormed

\* Generating code leaves the program alone.
LEMMA GeneratingSteps ==
  ASSUME DriverInv, GenerateModule \/ FailModule \/ Deliver
  PROVE  DriverInv'
<1>1. /\ FullyPruned /\ cursor \in Nat /\ input \in Inputs /\ ProgramStaysWellFormed
      /\ stage = "compile" /\ outcome = Pending
  BY DEF DriverInv, GenerateModule, FailModule, Deliver
<1>2. CASE GenerateModule
  <2>1. PICK m \in NextModule : cursor' = m + 1
    BY <1>2 DEF GenerateModule
  <2>2. UNCHANGED <<program, reachVars, input, stage, outcome>>
    BY <1>2 DEF GenerateModule
  <2>3. FullyPruned'
    BY <1>1, <2>2, PrunedStays
  <2>4. m \in Nat
    <3>1. /\ Leaves(InputProgram, program) /\ InputProgram.modules \subseteq Nat \ {0}
          /\ Evaluated \subseteq InputProgram.modules
      BY <1>1, InputWellFormed DEF FullyPruned, AnswerKeeps, EvaluatedIsClosed
    <3>2. m \in program.modules /\ program.modules = Evaluated
      BY <3>1 DEF NextModule, Leaves, LeavesExports
    <3> QED
      BY <3>1, <3>2
  <2> QED
    BY <1>1, <2>1, <2>2, <2>3, <2>4 DEF DriverInv, ProgramStaysWellFormed
<1>3. CASE FailModule
  <2>1. PICK m : Fail(Error("ProgramModule", KeyOf(m)))
    BY <1>3 DEF FailModule
  <2> QED
    BY <2>1, OutcomesDiffer, FailingEndsWell
<1>4. CASE Deliver
  <2>1. UNCHANGED <<program, reachVars, input, cursor, output>> /\ stage' = "done" /\ outcome' = Success
    BY <1>4 DEF Deliver
  <2>2. FullyPruned'
    BY <1>1, <2>1, PrunedStays
  <2>3. EndedWell'
    BY <2>1, <2>2, OutcomesDiffer DEF EndedWell, PanicsOnUncountedImports, Success, Pending, Panic
  <2> QED
    BY <1>1, <2>1, <2>3 DEF DriverInv, ProgramStaysWellFormed
<1> QED
  BY <1>2, <1>3, <1>4

\* A step that changes nothing changes nothing of it.
LEMMA StutteringSteps ==
  ASSUME DriverInv, UNCHANGED allVars
  PROVE  DriverInv'
<1>1. /\ program' = program /\ UNCHANGED reachVars /\ input' = input /\ stage' = stage
      /\ cursor' = cursor /\ output' = output /\ outcome' = outcome
  BY DEF allVars, driverVars
<1>2. InputProgram' = InputProgram /\ InputIsValid' = InputIsValid
  BY <1>1, InputStays
<1>3. ReachabilityInit' = ReachabilityInit
  BY <1>1 DEF ReachabilityInit, reachVars
<1>4. Lowering => Lowering'
  BY <1>1, <1>2, <1>3 DEF Lowering, IsLowered
<1>5. ASSUME Analyzing PROVE Analyzing'
  <2>1. UNCHANGED vars
    BY <1>1 DEF vars
  <2>2. Inv' /\ NothingWithoutNeed'
    BY <1>5, <2>1, TypesNext, AccountingNext, NeedNext DEF Analyzing, Inv
  <2> QED
    BY <1>1, <1>2, <1>5, <2>2 DEF Analyzing
<1>6. ASSUME PruningInterfaces PROVE PruningInterfaces'
  <2> PICK p : p = InputProgram
    OBVIOUS
  <2>1. AnswerKeeps(p)' = AnswerKeeps(p) /\ \A k : PrunedUpTo(p, k)' = PrunedUpTo(p, k)
    BY <1>1, KeepingStays
  <2> QED
    BY <1>1, <1>2, <1>6, <2>1 DEF PruningInterfaces
<1>7. FullyPruned => FullyPruned'
  BY <1>1, PrunedStays
<1>8. PanicsOnUncountedImports => PanicsOnUncountedImports'
  BY <1>1 DEF PanicsOnUncountedImports, UncountedImports, IsModuleEvaluated, IsBindingLive,
              reachVars, ImportedBindings
<1> QED
  BY <1>1, <1>3, <1>4, <1>5, <1>6, <1>7, <1>8 DEF DriverInv, Validating, EndedWell, ProgramStaysWellFormed

\* Every step keeps the driver's invariant.
LEMMA DriverNext == DriverInv /\ [CompileNext]_allVars => DriverInv'
<1> SUFFICES ASSUME DriverInv, [CompileNext]_allVars PROVE DriverInv'
  OBVIOUS
<1>1. CASE RejectInput \/ AcceptInput \/ LowerModule \/ RejectModule \/ LinkDependencies
  BY <1>1, FrontEndSteps
<1>2. CASE AnalyzeProgram
  BY <1>2, AnalysisSteps
<1>3. CASE PruneModules
  BY <1>3, ModulePruningSteps
<1>4. CASE PruneInterface
  BY <1>4, InterfacePruningSteps
<1>5. CASE FinishPruning
  BY <1>5, PruningFinishes
<1>6. CASE GenerateModule \/ FailModule \/ Deliver
  BY <1>6, GeneratingSteps
<1>7. CASE Ended \/ UNCHANGED allVars
  BY <1>7, StutteringSteps DEF Ended
<1> QED
  BY <1>1, <1>2, <1>3, <1>4, <1>5, <1>6, <1>7 DEF CompileNext, Work

\* The driver's invariant holds throughout.
LEMMA DriverAlways == CompileSpec => []DriverInv
  BY DriverInit, DriverNext, PTL DEF CompileSpec

-----------------------------------------------------------------------------
(* What pruning preserves                                                  *)

\* No edit breaks an assert the IR is built with: what the driver makes of
\* any input it accepts stays well formed, step by step.
THEOREM WellFormedThroughout == CompileSpec => []ProgramStaysWellFormed
<1>1. DriverInv => ProgramStaysWellFormed
  BY DEF DriverInv
<1> QED
  BY <1>1, DriverAlways, PTL

\* prune_module_graph panics for nothing but an import of an evaluated module
\* whose uses are all assignments or reads inside a `try', which reachability
\* does not count.
THEOREM PanicsForOneReason == CompileSpec => []PanicsOnUncountedImports
<1>1. DriverInv => PanicsOnUncountedImports
  BY OutcomesDiffer DEF DriverInv, EndedWell, PanicsOnUncountedImports
<1> QED
  BY <1>1, DriverAlways, PTL

\* A program that is generated, or delivered, is one that was fully pruned.
LEMMA PrunedIsFullyPruned == DriverInv /\ Pruned => FullyPruned
  BY OutcomesDiffer DEF DriverInv, Pruned, EndedWell

\* Every import that pruning leaves is linked to what the input links it to,
\* for any program and whatever the analysis found.
THEOREM LinksArePreserved == CompileSpec => []LinksPreserved
<1>1. ASSUME DriverInv PROVE LinksPreserved
  <2> SUFFICES ASSUME Pruned, NEW m \in program.modules, NEW b \in ImportedBindings(program, m)
               PROVE  /\ ImportedBinding(program, m, b) = ImportedBinding(InputProgram, m, b)
                      /\ \A n \in Module :
                           NamespaceTarget([kind |-> "Internal", module |-> n])
                               \in ImportedBinding(program, m, b)
                             => View(program, n) = View(InputProgram, n)
    BY DEF LinksPreserved
  <2>1. AnswerKeeps(InputProgram) /\ Leaves(InputProgram, program)
    BY <1>1, PrunedIsFullyPruned DEF FullyPruned
  <2>2. m \in Evaluated
    BY <2>1 DEF Leaves, LeavesExports
  <2> QED
    BY <2>1, <2>2, LinkedAsBefore
<1> QED
  BY <1>1, DriverAlways, PTL

\* With eval, an evaluated module loses no import.
LEMMA EvalKeepsImports ==
  ASSUME NEW p, AnswerKeeps(p), NEW q, Leaves(p, q), NEW m \in Evaluated, m \in p.directEval
  PROVE  q.bindings[m] = p.bindings[m] /\ q.imports[m] = p.imports[m]
<1>1. /\ WellFormed(p) /\ m \in p.modules
      /\ q.imports[m] = PrunedImports(p, m)
      /\ q.bindings[m] = p.bindings[m] \ DeadImportBindings(p, m)
  BY DEF AnswerKeeps, EvaluatedIsClosed, Leaves
<1>2. \A b \in p.bindings[m] : IsBindingLive(m, b)
  BY DEF AnswerKeeps, EvaluatedIsClosed, ReadBindings
<1>3. ASSUME NEW i \in p.imports[m], BindsName(i) PROVE IsBindingLive(m, i.binding)
  <2>1. i.binding \in ImportedBindings(p, m)
    BY <1>3 DEF ImportedBindings
  <2> QED
    BY <1>1, <1>2, <2>1 DEF WellFormed
<1>4. \A i \in p.imports[m] : ~DeadImport(m, i)
  BY <1>3 DEF DeadImport
<1>5. DeadImportBindings(p, m) = {} /\ PrunedImports(p, m) = p.imports[m]
  BY <1>4 DEF DeadImportBindings, PrunedImports
<1> QED
  BY <1>1, <1>5

\* Pruning keeps every binding that an operation names, all that eval can see,
\* and what the public names of the entries denote.
THEOREM EntryViewsArePreserved == CompileSpec => []EntryViewsPreserved
<1>1. ASSUME DriverInv, Pruned PROVE EntryViewsPreserved
  <2>1. AnswerKeeps(InputProgram) /\ Leaves(InputProgram, program)
    BY <1>1, PrunedIsFullyPruned DEF FullyPruned
  <2>2. \A m \in program.modules :
          program.loads[m] \cup program.guardedLoads[m] \cup program.writes[m]
            \subseteq program.bindings[m]
    BY <2>1 DEF Leaves, WellFormed, ReferencedBindings
  <2>3. ASSUME NEW m \in program.modules \cap program.directEval
        PROVE  /\ program.bindings[m] = InputProgram.bindings[m]
               /\ program.imports[m] = InputProgram.imports[m]
    <3>1. m \in Evaluated /\ m \in InputProgram.directEval
      BY <2>1 DEF Leaves, LeavesExports
    <3> QED
      BY <2>1, <3>1, EvalKeepsImports
  <2>4. \A m \in program.entries : View(program, m) = View(InputProgram, m)
    BY <2>1, EntriesAsBefore
  <2> QED
    BY <2>2, <2>3, <2>4 DEF EntryViewsPreserved
<1>2. DriverInv => EntryViewsPreserved
  BY <1>1 DEF EntryViewsPreserved
<1> QED
  BY <1>2, DriverAlways, PTL

\* No step of pruning takes a request from a module that stays.
THEOREM RequestsArePreserved == CompileSpec => RequestsPreserved
<1>1. ASSUME DriverInv, [CompileNext]_allVars PROVE [KeepsRequests]_allVars
  <2> SUFFICES ASSUME stage \in {"analyze", "interfaces"}, NEW n \in (program').modules
               PROVE  RequestsOf(program', n) = RequestsOf(program, n)
    BY DEF KeepsRequests
  <2>1. CASE program' = program
    BY <2>1
  <2>2. CASE AnalyzeProgram
    <3>1. program' = program
      BY <1>1, <2>2, AnalysisGoesOn DEF DriverInv, Analyzing, AnalyzeProgram
    <3> QED
      BY <3>1
  <2>3. CASE PruneModules
    <3>1. program' = RemoveModules(program, UnreachableModules(program)) \/ program' = program
      BY <2>3 DEF PruneModules, Fail
    <3>2. program'.imports[n] = program.imports[n] /\ program'.exports[n] = program.exports[n]
      <4>1. program \in JsProgramIr
        BY <1>1 DEF DriverInv, ProgramStaysWellFormed
      <4> QED
        BY <3>1, <4>1 DEF RemoveModules, JsProgramIr
    <3> QED
      BY <3>2 DEF RequestsOf
  <2>4. CASE PruneInterface
    <3>1. program \in JsProgramIr
      BY <1>1 DEF DriverInv, ProgramStaysWellFormed
    <3>2. program' = program \/ \E m \in program.modules : program' = InterfacePruned(program, m)
      BY <2>4 DEF PruneInterface, Fail, InterfacePruned, NextModule
    <3>3. ASSUME NEW m \in program.modules, program' = InterfacePruned(program, m)
          PROVE  RequestsOf(program', n) = RequestsOf(program, n)
      <4>1. m \in Module
        BY <3>1, ProgramParts
      <4>2. IsInterfacePruned(program, program', m)
        BY <3>1, <3>3, <4>1, InterfaceParts
      <4>3. n \in Module
        BY <3>1, <4>2, ProgramParts DEF IsInterfacePruned
      <4> QED
        BY <3>1, <4>1, <4>2, <4>3, InterfaceKeepsRequests
    <3> QED
      BY <3>2, <3>3
  <2>5. CASE FinishPruning \/ Ended \/ UNCHANGED allVars
    BY <2>1, <2>5 DEF FinishPruning, Ended, allVars
  <2> QED
    BY <1>1, <2>1, <2>2, <2>3, <2>4, <2>5
    DEF CompileNext, Work, RejectInput, AcceptInput, LowerModule, RejectModule, LinkDependencies,
        GenerateModule, FailModule, Deliver
<1> QED
  BY <1>1, DriverAlways, PTL DEF CompileSpec, RequestsPreserved

-----------------------------------------------------------------------------
(* What a run delivers                                                     *)

\* The modules before k have been generated, each once and in order.
OutputUpTo(k) ==
  LET generated == {m \in Evaluated : m < k}
  IN  /\ output \in Seq(ModuleKey)
      /\ \A m \in generated : input.modules[m].generates
      /\ Len(output) = Cardinality(generated)
      /\ {<<i, output[i]>> : i \in DOMAIN output} = KeysInOrder(generated)

\* Nothing is delivered before the loop over the retained modules, which comes
\* after all modules have been lowered.
OutcomeInv ==
  /\ stage \in {"validate", "lower", "analyze", "interfaces"} => output = <<>>
  /\ stage = "lower" => \A i \in 1..(cursor - 1) : input.modules[i].parses
  /\ stage \in {"analyze", "interfaces", "compile"} => FailsToParse = {}
  /\ stage = "compile" => OutputUpTo(cursor)
  /\ OutcomeFollowsInput

\* The first of a set of numbers is its minimum.
LEMMA FirstIsMin ==
  ASSUME NEW S, S \subseteq Nat, NEW m \in S, \A n \in S : m <= n
  PROVE  Min(S) = m
<1>1. Min(S) \in S /\ \A n \in S : Min(S) <= n
  BY DEF Min
<1>2. Min(S) <= m /\ m <= Min(S) /\ Min(S) \in Nat /\ m \in Nat
  BY <1>1
<1> QED
  BY <1>2

\* A module that comes after all others gets the next place.
LEMMA NextPlace ==
  ASSUME NEW S, S \subseteq Nat, IsFiniteSet(S), NEW m \in Nat, \A n \in S : n < m
  PROVE  /\ Cardinality(S \cup {m}) = Cardinality(S) + 1
         /\ KeysInOrder(S \cup {m}) = KeysInOrder(S) \cup {<<Cardinality(S) + 1, KeyOf(m)>>}
<1>1. m \notin S
  <2>1. ~(m < m)
    OBVIOUS
  <2> QED
    BY <2>1
<1>2. Cardinality(S \cup {m}) = Cardinality(S) + 1
  BY <1>1, FS_AddElement
<1>3. {x \in S \cup {m} : x <= m} = S \cup {m}
  <2>1. \A x \in S \cup {m} : x <= m
    OBVIOUS
  <2> QED
    BY <2>1
<1>4. ASSUME NEW n \in S PROVE {x \in S \cup {m} : x <= n} = {x \in S : x <= n}
  <2>1. n < m /\ n \in Nat
    OBVIOUS
  <2>2. ~(m <= n)
    BY <2>1
  <2> QED
    BY <2>2
<1> DEFINE place(x) == <<Cardinality({y \in S \cup {m} : y <= x}), KeyOf(x)>>
<1>5. KeysInOrder(S \cup {m}) = {place(x) : x \in S \cup {m}}
  BY DEF KeysInOrder
<1>6. KeysInOrder(S) = {place(x) : x \in S}
  BY <1>4 DEF KeysInOrder
<1>7. place(m) = <<Cardinality(S) + 1, KeyOf(m)>>
  BY <1>2, <1>3
<1> HIDE DEF place
<1>8. {place(x) : x \in S \cup {m}} = {place(x) : x \in S} \cup {place(m)}
  OBVIOUS
<1> QED
  BY <1>2, <1>5, <1>6, <1>7, <1>8

\* The modules that are generated are those the input makes reachable.
LEMMA ReachableIsEvaluated ==
  FullyPruned /\ input \in Inputs =>
    /\ ReachableModules(CorrectAnswer(InputProgram).facts) = Evaluated
    /\ program.modules = Evaluated /\ Evaluated \subseteq DOMAIN input.modules
    /\ Evaluated \subseteq Nat /\ IsFiniteSet(Evaluated)
<1> SUFFICES ASSUME FullyPruned, input \in Inputs
             PROVE  /\ ReachableModules(CorrectAnswer(InputProgram).facts) = Evaluated
                    /\ program.modules = Evaluated /\ Evaluated \subseteq DOMAIN input.modules
                    /\ Evaluated \subseteq Nat /\ IsFiniteSet(Evaluated)
  OBVIOUS
<1>1. /\ InputProgram.modules = DOMAIN input.modules /\ Evaluated \subseteq InputProgram.modules
      /\ CurrentAnswer = CorrectAnswer(InputProgram) /\ program.modules = Evaluated
  BY InputWellFormed DEF FullyPruned, AnswerKeeps, EvaluatedIsClosed, Leaves, LeavesExports
<1>2. CurrentAnswer.facts = settled
  <2>1. CorrectAnswer(InputProgram).given = TRUE /\ NoAnswer.given = FALSE
    BY DEF CorrectAnswer, AnswerFrom, NoAnswer
  <2>2. phase = "done"
    BY <1>1, <2>1 DEF CurrentAnswer
  <2> QED
    BY <2>2 DEF CurrentAnswer
<1>3. ReachableModules(settled) = Evaluated
  <2>1. \A m \in DOMAIN input.modules : m \in Module
    BY InputTypes
  <2> QED
    BY <1>1, <2>1 DEF ReachableModules, Evaluated
<1>4. /\ Len(input.modules) \in Nat /\ DOMAIN input.modules = 1..Len(input.modules)
  BY InputTypes
<1>5. IsFiniteSet(1..Len(input.modules))
  BY <1>4, FS_Interval
<1>6. IsFiniteSet(Evaluated)
  BY <1>1, <1>4, <1>5, FS_Subset
<1> QED
  BY <1>1, <1>2, <1>3, <1>4, <1>6

\* A run starts with nothing delivered.
LEMMA OutcomeInit == CompileInit => OutcomeInv
  BY DEF CompileInit, OutcomeInv, OutcomeFollowsInput

\* An invalid input, and one that does not parse, are reported as they should.
LEMMA FrontEndOutcomes ==
  ASSUME DriverInv, OutcomeInv,
         RejectInput \/ AcceptInput \/ LowerModule \/ RejectModule \/ LinkDependencies
  PROVE  OutcomeInv'
<1>1. input \in Inputs /\ cursor \in Nat /\ output = <<>>
  BY DEF DriverInv, OutcomeInv, RejectInput, AcceptInput, LowerModule, RejectModule, LinkDependencies
<1>2. /\ DOMAIN input.modules = 1..Len(input.modules) /\ Len(input.modules) \in Nat
  BY <1>1, InputTypes
<1>3. CASE RejectInput
  <2>1. /\ ~InputIsValid
        /\ Validation.kind \in {"DuplicateProgramModule", "UnknownProgramEntrypoint",
                                "UnknownInternalModule"}
    BY <1>1, <1>3, ValidationHolds DEF RejectInput, Error
  <2>2. stage' = "done" /\ outcome' = Validation /\ output' = <<>> /\ input' = input
    BY <1>1, <1>3 DEF RejectInput, Fail
  <2>3. ~InputIsValid'
    BY <2>1, <2>2, InputStays
  <2>4. OutcomeFollowsInput'
    BY <2>1, <2>2, <2>3 DEF OutcomeFollowsInput
  <2> QED
    BY <2>2, <2>4 DEF OutcomeInv
<1>4. CASE AcceptInput
  <2>1. stage' = "lower" /\ cursor' = 1 /\ UNCHANGED <<input, output>>
    BY <1>4 DEF AcceptInput, GoTo
  <2> QED
    BY <1>1, <2>1 DEF OutcomeInv, OutcomeFollowsInput
<1>5. CASE LowerModule
  <2>1. /\ stage = "lower" /\ cursor \in DOMAIN input.modules /\ input.modules[cursor].parses
        /\ cursor' = cursor + 1 /\ UNCHANGED <<input, output, stage>>
    BY <1>5 DEF LowerModule
  <2>2. \A i \in 1..((cursor + 1) - 1) : input.modules[i].parses
    <3>1. \A i \in 1..((cursor + 1) - 1) : i \in 1..(cursor - 1) \/ i = cursor
      BY <1>1
    <3> QED
      BY <2>1, <3>1 DEF OutcomeInv
  <2> QED
    BY <1>1, <2>1, <2>2 DEF OutcomeInv, OutcomeFollowsInput
<1>6. CASE RejectModule
  <2>1. /\ stage = "lower" /\ cursor \in DOMAIN input.modules /\ ~input.modules[cursor].parses
        /\ stage' = "done" /\ outcome' = Error("ProgramModule", KeyOf(cursor))
        /\ UNCHANGED <<input, output>>
    BY <1>6 DEF RejectModule, Fail
  <2>2. InputIsValid' /\ FailsToParse' = FailsToParse
    BY <2>1, InputStays DEF DriverInv, Lowering
  <2>3. Min(FailsToParse) = cursor /\ FailsToParse # {}
    <3>1. FailsToParse \subseteq Nat /\ cursor \in FailsToParse
      BY <1>2, <2>1 DEF FailsToParse
    <3>2. ASSUME NEW i \in FailsToParse PROVE cursor <= i
      <4>1. i \in Nat \ {0} /\ i \notin 1..(cursor - 1)
        BY <1>2, <2>1 DEF FailsToParse, OutcomeInv
      <4> QED
        BY <1>1, <4>1
    <3> QED
      BY <3>1, <3>2, FirstIsMin
  <2>4. (Error("ProgramModule", KeyOf(Min(FailsToParse))))' = Error("ProgramModule", KeyOf(cursor))
    BY <2>1, <2>2, <2>3 DEF KeyOf
  <2>5. OutcomeFollowsInput'
    BY <1>1, <2>1, <2>2, <2>3, <2>4 DEF OutcomeFollowsInput
  <2> QED
    BY <1>1, <2>1, <2>5 DEF OutcomeInv
<1>7. CASE LinkDependencies
  <2>1. /\ stage = "lower" /\ cursor \notin DOMAIN input.modules
        /\ stage' = "analyze" /\ UNCHANGED <<input, output>>
    BY <1>7 DEF LinkDependencies, GoTo
  <2>2. cursor \in 1..(Len(input.modules) + 1)
    BY <2>1 DEF DriverInv, Lowering
  <2>3. cursor - 1 = Len(input.modules)
    BY <1>2, <2>1, <2>2
  <2>4. FailsToParse = {}
    BY <1>2, <2>1, <2>3 DEF OutcomeInv, FailsToParse
  <2>5. FailsToParse' = {}
    BY <2>1, <2>4, InputStays
  <2> QED
    BY <1>1, <2>1, <2>5 DEF OutcomeInv, OutcomeFollowsInput
<1> QED
  BY <1>3, <1>4, <1>5, <1>6, <1>7

\* Analysis and pruning deliver nothing; a panic says nothing of the outcome.
LEMMA PruningOutcomes ==
  ASSUME DriverInv, OutcomeInv, AnalyzeProgram \/ PruneModules \/ PruneInterface
  PROVE  OutcomeInv'
<1>1. stage \in {"analyze", "interfaces"} /\ output = <<>> /\ FailsToParse = {}
  BY DEF OutcomeInv, AnalyzeProgram, PruneModules, PruneInterface
<1>2. /\ UNCHANGED <<input, output>>
      /\ stage' \in {"analyze", "interfaces"} \/ (stage' = "done" /\ outcome' = Panic)
  BY <1>1 DEF AnalyzeProgram, PruneModules, PruneInterface, Fail, GoTo, driverVars
<1>3. FailsToParse' = {}
  BY <1>1, <1>2, InputStays
<1>4. OutcomeFollowsInput'
  BY <1>2 DEF OutcomeFollowsInput
<1> QED
  BY <1>1, <1>2, <1>3, <1>4 DEF OutcomeInv

\* The loop over the retained modules starts with no output.
LEMMA GeneratingStarts ==
  ASSUME DriverInv, OutcomeInv, FinishPruning
  PROVE  OutcomeInv'
<1>1. /\ stage = "interfaces" /\ output = <<>> /\ FailsToParse = {} /\ input \in Inputs
      /\ stage' = "compile" /\ cursor' = 1 /\ UNCHANGED <<program, reachVars, input, output>>
  BY DEF OutcomeInv, DriverInv, FinishPruning, GoTo
<1>2. FailsToParse' = {}
  BY <1>1, InputStays
<1>3. {m \in Evaluated : m < 1} = {}
  <2>1. Evaluated \subseteq Nat \ {0}
    BY <1>1, InputWellFormed DEF DriverInv, PruningInterfaces, AnswerKeeps, EvaluatedIsClosed
  <2>2. \A m \in Nat \ {0} : ~(m < 1)
    OBVIOUS
  <2> QED
    BY <2>1, <2>2
<1>4. KeysInOrder({}) = {}
  BY DEF KeysInOrder
<1>5. OutputUpTo(cursor)'
  BY <1>1, <1>3, <1>4, AnswerStays, FS_EmptySet DEF OutputUpTo, KeysInOrder, KeyOf
<1> QED
  BY <1>1, <1>2, <1>5 DEF OutcomeInv, OutcomeFollowsInput

\* One more module is generated, and nothing else changes.
LEMMA OneMoreGenerated ==
  ASSUME NEW k \in Nat, OutputUpTo(k), Evaluated \subseteq Nat, IsFiniteSet(Evaluated),
         NEW m \in Evaluated, m >= k, \A n \in Evaluated : n >= k => m <= n,
         input.modules[m].generates, KeyOf(m) \in ModuleKey,
         UNCHANGED <<input, reachVars>>, output' = Append(output, KeyOf(m))
  PROVE  OutputUpTo(m + 1)'
<1> DEFINE S == {n \in Evaluated : n < k}
           key == KeyOf(m)
<1>1. m \in Nat /\ S \subseteq Nat /\ \A n \in S : n < m
  <2>1. ASSUME NEW n \in S PROVE n < m
    <3>1. n \in Nat /\ n < k /\ m \in Nat
      OBVIOUS
    <3> QED
      BY <3>1
  <2> QED
    BY <2>1
<1>2. {n \in Evaluated : n < m + 1} = S \cup {m}
  <2>1. ASSUME NEW n \in Evaluated PROVE n < m + 1 <=> n < k \/ n = m
    <3>1. n \in Nat /\ (n >= k => m <= n)
      OBVIOUS
    <3> QED
      BY <1>1, <3>1
  <2> QED
    BY <2>1
<1>3. IsFiniteSet(S)
  BY FS_Subset
<1>4. /\ output \in Seq(ModuleKey) /\ \A n \in S : input.modules[n].generates
      /\ Len(output) = Cardinality(S)
      /\ {<<i, output[i]>> : i \in DOMAIN output} = KeysInOrder(S)
  BY DEF OutputUpTo
<1> HIDE DEF S
<1>5. /\ Cardinality(S \cup {m}) = Cardinality(S) + 1
      /\ KeysInOrder(S \cup {m}) = KeysInOrder(S) \cup {<<Cardinality(S) + 1, key>>}
  BY <1>1, <1>3, NextPlace
<1> HIDE DEF key
<1>6. /\ output' \in Seq(ModuleKey) /\ Len(output') = Len(output) + 1
      /\ DOMAIN output' = DOMAIN output \cup {Len(output) + 1}
      /\ \A i \in DOMAIN output : output'[i] = output[i]
      /\ output'[Len(output) + 1] = key
  <2>1. key \in ModuleKey /\ output' = Append(output, key)
    BY DEF key
  <2>2. DOMAIN output = 1..Len(output) /\ Len(output) \in Nat
    BY <1>4
  <2>3. \A i \in DOMAIN output : i \in 1..Len(output) + 1 /\ i # Len(output) + 1
    BY <2>2
  <2> QED
    BY <1>4, <2>1, <2>2, <2>3
<1>7. {<<i, output'[i]>> : i \in DOMAIN output'}
        = {<<i, output[i]>> : i \in DOMAIN output} \cup {<<Len(output) + 1, key>>}
  BY <1>6
<1>8. {<<i, output'[i]>> : i \in DOMAIN output'} = KeysInOrder(S \cup {m})
  BY <1>4, <1>5, <1>7
<1>9. /\ Evaluated' = Evaluated /\ \A n : KeyOf(n)' = KeyOf(n)
  BY AnswerStays DEF KeyOf
<1>10. \A T : KeysInOrder(T)' = KeysInOrder(T)
  BY <1>9 DEF KeysInOrder
<1> QED
  BY <1>2, <1>4, <1>5, <1>6, <1>8, <1>9, <1>10 DEF OutputUpTo

\* The loop over the retained modules delivers them in order, or stops at the
\* first for which no code is generated.
LEMMA GeneratingOutcomes ==
  ASSUME DriverInv, OutcomeInv, GenerateModule \/ FailModule \/ Deliver
  PROVE  OutcomeInv'
<1>1. /\ FullyPruned /\ cursor \in Nat /\ input \in Inputs /\ stage = "compile"
      /\ OutputUpTo(cursor) /\ FailsToParse = {} /\ InputIsValid
  BY DEF DriverInv, OutcomeInv, GenerateModule, FailModule, Deliver, FullyPruned
<1>2. /\ ReachableModules(CorrectAnswer(InputProgram).facts) = Evaluated
      /\ program.modules = Evaluated /\ Evaluated \subseteq DOMAIN input.modules
      /\ Evaluated \subseteq Nat /\ IsFiniteSet(Evaluated)
  BY <1>1, ReachableIsEvaluated
<1>3. UNCHANGED <<program, reachVars, input>>
  BY DEF GenerateModule, FailModule, Deliver, Fail
<1>4. InputIsValid' /\ FailsToParse' = {} /\ FullyPruned' /\ Evaluated' = Evaluated
  BY <1>1, <1>3, InputStays, PrunedStays, AnswerStays
<1>5. ReachableModules(CorrectAnswer(InputProgram).facts)' = Evaluated
  <2>1. (FullyPruned /\ input \in Inputs =>
           /\ ReachableModules(CorrectAnswer(InputProgram).facts) = Evaluated
           /\ program.modules = Evaluated /\ Evaluated \subseteq DOMAIN input.modules
           /\ Evaluated \subseteq Nat /\ IsFiniteSet(Evaluated))'
    BY ReachableIsEvaluated, PTL
  <2> QED
    BY <1>1, <1>3, <1>4, <2>1
<1>6. \A m \in NextModule : m \in Evaluated /\ m >= cursor /\ \A n \in Evaluated : n >= cursor => m <= n
  BY <1>2 DEF NextModule
<1>7. CASE GenerateModule
  <2>1. PICK m \in NextModule : /\ input.modules[m].generates
                                /\ output' = Append(output, KeyOf(m)) /\ cursor' = m + 1
    BY <1>7 DEF GenerateModule
  <2>2. KeyOf(m) \in ModuleKey
    BY <1>1, <1>2, <1>6, InputTypes DEF KeyOf
  <2>3. OutputUpTo(m + 1)'
    BY <1>1, <1>2, <1>3, <1>6, <2>1, <2>2, OneMoreGenerated
  <2>4. stage' = "compile"
    BY <1>1, <1>7 DEF GenerateModule
  <2> QED
    BY <1>4, <2>1, <2>3, <2>4 DEF OutcomeInv, OutcomeFollowsInput, OutputUpTo
<1>8. CASE FailModule
  <2>1. PICK m \in NextModule : ~input.modules[m].generates /\ Fail(Error("ProgramModule", KeyOf(m)))
    BY <1>8 DEF FailModule
  <2> DEFINE failing == {n \in Evaluated : ~input.modules[n].generates}
  <2>2. failing # {} /\ Min(failing) = m
    <3>1. m \in failing /\ failing \subseteq Nat
      BY <1>2, <1>6, <2>1
    <3>2. ASSUME NEW n \in failing PROVE m <= n
      <4>1. n \in Nat /\ ~(n < cursor)
        BY <1>1, <1>2 DEF OutputUpTo
      <4> QED
        BY <1>1, <1>6, <2>1, <4>1
    <3> HIDE DEF failing
    <3> QED
      BY <3>1, <3>2, FirstIsMin
  <2>3. outcome' = Error("ProgramModule", KeyOf(m)) /\ stage' = "done"
    BY <2>1 DEF Fail
  <2>4. \A n : KeyOf(n)' = KeyOf(n)
    BY <1>3 DEF KeyOf
  <2>5. ASSUME NEW R, R = Evaluated PROVE Delivers(R)'
    BY <1>3, <2>2, <2>3, <2>4, <2>5 DEF Delivers
  <2>6. Delivers(ReachableModules(CorrectAnswer(InputProgram).facts))'
    BY <1>5, <2>5
  <2> QED
    BY <1>4, <2>3, <2>6 DEF OutcomeInv, OutcomeFollowsInput
<1>9. CASE Deliver
  <2>1. NextModule = {} /\ stage' = "done" /\ outcome' = Success /\ output' = output
    BY <1>9 DEF Deliver
  <2>2. {m \in Evaluated : m < cursor} = Evaluated
    <3> SUFFICES ASSUME NEW m0 \in Evaluated, ~(m0 < cursor) PROVE FALSE
      OBVIOUS
    <3> DEFINE S == {m \in Evaluated : m >= cursor}
    <3>1. S \subseteq Nat /\ S # {}
      <4>1. m0 \in Nat /\ m0 >= cursor
        BY <1>1, <1>2
      <4> QED
        BY <1>2, <4>1
    <3>2. PICK m \in S : \A n \in S : m <= n
      BY <3>1, LeastExists
    <3>3. m \in NextModule
      BY <1>2, <3>2 DEF NextModule
    <3> QED
      BY <2>1, <3>3
  <2>3. /\ {m \in Evaluated : ~input.modules[m].generates} = {}
        /\ {<<i, output[i]>> : i \in DOMAIN output} = KeysInOrder(Evaluated)
    BY <1>1, <2>2 DEF OutputUpTo
  <2>4. \A T : KeysInOrder(T)' = KeysInOrder(T)
    BY <1>3 DEF KeysInOrder, KeyOf
  <2>5. ASSUME NEW R, R = Evaluated PROVE Delivers(R)'
    BY <1>3, <2>1, <2>3, <2>4, <2>5 DEF Delivers
  <2>6. Delivers(ReachableModules(CorrectAnswer(InputProgram).facts))'
    BY <1>5, <2>5
  <2> QED
    BY <1>4, <2>1, <2>6 DEF OutcomeInv, OutcomeFollowsInput
<1> QED
  BY <1>7, <1>8, <1>9

\* Every step keeps what a run delivers in line with its input.
LEMMA OutcomeNext == DriverInv /\ OutcomeInv /\ [CompileNext]_allVars => OutcomeInv'
<1> SUFFICES ASSUME DriverInv, OutcomeInv, [CompileNext]_allVars PROVE OutcomeInv'
  OBVIOUS
<1>1. CASE RejectInput \/ AcceptInput \/ LowerModule \/ RejectModule \/ LinkDependencies
  BY <1>1, FrontEndOutcomes
<1>2. CASE AnalyzeProgram \/ PruneModules \/ PruneInterface
  BY <1>2, PruningOutcomes
<1>3. CASE FinishPruning
  BY <1>3, GeneratingStarts
<1>4. CASE GenerateModule \/ FailModule \/ Deliver
  BY <1>4, GeneratingOutcomes
<1>5. CASE Ended \/ UNCHANGED allVars
  <2>1. UNCHANGED <<program, reachVars, input, stage, cursor, output, outcome>>
    BY <1>5 DEF Ended, allVars, driverVars
  <2>2. /\ InputProgram' = InputProgram /\ InputIsValid' = InputIsValid
        /\ FailsToParse' = FailsToParse /\ Evaluated' = Evaluated
    BY <2>1, InputStays, AnswerStays
  <2>3. \A T : KeysInOrder(T)' = KeysInOrder(T)
    BY <2>1 DEF KeysInOrder, KeyOf
  <2>4. OutputUpTo(cursor) => OutputUpTo(cursor)'
    BY <2>1, <2>2, <2>3 DEF OutputUpTo
  <2>5. OutcomeFollowsInput => OutcomeFollowsInput'
    BY <2>1, <2>2, <2>3 DEF OutcomeFollowsInput, Delivers, ReachableModules, KeyOf
  <2> QED
    BY <2>1, <2>2, <2>4, <2>5 DEF OutcomeInv
<1> QED
  BY <1>1, <1>2, <1>3, <1>4, <1>5 DEF CompileNext, Work

\* How a run ends, and what it delivers, follows from its input alone, in
\* whatever order the analysis does its work: errors in their order, and the
\* reachable modules each once, in input order.
THEOREM OutcomesFollowInputs == CompileSpec => []OutcomeFollowsInput
<1>1. OutcomeInv => OutcomeFollowsInput
  BY DEF OutcomeInv
<1> QED
  BY <1>1, OutcomeInit, OutcomeNext, DriverAlways, PTL DEF CompileSpec

-----------------------------------------------------------------------------
(* Pruning once is enough                                                  *)

\* A demanded export is demanded of the pruned list too, where it stays.
LEMMA DemandedAgain ==
  ASSUME NEW p, AnswerKeeps(p), NEW q, Leaves(p, q), ~retained, NEW d \in demands,
         NEW k \in DOMAIN KeptExports(p, d.module),
         KeptExports(p, d.module)[k] \in DemandedExports(p, d)
  PROVE  /\ k \in DemandedExports(q, d)
         /\ q.exports[d.module][k] = p.exports[d.module][KeptExports(p, d.module)[k]]
<1> DEFINE m == d.module
           K == KeptExports(p, m)
           old(i) == p.exports[m][i]
           new(j) == q.exports[m][j]
<1>1. /\ p \in JsProgramIr /\ q \in JsProgramIr /\ d \in ExportDemand /\ d \in DemandsWithin(Evaluated)
      /\ liveExports = UNION {{x.module} \X DemandedExports(p, x) : x \in demands}
  BY DEF AnswerKeeps, AnswerIsLeast, Leaves
<1>2. m \in Evaluated /\ m \in Module /\ q.exports[m] = PrunedExports(p, m)
  BY <1>1 DEF DemandsWithin, Leaves, LeavesExports, Evaluated
<1>3. /\ DOMAIN q.exports[m] = DOMAIN K
      /\ \A j \in DOMAIN K :
           /\ j \in Nat /\ K[j] \in DOMAIN p.exports[m] /\ K[j] \in Nat
           /\ IF IsExportLive(m, K[j]) THEN new(j) = old(K[j]) ELSE new(j).kind = "Empty"
      /\ \A i, j \in DOMAIN K : i < j => K[i] < K[j]
  <2>1. IsPrunedList(m, p.exports[m], K, q.exports[m])
    BY <1>1, <1>2, PrunedExportsHold
  <2>2. \A i \in DOMAIN p.exports[m] : i \in Nat
    BY <1>1, <1>2, ExportTypes
  <2> HIDE DEF K, m
  <2>3. /\ DOMAIN q.exports[m] = DOMAIN K
        /\ \A i, j \in DOMAIN K : i < j => K[i] < K[j]
    BY <2>1 DEF IsPrunedList
  <2>4. ASSUME NEW j \in DOMAIN K
        PROVE  /\ j \in Nat /\ K[j] \in DOMAIN p.exports[m]
               /\ IF IsExportLive(m, K[j]) THEN new(j) = old(K[j]) ELSE new(j).kind = "Empty"
    <3> DEFINE e == q.exports[m]
    <3>1. IsPrunedList(m, p.exports[m], K, e)
      BY <2>1
    <3> HIDE DEF e
    <3>2. /\ j \in Nat /\ K[j] \in DOMAIN p.exports[m]
          /\ IF IsExportLive(m, K[j]) THEN e[j] = old(K[j]) ELSE e[j].kind = "Empty"
      BY <3>1 DEF IsPrunedList
    <3> QED
      BY <3>2 DEF e
  <2> QED
    BY <2>2, <2>3, <2>4
<1> DEFINE i == K[k]
<1>4. k \in DOMAIN K /\ i \in DemandedExports(p, d)
  OBVIOUS
<1> HIDE DEF K
<1>5. IsExportLive(m, i)
  BY <1>1, <1>4 DEF IsExportLive
<1>6. new(k) = old(i) /\ k \in DOMAIN q.exports[m]
  BY <1>3, <1>4, <1>5
<1>7. CASE d.kind = "Namespace"
  BY <1>6, <1>7 DEF DemandedExports, K
<1>8. CASE d.kind # "Namespace" /\ ExplicitExport(p, m, d.name) # {}
  <2>1. i \in ExplicitExport(p, m, d.name)
    BY <1>4, <1>8 DEF DemandedExports
  <2>2. /\ HasExportedName(old(i), d.name)
        /\ \A j \in DOMAIN p.exports[m] : j < i => ~HasExportedName(old(j), d.name)
    BY <2>1 DEF ExplicitExport
  <2>3. ASSUME NEW j \in DOMAIN K, j < k PROVE ~HasExportedName(new(j), d.name)
    <3>1. K[j] < i /\ K[j] \in DOMAIN p.exports[m]
      BY <1>3, <1>4, <2>3
    <3>2. ~HasExportedName(old(K[j]), d.name)
      BY <2>2, <3>1
    <3> QED
      BY <1>3, <3>2 DEF HasExportedName
  <2>4. k \in ExplicitExport(q, m, d.name)
    BY <1>3, <1>6, <2>2, <2>3 DEF ExplicitExport
  <2>5. DemandedExports(q, d) = ExplicitExport(q, m, d.name)
    BY <1>8, <2>4 DEF DemandedExports
  <2> QED
    BY <1>6, <2>4, <2>5 DEF K
<1>9. CASE d.kind # "Namespace" /\ ExplicitExport(p, m, d.name) = {}
  <2>1. d.name # "default" /\ i \in StarExports(p, m)
    BY <1>4, <1>9 DEF DemandedExports
  <2>2. ASSUME NEW j \in DOMAIN K PROVE ~HasExportedName(new(j), d.name)
    <3>1. ~HasExportedName(old(K[j]), d.name)
      BY <1>1, <1>2, <1>3, <1>9, FirstExportExists
    <3> QED
      BY <1>3, <3>1 DEF HasExportedName
  <2>3. ExplicitExport(q, m, d.name) = {}
    BY <1>3, <2>2 DEF ExplicitExport
  <2>4. k \in StarExports(q, m)
    BY <1>6, <2>1 DEF StarExports
  <2>5. DemandedExports(q, d) = StarExports(q, m)
    BY <1>9, <2>1, <2>3 DEF DemandedExports
  <2> QED
    BY <1>6, <2>4, <2>5 DEF K
<1> QED
  BY <1>7, <1>8, <1>9

\* Every demanded export has a place in the pruned list.
LEMMA DemandedHasPlace ==
  ASSUME NEW p, AnswerKeeps(p), ~retained, NEW d \in demands, NEW i \in DemandedExports(p, d)
  PROVE  \E k \in DOMAIN KeptExports(p, d.module) : KeptExports(p, d.module)[k] = i
<1> DEFINE m == d.module
           K == KeptExports(p, m)
<1>1. /\ p \in JsProgramIr /\ d \in ExportDemand
      /\ liveExports = UNION {{x.module} \X DemandedExports(p, x) : x \in demands}
  BY DEF AnswerKeeps, AnswerIsLeast
<1>2. m \in Module /\ i \in DOMAIN p.exports[m]
  BY <1>1, DemandedExportsTypes
<1>3. IsExportLive(m, i)
  BY <1>1 DEF IsExportLive
<1>4. IsPrunedList(m, p.exports[m], K, PrunedExports(p, m))
  BY <1>1, <1>2, PrunedExportsHold
<1> HIDE DEF K
<1>5. \E k \in DOMAIN K : K[k] = i
  BY <1>2, <1>3, <1>4 DEF IsPrunedList
<1> QED
  BY <1>5 DEF K

\* What a demand asks for in p it asks for in q.
LEMMA DemandsAskAgain ==
  ASSUME NEW p, AnswerKeeps(p), NEW q, Leaves(p, q), ~retained, NEW d \in demands
  PROVE  /\ Forwarded(p, d) \subseteq Forwarded(q, d)
         /\ RequiredBindings(p, d) \subseteq RequiredBindings(q, d)
<1> DEFINE m == d.module
<1>1. m \in Evaluated
  BY DEF AnswerKeeps, AnswerIsLeast, DemandsWithin
<1>2. ASSUME NEW i \in DemandedExports(p, d)
      PROVE  \E k \in DemandedExports(q, d) : q.exports[m][k] = p.exports[m][i]
  <2>1. PICK k \in DOMAIN KeptExports(p, m) : KeptExports(p, m)[k] = i
    BY DemandedHasPlace
  <2>2. k \in DemandedExports(q, d) /\ q.exports[m][k] = p.exports[m][KeptExports(p, m)[k]]
    BY <2>1, DemandedAgain
  <2> QED
    BY <2>1, <2>2
<1>3. \A source : InternalTarget(q, m, "ReExport", source) = InternalTarget(p, m, "ReExport", source)
  BY <1>1, RequestsAnsweredTheSame DEF InternalTarget, Leaves
<1> DEFINE asks(e) == {ForwardedDemand(d, e, n) : n \in
                         IF e.kind \in {"Indirect", "Namespace", "Star"}
                         THEN InternalTarget(p, m, "ReExport", e.source) ELSE {}}
<1>4. /\ Forwarded(p, d) = UNION {asks(p.exports[m][i]) : i \in DemandedExports(p, d)}
      /\ Forwarded(q, d) = UNION {asks(q.exports[m][i]) : i \in DemandedExports(q, d)}
  BY <1>3 DEF Forwarded
<1> HIDE DEF asks
<1>5. Forwarded(p, d) \subseteq Forwarded(q, d)
  BY <1>2, <1>4
<1>6. RequiredBindings(p, d) \subseteq RequiredBindings(q, d)
  BY <1>2 DEF RequiredBindings
<1> QED
  BY <1>5, <1>6

\* What an entry module of p keeps alive it keeps alive in q.
LEMMA EntriesAskAgain ==
  ASSUME NEW p, AnswerKeeps(p), NEW q, Leaves(p, q), ~retained, NEW m \in p.entries
  PROVE  EntryFacts(p, m) \subseteq EntryFacts(q, m)
<1> DEFINE d == NamespaceDemand(m)
<1>1. /\ m \in Evaluated /\ ClosedUnderUse(p, settled, demands)
  BY DEF AnswerKeeps, AnswerIsLeast, EvaluatedIsClosed
<1>2. d \in demands /\ d.module = m /\ d.kind = "Namespace"
  BY <1>1 DEF ClosedUnderUse, InitialDemands, NamespaceDemand
<1> HIDE DEF d
<1>3. ASSUME NEW e \in ToSet(p.exports[m]) PROVE e \in ToSet(q.exports[m])
  <2>1. PICK i \in DOMAIN p.exports[m] : p.exports[m][i] = e
    BY DEF ToSet
  <2>2. i \in DemandedExports(p, d)
    BY <1>2, <2>1 DEF DemandedExports
  <2>3. PICK k \in DOMAIN KeptExports(p, m) : KeptExports(p, m)[k] = i
    BY <1>2, <2>2, DemandedHasPlace
  <2>4. k \in DemandedExports(q, d) /\ q.exports[m][k] = p.exports[m][i]
    BY <1>2, <2>2, <2>3, DemandedAgain
  <2>5. k \in DOMAIN q.exports[m]
    BY <1>2, <2>4 DEF DemandedExports
  <2> QED
    BY <2>1, <2>4, <2>5 DEF ToSet
<1>4. \A source : InternalTarget(q, m, "ReExport", source) = InternalTarget(p, m, "ReExport", source)
  BY <1>1, RequestsAnsweredTheSame DEF InternalTarget, Leaves
<1>5. ExportedBindings(p, m) \subseteq ExportedBindings(q, m)
  BY <1>3 DEF ExportedBindings
<1>6. UseBindings(m, ExportedBindings(p, m)) \subseteq UseBindings(m, ExportedBindings(q, m))
  BY <1>5 DEF UseBindings
<1>7. UNION {InternalTarget(p, m, "ReExport", e.source) :
               e \in {x \in ToSet(p.exports[m]) : x.kind \notin {"Empty", "Local"}}}
        \subseteq UNION {InternalTarget(q, m, "ReExport", e.source) :
                           e \in {x \in ToSet(q.exports[m]) : x.kind \notin {"Empty", "Local"}}}
  BY <1>3, <1>4
<1> QED
  BY <1>6, <1>7 DEF EntryFacts

\* What a fact pushes in p it pushes in q.
LEMMA FactsPushAgain ==
  ASSUME NEW p, AnswerKeeps(p), NEW q, Leaves(p, q), ~retained, NEW f \in settled
  PROVE  Pushed(p, f) \subseteq Pushed(q, f)
<1> DEFINE m == f.module
<1>1. /\ f \in ReachabilityFact /\ m \in Evaluated /\ m \in Module /\ Pushed(p, f) \subseteq settled
      /\ p \in JsProgramIr /\ WellFormed(p)
      /\ q.loads[m] = p.loads[m] /\ q.directEval = p.directEval
      /\ q.bindings[m] = p.bindings[m] \ DeadImportBindings(p, m)
  BY DEF AnswerKeeps, AnswerIsLeast, FactsWithin, Evaluated, ClosedUnderUse, Leaves
<1>2. ASSUME UseBindings(m, p.bindings[m]) \subseteq settled
      PROVE  q.bindings[m] = p.bindings[m]
  <2>1. \A b \in p.bindings[m] : IsBindingLive(m, b)
    BY <1>2 DEF UseBindings, IsBindingLive
  <2>2. \A b \in DeadImportBindings(p, m) : ~IsBindingLive(m, b)
    BY DEF DeadImportBindings, DeadImport
  <2> QED
    BY <1>1, <2>1, <2>2
<1>3. CASE f.kind = "EvaluateModule"
  <2>1. \A kinds : InternalDependencies(q, m, kinds) = InternalDependencies(p, m, kinds)
    <3>1. q.dependencies = {d \in p.dependencies : d.importer \in Evaluated}
      BY DEF Leaves, LeavesExports
    <3> QED
      BY <1>1, <3>1 DEF InternalDependencies
  <2>2. LoadedBindings(q, m) = LoadedBindings(p, m)
    <3>1. CASE m \in p.directEval
      <4>1. UseBindings(m, p.bindings[m]) \subseteq settled
        BY <1>1, <1>3, <3>1 DEF Pushed, FactsOfModule, LoadedBindings
      <4> QED
        BY <1>1, <1>2, <4>1 DEF LoadedBindings
    <3>2. CASE m \notin p.directEval
      BY <1>1, <3>2 DEF LoadedBindings
    <3> QED
      BY <3>1, <3>2
  <2>3. FactsOfModule(q, m) = FactsOfModule(p, m)
    BY <2>1, <2>2 DEF FactsOfModule
  <2> QED
    BY <1>3, <2>3 DEF Pushed
<1>4. CASE f.kind = "UseBinding"
  <2> DEFINE b == f.binding
  <2>1. f = UseBinding(m, b)
    BY <1>1, <1>4 DEF ReachabilityFact, UseBinding
  <2>2. IsBindingLive(m, b)
    BY <2>1 DEF IsBindingLive
  <2> HIDE DEF b
  <2>3. ImportedBinding(p, m, b) \subseteq ImportedBinding(q, m, b)
    <3>1. CASE b \in ImportedBindings(p, m)
      <4>1. PICK i \in p.imports[m] : BindsName(i) /\ i.binding = b
        BY <3>1 DEF ImportedBindings
      <4>2. q.imports[m] = PrunedImports(p, m)
        BY <1>1 DEF Leaves
      <4>3. i \in q.imports[m]
        BY <2>2, <4>1, <4>2 DEF PrunedImports, DeadImport
      <4>4. b \in ImportedBindings(q, m)
        BY <4>1, <4>3 DEF ImportedBindings
      <4> QED
        BY <1>1, <4>4, LinkedAsBefore
    <3>2. CASE b \notin ImportedBindings(p, m)
      BY <3>2 DEF ImportedBindings, ImportedBinding
    <3> QED
      BY <3>1, <3>2
  <2>4. FactsOfBinding(p, m, b) \subseteq FactsOfBinding(q, m, b)
    BY <2>3 DEF FactsOfBinding
  <2> QED
    BY <1>4, <2>4 DEF Pushed, b
<1>5. CASE f.kind = "UseNamespace"
  <2>1. Pushed(p, f) = FactsOfNamespace(p, m) /\ Pushed(q, f) = FactsOfNamespace(q, m)
    BY <1>5 DEF Pushed
  <2>2. UseBindings(m, p.bindings[m]) \subseteq settled
    BY <1>1, <2>1 DEF FactsOfNamespace
  <2> QED
    BY <1>2, <2>1, <2>2 DEF FactsOfNamespace
<1>6. f.kind \in {"EvaluateModule", "UseBinding", "UseNamespace"}
  BY <1>1 DEF ReachabilityFact
<1> QED
  BY <1>3, <1>4, <1>5, <1>6

\* What some of the facts demand in p more facts demand in q.
LEMMA FactsDemandAgain ==
  ASSUME NEW p, AnswerKeeps(p), NEW q, Leaves(p, q), ~retained,
         NEW F, F \subseteq settled, NEW L, F \subseteq L
  PROVE  InitialDemands(p, F) \subseteq InitialDemands(q, L)
<1>1. ASSUME NEW m \in p.modules
      PROVE  ImportDemands(p, m, F) \subseteq UNION {ImportDemands(q, n, L) : n \in q.modules}
  <2> SUFFICES ASSUME NEW i \in p.imports[m], BindsName(i), UseBinding(m, i.binding) \in F,
                      NEW n \in InternalTarget(p, m, "StaticImport", i.source)
               PROVE  \E m0 \in q.modules : ImportDemand(i, n) \in ImportDemands(q, m0, L)
    BY DEF ImportDemands
  <2>1. UseBinding(m, i.binding) \in FactsWithin(p, Evaluated)
    BY DEF AnswerKeeps, AnswerIsLeast
  <2>2. m \in Evaluated /\ m \in q.modules
    BY <2>1 DEF FactsWithin, UseBinding, Leaves, LeavesExports
  <2>3. q.imports[m] = PrunedImports(p, m)
    BY <2>2 DEF Leaves
  <2>4. i \in q.imports[m]
    BY <2>3 DEF PrunedImports, DeadImport, IsBindingLive
  <2>5. n \in InternalTarget(q, m, "StaticImport", i.source)
    BY <2>2, RequestsAnsweredTheSame DEF InternalTarget, Leaves
  <2>6. ImportDemand(i, n) \in ImportDemands(q, m, L)
    BY <2>4, <2>5 DEF ImportDemands
  <2> QED
    BY <2>2, <2>6
<1>2. q.entries = p.entries
  BY DEF Leaves
<1>3. {NamespaceDemand(m) : m \in p.entries \cup {n \in Module : UseNamespace(n) \in F}}
        \subseteq {NamespaceDemand(m) : m \in q.entries \cup {n \in Module : UseNamespace(n) \in L}}
  BY <1>2
<1> QED
  BY <1>1, <1>3 DEF InitialDemands

\* All facts and demands of the answer follow from what is left alone.
LEMMA AnswerStaysLeast ==
  ASSUME NEW p, AnswerKeeps(p), NEW q, Leaves(p, q), ~retained
  PROVE  settled \subseteq LeastFacts(q) /\ demands \subseteq FinalDemands(q, LeastFacts(q))
<1> DEFINE L == LeastFacts(q)
           E == FinalDemands(q, L)
           F == L \cap settled
           D == E \cap demands
<1>1. q \in JsProgramIr /\ q.entries = p.entries
  BY DEF Leaves
<1>2. L \in SUBSET ReachabilityFact /\ E \in SUBSET ExportDemand /\ ClosedUnderUse(q, L, E)
  BY <1>1, LeastFactsHold
<1>3. /\ settled \in SUBSET ReachabilityFact /\ demands \in SUBSET ExportDemand
      /\ ClosedUnderUse(p, settled, demands)
      /\ \A G \in SUBSET ReachabilityFact, H \in SUBSET ExportDemand :
           ClosedUnderUse(p, G, H) => settled \subseteq G /\ demands \subseteq H
  BY DEF AnswerKeeps, AnswerIsLeast
<1> HIDE DEF L, E
<1>4. ClosedUnderUse(p, F, D)
  <2>1. \A m \in p.entries : EntryFacts(p, m) \subseteq F
    BY <1>1, <1>2, <1>3, EntriesAskAgain DEF ClosedUnderUse
  <2>2. \A f \in F : Pushed(p, f) \subseteq F
    BY <1>2, <1>3, FactsPushAgain DEF ClosedUnderUse
  <2>3. InitialDemands(p, F) \subseteq D
    <3>1. InitialDemands(p, F) \subseteq InitialDemands(p, settled)
      BY InitialDemandsMonotonic
    <3>2. InitialDemands(p, F) \subseteq InitialDemands(q, L)
      BY FactsDemandAgain
    <3> QED
      BY <1>2, <1>3, <3>1, <3>2 DEF ClosedUnderUse
  <2>4. ASSUME NEW d \in D
        PROVE  /\ Forwarded(p, d) \subseteq D
               /\ \A x \in RequiredBindings(p, d) : UseBinding(x[1], x[2]) \in F
    <3>1. /\ Forwarded(p, d) \subseteq Forwarded(q, d)
          /\ RequiredBindings(p, d) \subseteq RequiredBindings(q, d)
      BY DemandsAskAgain
    <3> QED
      BY <1>2, <1>3, <3>1 DEF ClosedUnderUse
  <2> QED
    BY <2>1, <2>2, <2>3, <2>4 DEF ClosedUnderUse
<1>5. F \in SUBSET ReachabilityFact /\ D \in SUBSET ExportDemand
  BY <1>2
<1>6. settled \subseteq F /\ demands \subseteq D
  BY <1>3, <1>4, <1>5
<1> QED
  BY <1>6 DEF L, E

\* Analyzed again, the pruned program keeps everything.
LEMMA NothingLeftToPrune ==
  ASSUME NEW p, AnswerKeeps(p), NEW q, Leaves(p, q), ~retained
  PROVE  KeepsEverything(q, CorrectAnswer(q))
<1> DEFINE L == LeastFacts(q)
           gives == \/ \E m \in q.entries : ~EntryExportsResolved(q, m)
                    \/ \E f \in L : GivesUp(q, f)
<1>1. q \in JsProgramIr /\ WellFormed(q) /\ q.modules = Evaluated
  BY DEF Leaves, LeavesExports
<1>2. CASE gives
  <2>1. /\ CorrectAnswer(q).facts = AllFacts(q) /\ CorrectAnswer(q).exports = AllExports(q)
    BY <1>2 DEF CorrectAnswer, AnswerFrom
  <2>2. \A m \in q.modules : ImportedBindings(q, m) \subseteq q.bindings[m]
    BY <1>1 DEF WellFormed
  <2>3. \A m \in q.modules : EvaluateModule(m) \in AllFacts(q)
    BY DEF AllFacts
  <2>4. \A m \in q.modules : \A b \in q.bindings[m] : UseBinding(m, b) \in AllFacts(q)
    BY DEF AllFacts, UseBindings
  <2>5. \A m \in q.modules : \A i \in DOMAIN q.exports[m] : <<m, i>> \in AllExports(q)
    BY DEF AllExports
  <2> QED
    BY <2>1, <2>2, <2>3, <2>4, <2>5 DEF KeepsEverything
<1>3. CASE ~gives
  <2>1. /\ CorrectAnswer(q).facts = L
        /\ CorrectAnswer(q).exports =
             UNION {{d.module} \X DemandedExports(q, d) : d \in FinalDemands(q, L)}
    BY <1>3 DEF CorrectAnswer, AnswerFrom
  <2>2. settled \subseteq L /\ demands \subseteq FinalDemands(q, L)
    BY AnswerStaysLeast
  <2>3. ASSUME NEW m \in q.modules PROVE EvaluateModule(m) \in L
    BY <1>1, <2>2 DEF Evaluated
  <2>4. ASSUME NEW m \in q.modules, NEW b \in ImportedBindings(q, m)
        PROVE  UseBinding(m, b) \in L
    BY <1>1, <2>2, ImportsLeft DEF IsBindingLive
  <2>5. ASSUME NEW m \in q.modules, NEW k \in DOMAIN q.exports[m], q.exports[m][k].kind # "Empty"
        PROVE  \E d \in demands : d.module = m /\ k \in DemandedExports(q, d)
    <3> DEFINE K == KeptExports(p, m)
    <3>1. /\ p \in JsProgramIr /\ m \in Module /\ m \in Evaluated
          /\ liveExports = UNION {{x.module} \X DemandedExports(p, x) : x \in demands}
          /\ q.exports[m] = PrunedExports(p, m)
      BY <1>1 DEF AnswerKeeps, AnswerIsLeast, Evaluated, Leaves, LeavesExports
    <3>2. k \in DOMAIN K /\ IsExportLive(m, K[k])
      <4>1. IsPrunedList(m, p.exports[m], K, PrunedExports(p, m))
        BY <3>1, PrunedExportsHold
      <4> DEFINE e == q.exports[m]
      <4>2. IsPrunedList(m, p.exports[m], K, e) /\ k \in DOMAIN e /\ e[k].kind # "Empty"
        BY <2>5, <3>1, <4>1
      <4> HIDE DEF K, e
      <4> QED
        BY <4>2 DEF IsPrunedList
    <3>3. PICK d \in demands : <<m, K[k]>> \in {d.module} \X DemandedExports(p, d)
      BY <3>1, <3>2 DEF IsExportLive
    <3>4. d.module = m /\ K[k] \in DemandedExports(p, d)
      BY <3>3
    <3>5. k \in DemandedExports(q, d)
      BY <3>2, <3>4, DemandedAgain
    <3> QED
      BY <3>4, <3>5
  <2> HIDE DEF L
  <2>6. ASSUME NEW m \in q.modules, NEW k \in DOMAIN q.exports[m], q.exports[m][k].kind # "Empty"
        PROVE  <<m, k>> \in CorrectAnswer(q).exports
    BY <2>1, <2>2, <2>5, <2>6
  <2> QED
    BY <2>1, <2>3, <2>4, <2>6 DEF KeepsEverything
<1> QED
  BY <1>2, <1>3

\* One pass of pruning is all there is to do: analyzed again, the program it
\* leaves has nothing more to remove.
THEOREM PruningIsFinalAlways == CompileSpec => []PruningIsFinal
<1>1. ASSUME DriverInv PROVE PruningIsFinal
  <2> SUFFICES ASSUME Pruned, ~retained PROVE KeepsEverything(program, CorrectAnswer(program))
    BY DEF PruningIsFinal
  <2>1. AnswerKeeps(InputProgram) /\ Leaves(InputProgram, program)
    BY <1>1, PrunedIsFullyPruned DEF FullyPruned
  <2> QED
    BY <2>1, NothingLeftToPrune
<1> QED
  BY <1>1, DriverAlways, PTL
===============================================================================
