-------------------- MODULE ReachabilityCorrectness_proofs --------------------
(***************************************************************************)
(* Whole-program reachability, for every finite set of modules, bindings   *)
(* and names: the analysis keeps its types, when it has returned its answer*)
(* is closed under the rules of use and no larger than any other set that  *)
(* is, and that answer is the one it owes.  First come lemmas about the    *)
(* rules of use: the facts and demands they yield are facts and demands,   *)
(* there are finitely many of either, and more facts never lead to fewer   *)
(* demands.                                                                *)
(***************************************************************************)
EXTENDS ProgramReachability, ProgramLinkage_proofs

-----------------------------------------------------------------------------
(* Facts                                                                   *)

\* The bindings an export list names are bindings.
LEMMA ExportedBindingTypes ==
  ASSUME NEW p \in JsProgramIr, NEW m \in Module
  PROVE  ExportedBindings(p, m) \subseteq Binding
<1> SUFFICES ASSUME NEW i \in DOMAIN p.exports[m], p.exports[m][i].kind = "Local"
             PROVE  p.exports[m][i].binding \in Binding
  BY DEF ExportedBindings, ToSet
<1> QED
  BY ExportTypes

\* The facts that follow from a fact are facts.
LEMMA PushedTypes ==
  ASSUME NEW p \in JsProgramIr, NEW f \in ReachabilityFact
  PROVE  Pushed(p, f) \in SUBSET ReachabilityFact
<1>1. ASSUME NEW m \in Module PROVE FactsOfModule(p, m) \subseteq ReachabilityFact
  <2>1. LoadedBindings(p, m) \subseteq Binding
    BY ProgramParts DEF LoadedBindings
  <2>2. \A K : InternalDependencies(p, m, K) \subseteq Module
    BY DEF InternalDependencies
  <2> QED
    BY <2>1, <2>2 DEF FactsOfModule, UseBindings, EvaluateModule, UseNamespace, UseBinding,
                      ReachabilityFact
<1>2. ASSUME NEW m \in Module PROVE FactsOfNamespace(p, m) \subseteq ReachabilityFact
  BY ProgramParts DEF FactsOfNamespace, UseBindings, EvaluateModule, UseBinding, ReachabilityFact
<1>3. ASSUME NEW m, NEW b PROVE FactsOfBinding(p, m, b) \subseteq ReachabilityFact
  <2>1. ASSUME NEW t \in ProgramBinding PROVE UseBinding(t[1], t[2]) \in ReachabilityFact
    BY DEF ProgramBinding, UseBinding, ReachabilityFact
  <2>2. ASSUME NEW n \in Module PROVE UseNamespace(n) \in ReachabilityFact
    BY DEF UseNamespace, ReachabilityFact
  <2> QED
    BY <2>1, <2>2 DEF FactsOfBinding
<1>4. /\ f.module \in Module
      /\ f.kind \in {"EvaluateModule", "UseNamespace", "UseBinding"}
  BY DEF ReachabilityFact
<1> QED
  BY <1>1, <1>2, <1>3, <1>4 DEF Pushed

\* The facts an entry module starts with are facts.
LEMMA EntryFactsTypes ==
  ASSUME NEW p \in JsProgramIr, NEW m \in Module
  PROVE  EntryFacts(p, m) \in SUBSET ReachabilityFact
<1>1. ExportedBindings(p, m) \subseteq Binding
  BY ExportedBindingTypes
<1>2. ASSUME NEW s PROVE InternalTarget(p, m, "ReExport", s) \subseteq Module
  BY DEF InternalTarget
<1> QED
  BY <1>1, <1>2 DEF EntryFacts, UseBindings, EvaluateModule, UseNamespace, UseBinding,
                    ReachabilityFact

\* Everything a program holds, taken for settled, is a set of facts.
LEMMA AllFactsTypes ==
  ASSUME NEW p \in JsProgramIr
  PROVE  AllFacts(p) \in SUBSET ReachabilityFact
  BY ProgramParts DEF AllFacts, UseBindings, EvaluateModule, UseBinding, ReachabilityFact

\* There are finitely many facts, since a program has finitely many IDs.
LEMMA FactsAreFinite == IsFiniteSet(ReachabilityFact)
<1> DEFINE Kinds == {"EvaluateModule", "UseNamespace"}
           Whole == [kind : Kinds, module : Module]
           Uses  == [kind : {"UseBinding"}, module : Module, binding : Binding]
<1>1. IsFiniteSet(Kinds \X Module)
  <2>1. IsFiniteSet({"EvaluateModule"} \cup {"UseNamespace"})
    BY FS_Singleton, FS_Union
  <2>2. Kinds = {"EvaluateModule"} \cup {"UseNamespace"}
    OBVIOUS
  <2> QED
    BY <2>1, <2>2, FS_Product, FiniteIds
<1>2. IsFiniteSet(Whole)
  <2> DEFINE g == [f \in Whole |-> <<f.kind, f.module>>]
  <2>1. g \in Injection(Whole, Kinds \X Module)
    BY DEF Injection, IsInjective
  <2> QED
    BY <2>1, <1>1, FS_Injection
<1>3. IsFiniteSet(Module \X Binding)
  BY FS_Product, FiniteIds
<1>4. IsFiniteSet(Uses)
  <2> DEFINE g == [f \in Uses |-> <<f.module, f.binding>>]
  <2>1. g \in Injection(Uses, Module \X Binding)
    BY DEF Injection, IsInjective
  <2> QED
    BY <2>1, <1>3, FS_Injection
<1> QED
  BY <1>2, <1>4, FS_Union DEF ReachabilityFact

-----------------------------------------------------------------------------
(* Demands                                                                 *)

\* A live import demands a name or a namespace.
LEMMA ImportDemandsTypes ==
  ASSUME NEW p \in JsProgramIr, NEW m \in Module, NEW facts
  PROVE  ImportDemands(p, m, facts) \subseteq ExportDemand
<1> SUFFICES ASSUME NEW i \in p.imports[m], BindsName(i),
                    NEW n \in InternalTarget(p, m, "StaticImport", i.source)
             PROVE  ImportDemand(i, n) \in ExportDemand
  BY DEF ImportDemands
<1>1. n \in Module
  BY DEF InternalTarget
<1>2. i \in ModuleImport
  BY ProgramParts
<1>3. /\ i.kind \in {"Default", "Namespace", "Named"}
      /\ i.kind = "Named" => i.imported \in Name
  BY <1>2 DEF ModuleImport, BindsName
<1>4. CASE i.kind = "Default"
  BY <1>1, <1>4, DefaultIsAName DEF ImportDemand, NameDemand, ExportDemand
<1>5. CASE i.kind = "Namespace"
  BY <1>1, <1>5 DEF ImportDemand, NamespaceDemand, ExportDemand
<1>6. CASE i.kind = "Named"
  BY <1>1, <1>3, <1>6 DEF ImportDemand, NameDemand, ExportDemand
<1> QED
  BY <1>3, <1>4, <1>5, <1>6

\* compute_live_exports starts from demands.
LEMMA InitialDemandsTypes ==
  ASSUME NEW p \in JsProgramIr, NEW facts
  PROVE  InitialDemands(p, facts) \in SUBSET ExportDemand
<1>1. \A m \in Module : ImportDemands(p, m, facts) \subseteq ExportDemand
  BY ImportDemandsTypes
<1> QED
  BY <1>1, ProgramParts DEF InitialDemands, NamespaceDemand, ExportDemand

\* The exports a demand makes live are positions of the export list.
LEMMA DemandedExportsTypes ==
  ASSUME NEW p \in JsProgramIr, NEW d \in ExportDemand
  PROVE  /\ d.module \in Module
         /\ DemandedExports(p, d) \subseteq DOMAIN p.exports[d.module]
         /\ DemandedExports(p, d) \subseteq Nat
<1>1. d.module \in Module
  BY DEF ExportDemand
<1>2. DemandedExports(p, d) \subseteq DOMAIN p.exports[d.module]
  BY DEF DemandedExports, ExplicitExport, StarExports
<1> QED
  BY <1>1, <1>2, ExportTypes

\* A demand forwards demands.
LEMMA ForwardedTypes ==
  ASSUME NEW p \in JsProgramIr, NEW d \in ExportDemand
  PROVE  Forwarded(p, d) \in SUBSET ExportDemand
<1> SUFFICES ASSUME NEW i \in DemandedExports(p, d),
                    NEW m \in InternalTarget(p, d.module, "ReExport",
                                             p.exports[d.module][i].source)
             PROVE  ForwardedDemand(d, p.exports[d.module][i], m) \in ExportDemand
  BY DEF Forwarded
<1> DEFINE e == p.exports[d.module][i]
<1>1. m \in Module
  BY DEF InternalTarget
<1>2. i \in DOMAIN p.exports[d.module] /\ d.module \in Module
  BY DemandedExportsTypes
<1>3. e.kind = "Indirect" => e.imported \in Name
  BY <1>2, ExportTypes
<1>4. d.kind = "Name" => d.name \in Name
  BY DEF ExportDemand
<1>5. /\ \A n \in Name : NameDemand(m, n) \in ExportDemand
      /\ NamespaceDemand(m) \in ExportDemand
  BY <1>1 DEF NameDemand, NamespaceDemand, ExportDemand
<1>6. CASE e.kind = "Indirect"
  BY <1>3, <1>5, <1>6 DEF ForwardedDemand
<1>7. CASE e.kind = "Star" /\ d.kind = "Name"
  BY <1>4, <1>5, <1>7 DEF ForwardedDemand
<1>8. CASE e.kind = "Star" /\ d.kind # "Name"
  BY <1>5, <1>8 DEF ForwardedDemand
<1>9. CASE e.kind \notin {"Indirect", "Star"}
  BY <1>5, <1>9 DEF ForwardedDemand
<1> QED
  BY <1>6, <1>7, <1>8, <1>9

\* What a demand requires are bindings of modules.
LEMMA RequiredBindingsTypes ==
  ASSUME NEW p \in JsProgramIr, NEW d \in ExportDemand
  PROVE  RequiredBindings(p, d) \subseteq ProgramBinding
<1> SUFFICES ASSUME NEW i \in DemandedExports(p, d), p.exports[d.module][i].kind = "Local"
             PROVE  <<d.module, p.exports[d.module][i].binding>> \in ProgramBinding
  BY DEF RequiredBindings
<1> QED
  BY DemandedExportsTypes, ExportTypes DEF ProgramBinding

\* There are finitely many demands.
LEMMA DemandsAreFinite == IsFiniteSet(ExportDemand)
<1> DEFINE Names   == [kind : {"Name"}, module : Module, name : Name]
           Spaces  == [kind : {"Namespace"}, module : Module]
<1>1. IsFiniteSet(Module \X Name)
  BY FS_Product, FiniteIds
<1>2. IsFiniteSet(Names)
  <2> DEFINE g == [d \in Names |-> <<d.module, d.name>>]
  <2>1. g \in Injection(Names, Module \X Name)
    BY DEF Injection, IsInjective
  <2> QED
    BY <2>1, <1>1, FS_Injection
<1>3. IsFiniteSet(Spaces)
  <2> DEFINE g == [d \in Spaces |-> d.module]
  <2>1. g \in Injection(Spaces, Module)
    BY DEF Injection, IsInjective
  <2> QED
    BY <2>1, FiniteIds, FS_Injection
<1> QED
  BY <1>2, <1>3, FS_Union DEF ExportDemand

\* More facts never lead to fewer demands.
LEMMA InitialDemandsMonotonic ==
  ASSUME NEW p, NEW F, NEW G, F \subseteq G
  PROVE  InitialDemands(p, F) \subseteq InitialDemands(p, G)
<1>1. \A m \in p.modules : ImportDemands(p, m, F) \subseteq ImportDemands(p, m, G)
  BY DEF ImportDemands
<1> QED
  BY <1>1 DEF InitialDemands

-----------------------------------------------------------------------------
(* The whole program                                                       *)

\* The positions of a program's exports have their type.
LEMMA AllExportsTypes ==
  ASSUME NEW p \in JsProgramIr
  PROVE  AllExports(p) \subseteq Module \X Nat
<1>1. \A m \in p.modules : m \in Module /\ DOMAIN p.exports[m] \subseteq Nat
  BY ProgramParts, ExportTypes
<1> QED
  BY <1>1 DEF AllExports

-----------------------------------------------------------------------------
(* Worklists                                                               *)

\* A batch of items, listed, is a sequence of exactly these items, each once.
LEMMA ListingOfBatch ==
  ASSUME NEW S, IsFiniteSet(S)
  PROVE  /\ Listing(S) \in Seq(S)
         /\ ToSet(Listing(S)) = S
         /\ IsInjective(Listing(S))
<1> DEFINE n == Cardinality(S)
           Orders == {f \in [1..n -> S] : IsInjective(f)}
<1>1. n \in Nat /\ ExistsBijection(1..n, S)
  BY FS_CardinalityType
<1>2. PICK f \in Bijection(1..n, S) : TRUE
  BY <1>1 DEF ExistsBijection
<1>3. f \in [1..n -> S] /\ IsInjective(f)
  BY <1>2 DEF Bijection, Injection, IsInjective
<1>4. Listing(S) \in [1..n -> S] /\ IsInjective(Listing(S))
  BY <1>3 DEF Listing, SetToSeq
<1>5. Listing(S) \in Seq(S)
  BY <1>1, <1>4
<1>6. Listing(S) \in Injection(1..n, S)
  BY <1>4 DEF Injection, IsInjective
<1>7. Cardinality(1..n) = n
  BY <1>1, FS_Interval
<1>8. Listing(S) \in Surjection(1..n, S)
  BY <1>6, <1>7, FS_Injection
<1>9. ToSet(Listing(S)) = S
  BY <1>4, <1>8 DEF ToSet, Surjection
<1> QED
  BY <1>4, <1>5, <1>9

\* A concatenation holds what its parts hold.
LEMMA ConcatenationHolds ==
  ASSUME NEW T, NEW s \in Seq(T), NEW t \in Seq(T)
  PROVE  ToSet(s \o t) = ToSet(s) \cup ToSet(t)
<1>1. /\ DOMAIN s = 1..Len(s) /\ DOMAIN t = 1..Len(t)
      /\ Len(s) \in Nat /\ Len(t) \in Nat
  BY LenProperties
<1>2. /\ s \o t \in Seq(T)
      /\ DOMAIN (s \o t) = 1..(Len(s) + Len(t))
      /\ \A i \in 1..(Len(s) + Len(t)) :
           (s \o t)[i] = IF i <= Len(s) THEN s[i] ELSE t[i - Len(s)]
  BY ConcatProperties, LenProperties
<1>3. ToSet(s \o t) \subseteq ToSet(s) \cup ToSet(t)
  <2> SUFFICES ASSUME NEW i \in 1..(Len(s) + Len(t))
               PROVE  (s \o t)[i] \in ToSet(s) \cup ToSet(t)
    BY <1>2 DEF ToSet
  <2>1. CASE i <= Len(s)
    BY <2>1, <1>1, <1>2 DEF ToSet
  <2>2. CASE ~(i <= Len(s))
    <3>1. i - Len(s) \in 1..Len(t) /\ (s \o t)[i] = t[i - Len(s)]
      BY <2>2, <1>1, <1>2
    <3> QED
      BY <3>1, <1>1 DEF ToSet
  <2> QED
    BY <2>1, <2>2
<1>4. ToSet(s) \subseteq ToSet(s \o t)
  <2> SUFFICES ASSUME NEW i \in 1..Len(s)
               PROVE  s[i] \in ToSet(s \o t)
    BY <1>1 DEF ToSet
  <2>1. i \in 1..(Len(s) + Len(t)) /\ (s \o t)[i] = s[i]
    BY <1>1, <1>2
  <2> QED
    BY <2>1, <1>2 DEF ToSet
<1>5. ToSet(t) \subseteq ToSet(s \o t)
  <2> SUFFICES ASSUME NEW i \in 1..Len(t)
               PROVE  t[i] \in ToSet(s \o t)
    BY <1>1 DEF ToSet
  <2>1. /\ i + Len(s) \in 1..(Len(s) + Len(t))
        /\ ~(i + Len(s) <= Len(s))
        /\ (i + Len(s)) - Len(s) = i
    BY <1>1
  <2>2. (s \o t)[i + Len(s)] = t[i]
    BY <2>1, <1>2
  <2> QED
    BY <2>1, <2>2, <1>2 DEF ToSet
<1> QED
  BY <1>3, <1>4, <1>5

\* Two sequences that share no item, put together, repeat none if neither does.
LEMMA ConcatenationRepeatsNone ==
  ASSUME NEW T, NEW s \in Seq(T), NEW t \in Seq(T), IsInjective(s), IsInjective(t),
         ToSet(s) \cap ToSet(t) = {}
  PROVE  IsInjective(s \o t)
<1>1. /\ DOMAIN s = 1..Len(s) /\ DOMAIN t = 1..Len(t)
      /\ Len(s) \in Nat /\ Len(t) \in Nat
  BY LenProperties
<1>2. /\ DOMAIN (s \o t) = 1..(Len(s) + Len(t))
      /\ \A i \in 1..(Len(s) + Len(t)) :
           (s \o t)[i] = IF i <= Len(s) THEN s[i] ELSE t[i - Len(s)]
  BY ConcatProperties, LenProperties
<1>3. \A i \in 1..(Len(s) + Len(t)) :
        IF i <= Len(s) THEN i \in DOMAIN s /\ (s \o t)[i] = s[i]
        ELSE i - Len(s) \in DOMAIN t /\ (s \o t)[i] = t[i - Len(s)]
  BY <1>1, <1>2
<1> SUFFICES ASSUME NEW i \in 1..(Len(s) + Len(t)), NEW j \in 1..(Len(s) + Len(t)),
                    (s \o t)[i] = (s \o t)[j]
             PROVE  i = j
  BY <1>2 DEF IsInjective
<1>4. i \in Int /\ j \in Int
  OBVIOUS
<1>5. CASE i <= Len(s) /\ j <= Len(s)
  BY <1>3, <1>5 DEF IsInjective
<1>6. CASE ~(i <= Len(s)) /\ ~(j <= Len(s))
  <2>1. i - Len(s) = j - Len(s)
    BY <1>3, <1>6 DEF IsInjective
  <2> QED
    BY <1>1, <1>4, <2>1
<1>7. CASE i <= Len(s) /\ ~(j <= Len(s))
  <2>1. s[i] \in ToSet(s) /\ s[i] \in ToSet(t)
    BY <1>3, <1>7 DEF ToSet
  <2> QED
    BY <2>1
<1>8. CASE ~(i <= Len(s)) /\ j <= Len(s)
  <2>1. s[j] \in ToSet(s) /\ s[j] \in ToSet(t)
    BY <1>3, <1>8 DEF ToSet
  <2> QED
    BY <2>1
<1> QED
  BY <1>5, <1>6, <1>7, <1>8

\* Pushing a batch adds its items, forgets none and repeats none.
LEMMA PushAllHolds ==
  ASSUME NEW T, NEW items \in Seq(T), NEW batch \in SUBSET T, IsFiniteSet(batch)
  PROVE  /\ PushAll(items, batch) \in Seq(T)
         /\ ToSet(PushAll(items, batch)) = ToSet(items) \cup batch
         /\ IsInjective(items) => IsInjective(PushAll(items, batch))
<1> DEFINE new == batch \ ToSet(items)
<1>1. IsFiniteSet(new)
  BY FS_Subset
<1>2. Listing(new) \in Seq(new) /\ ToSet(Listing(new)) = new /\ IsInjective(Listing(new))
  BY <1>1, ListingOfBatch
<1>3. Listing(new) \in Seq(T)
  BY <1>2, SeqMonotonic
<1>4. PushAll(items, batch) \in Seq(T)
  BY <1>3, ConcatProperties DEF PushAll
<1>5. ToSet(items \o Listing(new)) = ToSet(items) \cup ToSet(Listing(new))
  BY <1>3, ConcatenationHolds
<1>6. PushAll(items, batch) = items \o Listing(new)
  BY DEF PushAll
<1>7. ASSUME IsInjective(items) PROVE IsInjective(items \o Listing(new))
  <2>1. ToSet(items) \cap ToSet(Listing(new)) = {}
    BY <1>2
  <2> HIDE DEF new
  <2> QED
    BY <1>2, <1>3, <1>7, <2>1, ConcatenationRepeatsNone
<1> QED
  BY <1>2, <1>4, <1>5, <1>6, <1>7

\* Popping takes away the head and nothing else.
LEMMA PopTakesHead ==
  ASSUME NEW T, NEW items \in Seq(T), ~IsEmpty(items)
  PROVE  /\ Head(items) \in T
         /\ Tail(items) \in Seq(T)
         /\ ToSet(items) = {Head(items)} \cup ToSet(Tail(items))
         /\ IsInjective(items) => IsInjective(Tail(items))
<1>1. items # <<>>
  BY DEF IsEmpty
<1>2. /\ Head(items) \in T /\ Tail(items) \in Seq(T)
      /\ Len(Tail(items)) = Len(items) - 1
      /\ \A i \in 1..Len(Tail(items)) : Tail(items)[i] = items[i + 1]
  BY <1>1, HeadTailProperties
<1>3. /\ Len(items) \in Nat \ {0}
      /\ DOMAIN items = 1..Len(items)
      /\ DOMAIN Tail(items) = 1..(Len(items) - 1)
  BY <1>1, <1>2, EmptySeq, LenProperties
<1>4. Head(items) = items[1]
  BY <1>1
<1>5. ToSet(items) \subseteq {Head(items)} \cup ToSet(Tail(items))
  <2> SUFFICES ASSUME NEW i \in 1..Len(items), i # 1
               PROVE  items[i] \in ToSet(Tail(items))
    BY <1>3, <1>4 DEF ToSet
  <2>1. i - 1 \in 1..(Len(items) - 1) /\ (i - 1) + 1 = i
    BY <1>3
  <2>2. Tail(items)[i - 1] = items[i]
    BY <2>1, <1>2
  <2> QED
    BY <2>1, <2>2, <1>3 DEF ToSet
<1>6. {Head(items)} \cup ToSet(Tail(items)) \subseteq ToSet(items)
  <2>1. \A i \in 1..(Len(items) - 1) : i + 1 \in 1..Len(items)
    BY <1>3
  <2>2. 1 \in 1..Len(items)
    BY <1>3
  <2> QED
    BY <2>1, <2>2, <1>2, <1>3, <1>4 DEF ToSet
<1>7. ASSUME IsInjective(items),
             NEW i \in 1..(Len(items) - 1), NEW j \in 1..(Len(items) - 1),
             Tail(items)[i] = Tail(items)[j]
      PROVE  i = j
  <2>1. /\ i + 1 \in DOMAIN items /\ j + 1 \in DOMAIN items
        /\ items[i + 1] = items[j + 1]
    BY <1>2, <1>3, <1>7
  <2>2. i + 1 = j + 1
    BY <1>7, <2>1 DEF IsInjective
  <2> QED
    BY <2>2
<1>8. IsInjective(items) => IsInjective(Tail(items))
  BY <1>3, <1>7 DEF IsInjective
<1> QED
  BY <1>2, <1>5, <1>6, <1>8

\* Nothing waits in an empty queue.
LEMMA EmptyHolds == ToSet(<<>>) = {} /\ IsInjective(<<>>)
  BY DEF ToSet, IsInjective

-----------------------------------------------------------------------------
(* Facts about a part of the program                                       *)

\* Modules of the program that depend on each other only.
DependOnEachOther(p, M) ==
  M \subseteq p.modules /\ \A m \in M : InternalDependencies(p, m, RequestKind) \subseteq M

\* The facts about these modules and bindings they have.
FactsWithin(p, M) ==
  {f \in ReachabilityFact :
     f.module \in M /\ (f.kind = "UseBinding" => f.binding \in p.bindings[f.module])}

DemandsWithin(M) == {d \in ExportDemand : d.module \in M}

\* What a program must hold for its facts: the bindings its modules name exist.
LEMMA NamedBindingsExist ==
  ASSUME NEW p \in JsProgramIr, WellFormed(p), NEW m \in p.modules
  PROVE  /\ ExportedBindings(p, m) \subseteq p.bindings[m]
         /\ LoadedBindings(p, m) \subseteq p.bindings[m]
  BY DEF WellFormed, LoadedBindings, ReferencedBindings

\* All modules of a program are such modules.
LEMMA ModulesDependOnEachOther ==
  ASSUME NEW p \in JsProgramIr, WellFormed(p)
  PROVE  DependOnEachOther(p, p.modules)
<1> SUFFICES ASSUME NEW m \in p.modules, NEW n \in InternalDependencies(p, m, RequestKind)
             PROVE  n \in p.modules
  BY DEF DependOnEachOther
<1>1. PICK d \in p.dependencies : d.target = [kind |-> "Internal", module |-> n]
  BY DEF InternalDependencies
<1>2. d.target.kind = "Internal" /\ d.target.module = n
  BY <1>1
<1> QED
  BY <1>2 DEF WellFormed

\* A set of modules that static and required dependencies do not leave
\* holds the target of each of its requests.
LEMMA DependenciesLink ==
  ASSUME NEW p \in JsProgramIr, NEW M, DependOnEachOther(p, M)
  PROVE  /\ ClosedUnderLinks(p, M)
         /\ \A m \in M, request \in RequestKind : \A source :
               InternalTarget(p, m, request, source) \subseteq M
<1>1. M \subseteq Module
  BY ProgramParts DEF DependOnEachOther
<1>2. \A m, K : K \subseteq RequestKind =>
        InternalDependencies(p, m, K) \subseteq InternalDependencies(p, m, RequestKind)
  BY DEF InternalDependencies
<1>3. \A m \in M : \A K : K \subseteq RequestKind => InternalDependencies(p, m, K) \subseteq M
  BY <1>2 DEF DependOnEachOther
<1>4. ClosedUnderLinks(p, M)
  BY <1>1, <1>3 DEF ClosedUnderLinks, StaticKinds, RequestKind
<1>5. ASSUME NEW m \in M, NEW request \in RequestKind, NEW source
      PROVE  InternalTarget(p, m, request, source) \subseteq M
  <2>1. InternalTarget(p, m, request, source) \subseteq InternalDependencies(p, m, RequestKind)
    BY TargetsAreDependencies
  <2> QED
    BY <1>3, <2>1
<1> QED
  BY <1>4, <1>5

\* What can be said about such modules with the constructors of facts.
LEMMA FactsOfPart ==
  ASSUME NEW p \in JsProgramIr, NEW M \in SUBSET p.modules, NEW m \in M
  PROVE  /\ EvaluateModule(m) \in FactsWithin(p, M) /\ UseNamespace(m) \in FactsWithin(p, M)
         /\ \A b \in p.bindings[m] : UseBinding(m, b) \in FactsWithin(p, M)
         /\ \A B : B \subseteq p.bindings[m] => UseBindings(m, B) \subseteq FactsWithin(p, M)
<1>1. m \in Module /\ p.bindings[m] \subseteq Binding
  BY ProgramParts
<1>2. EvaluateModule(m) \in FactsWithin(p, M) /\ UseNamespace(m) \in FactsWithin(p, M)
  BY <1>1 DEF FactsWithin, EvaluateModule, UseNamespace, ReachabilityFact
<1>3. \A b \in p.bindings[m] : UseBinding(m, b) \in FactsWithin(p, M)
  BY <1>1 DEF FactsWithin, UseBinding, ReachabilityFact
<1> QED
  BY <1>2, <1>3 DEF UseBindings

\* Whatever follows from facts about such modules is about them again.
LEMMA EntryFactsWithin ==
  ASSUME NEW p \in JsProgramIr, WellFormed(p), NEW M, DependOnEachOther(p, M), NEW m \in M
  PROVE  EntryFacts(p, m) \subseteq FactsWithin(p, M)
<1>1. m \in p.modules /\ M \in SUBSET p.modules
  BY DEF DependOnEachOther
<1>2. UseBindings(m, ExportedBindings(p, m)) \subseteq FactsWithin(p, M)
  BY <1>1, NamedBindingsExist, FactsOfPart
<1>3. \A source : \A n \in InternalTarget(p, m, "ReExport", source) : UseNamespace(n) \in FactsWithin(p, M)
  BY <1>1, DependenciesLink, FactsOfPart DEF RequestKind
<1> QED
  BY <1>1, <1>2, <1>3, FactsOfPart DEF EntryFacts

\* The facts that follow from a fact about such a set are about it too.
LEMMA PushedWithin ==
  ASSUME NEW p \in JsProgramIr, WellFormed(p), NEW M, DependOnEachOther(p, M),
         NEW f \in FactsWithin(p, M)
  PROVE  Pushed(p, f) \subseteq FactsWithin(p, M)
<1> DEFINE m == f.module
<1>1. m \in M /\ m \in p.modules /\ M \in SUBSET p.modules
  BY DEF FactsWithin, DependOnEachOther
<1>2. f.kind \in {"EvaluateModule", "UseNamespace", "UseBinding"}
  BY DEF FactsWithin, ReachabilityFact
<1>3. FactsOfModule(p, m) \subseteq FactsWithin(p, M)
  <2>1. \A n \in InternalDependencies(p, m, RequestKind) : n \in M
    BY <1>1 DEF DependOnEachOther
  <2>2. InternalDependencies(p, m, NamespaceRequests) \subseteq InternalDependencies(p, m, RequestKind)
    BY DEF InternalDependencies, NamespaceRequests, RequestKind
  <2>3. UseBindings(m, LoadedBindings(p, m)) \subseteq FactsWithin(p, M)
    BY <1>1, NamedBindingsExist, FactsOfPart
  <2> QED
    BY <1>1, <2>1, <2>2, <2>3, FactsOfPart DEF FactsOfModule
<1>4. FactsOfNamespace(p, m) \subseteq FactsWithin(p, M)
  BY <1>1, FactsOfPart DEF FactsOfNamespace
<1>5. ASSUME NEW b PROVE FactsOfBinding(p, m, b) \subseteq FactsWithin(p, M)
  <2>1. ClosedUnderLinks(p, M)
    BY DependenciesLink
  <2>2. ASSUME NEW t \in ProgramBinding,
               BindingTarget(t[1], t[2]) \in ImportedBinding(p, m, b)
        PROVE  UseBinding(t[1], t[2]) \in FactsWithin(p, M)
    <3>1. t[1] \in M /\ t[2] \in ExportedBindings(p, t[1])
      BY <1>1, <2>1, <2>2, LinkedWithin
    <3>2. t[2] \in p.bindings[t[1]]
      BY <1>1, <3>1, NamedBindingsExist
    <3> QED
      BY <1>1, <3>1, <3>2, FactsOfPart
  <2>3. ASSUME NEW n \in Module,
               NamespaceTarget([kind |-> "Internal", module |-> n]) \in ImportedBinding(p, m, b)
        PROVE  UseNamespace(n) \in FactsWithin(p, M)
    <3>1. n \in M
      BY <1>1, <2>1, <2>3, LinkedWithin
    <3> QED
      BY <1>1, <3>1, FactsOfPart
  <2> QED
    BY <2>2, <2>3 DEF FactsOfBinding
<1> QED
  BY <1>2, <1>3, <1>4, <1>5 DEF Pushed

\* The demands that facts about such a set raise are about it too.
LEMMA InitialDemandsWithin ==
  ASSUME NEW p \in JsProgramIr, WellFormed(p), NEW M, DependOnEachOther(p, M),
         p.entries \subseteq M, NEW F, F \subseteq FactsWithin(p, M)
  PROVE  InitialDemands(p, F) \subseteq DemandsWithin(M)
<1>1. InitialDemands(p, F) \subseteq ExportDemand
  BY InitialDemandsTypes
<1>2. \A n : NamespaceDemand(n).module = n /\ \A name : NameDemand(n, name).module = n
  BY DEF NamespaceDemand, NameDemand
<1>3. \A n : UseNamespace(n) \in F => n \in M
  BY DEF UseNamespace, FactsWithin
<1>4. ASSUME NEW m \in p.modules, NEW d \in ImportDemands(p, m, F)
      PROVE  d.module \in M
  <2>1. PICK i \in p.imports[m] :
          /\ BindsName(i) /\ UseBinding(m, i.binding) \in F
          /\ \E n \in InternalTarget(p, m, "StaticImport", i.source) : d = ImportDemand(i, n)
    BY <1>4 DEF ImportDemands
  <2>2. PICK n \in InternalTarget(p, m, "StaticImport", i.source) : d = ImportDemand(i, n)
    BY <2>1
  <2>3. m \in M
    BY <2>1 DEF UseBinding, FactsWithin
  <2>4. n \in M
    BY <2>3, DependenciesLink DEF RequestKind
  <2>5. i.kind \in {"Default", "Namespace", "Named"}
    BY <2>1, ProgramParts DEF ModuleImport, BindsName
  <2>6. d.module = n
    BY <1>2, <2>2, <2>5 DEF ImportDemand
  <2> QED
    BY <2>4, <2>6
<1>5. ASSUME NEW d \in InitialDemands(p, F) PROVE d.module \in M
  BY <1>2, <1>3, <1>4 DEF InitialDemands
<1> QED
  BY <1>1, <1>5 DEF DemandsWithin

\* The demands and bindings that a demand in such a set leads to are in it
\* too.
LEMMA ForwardedWithin ==
  ASSUME NEW p \in JsProgramIr, WellFormed(p), NEW M, DependOnEachOther(p, M),
         NEW d \in DemandsWithin(M)
  PROVE  /\ Forwarded(p, d) \subseteq DemandsWithin(M)
         /\ \A x \in RequiredBindings(p, d) : UseBinding(x[1], x[2]) \in FactsWithin(p, M)
<1>1. d \in ExportDemand /\ d.module \in M /\ d.module \in p.modules /\ M \in SUBSET p.modules
  BY DEF DemandsWithin, DependOnEachOther
<1>2. Forwarded(p, d) \subseteq ExportDemand
  BY <1>1, ForwardedTypes
<1>3. ASSUME NEW g \in Forwarded(p, d) PROVE g.module \in M
  <2>1. PICK e, source : \E n \in InternalTarget(p, d.module, "ReExport", source) : g = ForwardedDemand(d, e, n)
    BY DEF Forwarded
  <2>2. PICK n \in InternalTarget(p, d.module, "ReExport", source) : g = ForwardedDemand(d, e, n)
    BY <2>1
  <2>3. n \in M
    BY <1>1, DependenciesLink DEF RequestKind
  <2>4. g.module = n
    BY <2>2 DEF ForwardedDemand, NameDemand, NamespaceDemand
  <2> QED
    BY <2>3, <2>4
<1>4. ASSUME NEW x \in RequiredBindings(p, d)
      PROVE  x[1] = d.module /\ x[2] \in ExportedBindings(p, d.module)
  <2>1. PICK i \in DemandedExports(p, d) :
          /\ p.exports[d.module][i].kind = "Local"
          /\ x = <<d.module, p.exports[d.module][i].binding>>
    BY DEF RequiredBindings
  <2>2. p.exports[d.module][i] \in ToSet(p.exports[d.module])
    BY <1>1, DemandedExportsTypes, ExportTypes
  <2> QED
    BY <2>1, <2>2 DEF ExportedBindings
<1>5. \A x \in RequiredBindings(p, d) : UseBinding(x[1], x[2]) \in FactsWithin(p, M)
  BY <1>1, <1>4, NamedBindingsExist, FactsOfPart
<1> QED
  BY <1>2, <1>3, <1>5 DEF DemandsWithin

-----------------------------------------------------------------------------
(* Lemmas about steps                                                      *)

\* The worklists hold finite batches, so pushing does what it says.
LEMMA PushFacts ==
  ASSUME NEW q \in Seq(ReachabilityFact), NEW batch \in SUBSET ReachabilityFact
  PROVE  /\ PushAll(q, batch) \in Seq(ReachabilityFact)
         /\ ToSet(PushAll(q, batch)) = ToSet(q) \cup batch
         /\ IsInjective(q) => IsInjective(PushAll(q, batch))
<1>1. IsFiniteSet(batch)
  BY FactsAreFinite, FS_Subset
<1> QED
  BY <1>1, PushAllHolds

\* A batch of demands is queued in some order, each of them once.
LEMMA ListDemands ==
  ASSUME NEW q \in Seq(ExportDemand), NEW batch \in SUBSET ExportDemand
  PROVE  /\ Listing(batch) \in Seq(ExportDemand)
         /\ ToSet(Listing(batch)) = batch
         /\ q \o Listing(batch) \in Seq(ExportDemand)
         /\ ToSet(q \o Listing(batch)) = ToSet(q) \cup batch
         /\ IsInjective(Listing(batch))
         /\ IsInjective(q) /\ ToSet(q) \cap batch = {} => IsInjective(q \o Listing(batch))
<1>1. IsFiniteSet(batch)
  BY DemandsAreFinite, FS_Subset
<1>2. /\ Listing(batch) \in Seq(batch) /\ ToSet(Listing(batch)) = batch
      /\ IsInjective(Listing(batch))
  BY <1>1, ListingOfBatch
<1>3. Listing(batch) \in Seq(ExportDemand)
  BY <1>2, SeqMonotonic
<1>4. q \o Listing(batch) \in Seq(ExportDemand)
  BY <1>3, ConcatProperties
<1>5. ToSet(q \o Listing(batch)) = ToSet(q) \cup batch
  BY <1>2, <1>3, ConcatenationHolds
<1>6. IsInjective(q) /\ ToSet(q) \cap batch = {} => IsInjective(q \o Listing(batch))
  BY <1>2, <1>3, ConcatenationRepeatsNone
<1> QED
  BY <1>2, <1>3, <1>4, <1>5, <1>6

\* The facts entry modules start with, and those required bindings ask for.
LEMMA SeedTypes ==
  ASSUME NEW p \in JsProgramIr
  PROVE  UNION {EntryFacts(p, m) : m \in p.entries} \in SUBSET ReachabilityFact
<1>1. \A m \in p.entries : EntryFacts(p, m) \in SUBSET ReachabilityFact
  BY ProgramParts, EntryFactsTypes
<1> QED
  BY <1>1

\* The bindings that met demands require are facts of the program.
LEMMA MissingTypes ==
  ASSUME required \subseteq ProgramBinding
  PROVE  {UseBinding(x[1], x[2]) : x \in MissingBindings} \in SUBSET ReachabilityFact
<1> SUFFICES ASSUME NEW x \in ProgramBinding
             PROVE  UseBinding(x[1], x[2]) \in ReachabilityFact
  BY DEF MissingBindings
<1> QED
  BY DEF ProgramBinding, UseBinding, ReachabilityFact

-----------------------------------------------------------------------------
(* Types                                                                   *)

\* The initial states have their types.
LEMMA TypesInit == Init => TypeOK
  BY ProgramsWellFormed, EmptySeq, EmptyHolds DEF Init, ReachabilityInit, TypeOK

\* Every step keeps them.
LEMMA TypesNext == TypeOK /\ [Next]_vars => TypeOK'
<1> SUFFICES ASSUME TypeOK, [Next]_vars
             PROVE  TypeOK'
  OBVIOUS
<1> USE DEF TypeOK
<1>1. CASE SeedEntries
  <2> DEFINE batch == UNION {EntryFacts(program, m) : m \in program.entries}
  <2>1. <<>> \in Seq(ReachabilityFact) /\ batch \in SUBSET ReachabilityFact
    BY SeedTypes, EmptySeq
  <2>2. queue' = PushAll(<<>>, batch)
    BY <1>1 DEF SeedEntries
  <2> HIDE DEF batch
  <2>3. queue' \in Seq(ReachabilityFact) /\ IsInjective(queue')
    BY <2>1, <2>2, PushFacts, EmptyHolds
  <2> QED
    BY <1>1, <2>3 DEF SeedEntries
<1>2. ASSUME RetainAll PROVE TypeOK'
  BY <1>2, AllFactsTypes, AllExportsTypes, EmptySeq, EmptyHolds DEF RetainAll
<1>3. CASE SkipSettled
  <2>1. queue' \in Seq(ReachabilityFact) /\ IsInjective(queue')
    BY <1>3, PopTakesHead DEF SkipSettled
  <2> QED
    BY <1>3, <2>1 DEF SkipSettled
<1>4. CASE SettleFact
  <2>1. /\ Head(queue) \in ReachabilityFact /\ Tail(queue) \in Seq(ReachabilityFact)
        /\ IsInjective(Tail(queue))
    BY <1>4, PopTakesHead DEF SettleFact
  <2>2. Pushed(program, Head(queue)) \in SUBSET ReachabilityFact
    BY <2>1, PushedTypes
  <2>3. queue' = PushAll(Tail(queue), Pushed(program, Head(queue)))
    BY <1>4 DEF SettleFact
  <2>4. queue' \in Seq(ReachabilityFact) /\ IsInjective(queue')
    BY <2>1, <2>2, <2>3, PushFacts
  <2> QED
    BY <1>4, <2>1, <2>4 DEF SettleFact
<1>5. CASE StartExports
  <2>1. InitialDemands(program, settled) \in SUBSET ExportDemand
    BY InitialDemandsTypes
  <2>2. demandQueue' = Listing(InitialDemands(program, settled))
    BY <1>5 DEF StartExports
  <2>3. /\ demandQueue' \in Seq(ExportDemand) /\ IsInjective(demandQueue')
        /\ ToSet(demandQueue') = InitialDemands(program, settled)
    BY <2>1, <2>2, EmptySeq, ListDemands
  <2> QED
    BY <1>5, <2>1, <2>3 DEF StartExports, IsEmpty
<1>6. CASE MeetDemand
  <2> DEFINE d == Head(demandQueue)
             Rest == Tail(demandQueue)
  <2>1. /\ d \in ExportDemand /\ Rest \in Seq(ExportDemand) /\ IsInjective(Rest)
        /\ ToSet(Rest) \subseteq demands
    BY <1>6, PopTakesHead DEF MeetDemand
  <2>2. NewDemands(d) \in SUBSET ExportDemand /\ NewDemands(d) \cap demands = {}
    BY <2>1, ForwardedTypes DEF NewDemands
  <2>3. demandQueue' = Rest \o Listing(NewDemands(d)) /\ demands' = demands \cup NewDemands(d)
    BY <1>6 DEF MeetDemand
  <2>4. required' \subseteq ProgramBinding
    BY <1>6, <2>1, RequiredBindingsTypes DEF MeetDemand
  <2>5. liveExports' \subseteq Module \X Nat
    BY <1>6, <2>1, DemandedExportsTypes DEF MeetDemand
  <2> HIDE DEF d, Rest
  <2>6. ToSet(Rest) \cap NewDemands(d) = {}
    BY <2>1, <2>2
  <2>7. /\ demandQueue' \in Seq(ExportDemand) /\ IsInjective(demandQueue')
        /\ ToSet(demandQueue') = ToSet(Rest) \cup NewDemands(d)
    BY <2>1, <2>2, <2>3, <2>6, ListDemands
  <2>8. ToSet(demandQueue') \subseteq demands' /\ demands' \subseteq ExportDemand
    BY <2>1, <2>2, <2>3, <2>7
  <2> QED
    BY <1>6, <2>4, <2>5, <2>7, <2>8 DEF MeetDemand
<1>7. CASE RequireBindings
  <2> DEFINE batch == {UseBinding(x[1], x[2]) : x \in MissingBindings}
  <2>1. batch \in SUBSET ReachabilityFact /\ queue' = PushAll(queue, batch)
    BY <1>7, MissingTypes DEF RequireBindings
  <2> HIDE DEF batch
  <2>2. queue' \in Seq(ReachabilityFact) /\ IsInjective(queue')
    BY <2>1, PushFacts
  <2> QED
    BY <1>7, <2>2 DEF RequireBindings, IsEmpty
<1>8. CASE Finish
  BY <1>8 DEF Finish, IsEmpty
<1>9. CASE UNCHANGED vars
  BY <1>9 DEF vars, reachVars
<1> QED
  BY <1>1, <1>2, <1>3, <1>4, <1>5, <1>6, <1>7, <1>8, <1>9
  DEF Next, Analyze, Returned, RetainUnresolvedEntry, RetainUnresolvedFact

\* The variables always have their types, no worklist holds an item twice, and
\* a worklist that is not being worked on is empty.
THEOREM TypeCorrect == Spec => []TypeOK
  BY TypesInit, TypesNext, PTL DEF Spec

-----------------------------------------------------------------------------
(* The answer is closed                                                    *)

\* The inductive invariant.  AnswerIsClosed only speaks of the answer; what
\* carries it there is that every consequence of what has been settled or met
\* is waiting in a worklist, in all the states before.
Inv == TypeOK /\ Accounting

\* At the start nothing is settled and no demand is met.
LEMMA AccountingInit == Init => Accounting
  BY DEF Init, ReachabilityInit, Accounting, FactsAccountedFor, DemandsAccountedFor

\* No step forgets what follows from what it settles or meets.
LEMMA AccountingNext == TypeOK /\ Accounting /\ [Next]_vars => Accounting'
<1> SUFFICES ASSUME TypeOK, Accounting, [Next]_vars
             PROVE  Accounting'
  OBVIOUS
<1>a. CASE RetainAll
  BY <1>a DEF RetainAll, Accounting
<1>b. CASE retained
  <2>1. UNCHANGED vars
    BY <1>b DEF TypeOK, Next, Analyze, Returned, SeedEntries, SkipSettled, SettleFact,
                StartExports, MeetDemand, RequireBindings, Finish, RetainUnresolvedEntry,
                RetainUnresolvedFact
  <2> QED
    BY <1>b, <2>1 DEF vars, reachVars, Accounting
<1> SUFFICES ASSUME ~RetainAll, ~retained
             PROVE  Accounting'
  BY <1>a, <1>b
<1> DEFINE Known == settled \cup ToSet(queue)
<1>0. ~retained /\ ~retained'
  <2>1. UNCHANGED retained
    BY DEF vars, reachVars, Next, Analyze, Returned, SeedEntries, SkipSettled, SettleFact,
           StartExports, MeetDemand, RequireBindings, Finish, RetainUnresolvedEntry,
           RetainUnresolvedFact
  <2> QED
    BY <2>1
<1>1. CASE SeedEntries
  <2> DEFINE batch == UNION {EntryFacts(program, m) : m \in program.entries}
  <2>1. <<>> \in Seq(ReachabilityFact) /\ batch \in SUBSET ReachabilityFact
    BY SeedTypes, EmptySeq DEF TypeOK
  <2>2. ToSet(queue') = batch
    BY <1>1, <2>1, PushFacts, EmptyHolds DEF SeedEntries
  <2>3. ToSet(queue) = {}
    BY <1>1, EmptyHolds DEF SeedEntries, TypeOK
  <2>4. FactsAccountedFor'
    BY <1>0, <1>1, <2>2, <2>3 DEF SeedEntries, Accounting, FactsAccountedFor
  <2> QED
    BY <1>0, <1>1, <2>4 DEF SeedEntries, Accounting, DemandsAccountedFor, ExportsOf
<1>2. CASE SkipSettled
  <2>1. ToSet(queue) = {Head(queue)} \cup ToSet(queue')
    BY <1>2, PopTakesHead DEF SkipSettled, TypeOK
  <2>2. settled' \cup ToSet(queue') = Known
    BY <1>2, <2>1 DEF SkipSettled
  <2>3. FactsAccountedFor'
    BY <1>0, <1>2, <2>2 DEF SkipSettled, Accounting, FactsAccountedFor
  <2> QED
    BY <1>0, <1>2, <2>3 DEF SkipSettled, Accounting, DemandsAccountedFor, ExportsOf
<1>3. CASE SettleFact
  <2> DEFINE f == Head(queue)
  <2>1. /\ f \in ReachabilityFact /\ Tail(queue) \in Seq(ReachabilityFact)
        /\ ToSet(queue) = {f} \cup ToSet(Tail(queue))
    BY <1>3, PopTakesHead DEF SettleFact, TypeOK
  <2>2. Pushed(program, f) \in SUBSET ReachabilityFact
    BY <2>1, PushedTypes DEF TypeOK
  <2>3. ToSet(queue') = ToSet(Tail(queue)) \cup Pushed(program, f)
    BY <1>3, <2>1, <2>2, PushFacts DEF SettleFact
  <2>4. /\ Known \subseteq settled' \cup ToSet(queue')
        /\ Pushed(program, f) \subseteq settled' \cup ToSet(queue')
    BY <1>3, <2>1, <2>3 DEF SettleFact
  <2>5. FactsAccountedFor'
    BY <1>0, <1>3, <2>4 DEF SettleFact, Accounting, FactsAccountedFor
  <2> QED
    BY <1>0, <1>3, <2>5 DEF SettleFact, Accounting, DemandsAccountedFor, ExportsOf
<1>4. CASE StartExports
  <2>1. InitialDemands(program, settled) \in SUBSET ExportDemand
    BY InitialDemandsTypes DEF TypeOK
  <2>2. ToSet(demandQueue') = InitialDemands(program, settled)
    BY <1>4, <2>1, ListDemands, EmptySeq DEF StartExports
  <2>3. DemandsAccountedFor'
    BY <1>4, <2>2 DEF StartExports, DemandsAccountedFor
  <2> QED
    BY <1>0, <1>4, <2>3 DEF StartExports, Accounting, FactsAccountedFor
<1>5. CASE MeetDemand
  <2> DEFINE d == Head(demandQueue)
             Rest == Tail(demandQueue)
  <2>1. /\ d \in ExportDemand /\ Rest \in Seq(ExportDemand)
        /\ ToSet(demandQueue) = {d} \cup ToSet(Rest)
    BY <1>5, PopTakesHead DEF MeetDemand, TypeOK
  <2>2. NewDemands(d) \in SUBSET ExportDemand
    BY <2>1, ForwardedTypes DEF NewDemands, TypeOK
  <2>3. ToSet(demandQueue') = ToSet(Rest) \cup NewDemands(d)
    BY <1>5, <2>1, <2>2, ListDemands DEF MeetDemand
  <2>4. /\ demands' = demands \cup NewDemands(d)
        /\ required' = required \cup RequiredBindings(program, d)
        /\ liveExports' = liveExports \cup ({d.module} \X DemandedExports(program, d))
        /\ UNCHANGED <<program, phase, settled>>
    BY <1>5 DEF MeetDemand
  <2>5. DemandsAccountedFor
    BY <1>0 DEF Accounting
  <2>6. phase = "exports" /\ phase' = "exports"
    BY <1>5 DEF MeetDemand
  <2>7. d \in demands
    BY <2>1, <2>5, <2>6 DEF DemandsAccountedFor
  <2>8. liveExports' \subseteq ExportsOf(demands)'
    BY <2>4, <2>5, <2>6, <2>7 DEF DemandsAccountedFor, ExportsOf
  <2>9. ASSUME NEW e \in demands' \ ToSet(demandQueue')
        PROVE  /\ Forwarded(program, e) \subseteq demands'
               /\ RequiredBindings(program, e) \subseteq required'
               /\ {e.module} \X DemandedExports(program, e) \subseteq liveExports'
    <3>1. CASE e = d
      BY <2>4, <3>1 DEF NewDemands
    <3>2. CASE e # d
      <4>1. e \in demands \ ToSet(demandQueue)
        BY <2>1, <2>3, <2>4, <3>2
      <4> QED
        BY <2>4, <2>5, <2>6, <4>1 DEF DemandsAccountedFor
    <3> QED
      BY <3>1, <3>2
  <2>10. DemandsAccountedFor'
    BY <2>1, <2>3, <2>4, <2>5, <2>6, <2>8, <2>9 DEF DemandsAccountedFor
  <2>11. FactsAccountedFor'
    BY <1>0, <1>5 DEF MeetDemand, Accounting, FactsAccountedFor
  <2> QED
    BY <1>0, <2>6, <2>10, <2>11 DEF Accounting
<1>6. CASE RequireBindings
  <2> DEFINE batch == {UseBinding(x[1], x[2]) : x \in MissingBindings}
  <2>1. batch \in SUBSET ReachabilityFact
    BY MissingTypes DEF TypeOK
  <2>2. ToSet(queue') = ToSet(queue) \cup batch
    BY <1>6, <2>1, PushFacts DEF RequireBindings, TypeOK
  <2>3. FactsAccountedFor'
    BY <1>0, <1>6, <2>2 DEF RequireBindings, Accounting, FactsAccountedFor
  <2> QED
    BY <1>0, <1>6, <2>3 DEF RequireBindings, Accounting, DemandsAccountedFor, ExportsOf
<1>7. CASE Finish
  <2>1. FactsAccountedFor' /\ DemandsAccountedFor'
    BY <1>0, <1>7 DEF Finish, Accounting, FactsAccountedFor, DemandsAccountedFor, ExportsOf
  <2> QED
    BY <1>7, <2>1 DEF Finish, Accounting, MissingBindings, IsBindingLive
<1>8. CASE UNCHANGED vars
  BY <1>8 DEF vars, reachVars, Accounting, FactsAccountedFor, DemandsAccountedFor, ExportsOf,
              MissingBindings, IsBindingLive
<1> QED
  BY <1>0, <1>1, <1>2, <1>3, <1>4, <1>5, <1>6, <1>7, <1>8
  DEF Next, Analyze, Returned, RetainUnresolvedEntry, RetainUnresolvedFact

\* Types and accounting hold throughout.
LEMMA InvAlways == Spec => []Inv
<1>1. Init => Inv
  BY TypesInit, AccountingInit DEF Inv
<1>2. Inv /\ [Next]_vars => Inv'
  BY TypesNext, AccountingNext DEF Inv
<1> QED
  BY <1>1, <1>2, PTL DEF Spec

\* When the analysis returns, both worklists are empty, so what is accounted
\* for is there.
LEMMA InvMeansClosed == Inv => AnswerIsClosed
<1> SUFFICES ASSUME TypeOK, Accounting, phase = "done", ~retained
             PROVE  /\ ClosedUnderUse(program, settled, demands)
                    /\ \A f \in settled : ~GivesUp(program, f)
                    /\ liveExports = ExportsOf(demands)
  BY DEF Inv, AnswerIsClosed
<1>1. ToSet(queue) = {} /\ ToSet(demandQueue) = {}
  BY EmptyHolds DEF TypeOK
<1>2. FactsAccountedFor /\ DemandsAccountedFor /\ MissingBindings = {}
  BY DEF Accounting
<1>3. /\ \A m \in program.entries : EntryFacts(program, m) \subseteq settled
      /\ \A f \in settled : ~GivesUp(program, f) /\ Pushed(program, f) \subseteq settled
  BY <1>1, <1>2 DEF FactsAccountedFor
<1>4. /\ InitialDemands(program, settled) \subseteq demands
      /\ liveExports \subseteq ExportsOf(demands)
      /\ \A d \in demands :
           /\ Forwarded(program, d) \subseteq demands
           /\ RequiredBindings(program, d) \subseteq required
           /\ {d.module} \X DemandedExports(program, d) \subseteq liveExports
  BY <1>1, <1>2 DEF DemandsAccountedFor
<1>5. \A x \in required : UseBinding(x[1], x[2]) \in settled
  BY <1>2 DEF MissingBindings, IsBindingLive
<1>6. liveExports = ExportsOf(demands)
  BY <1>4 DEF ExportsOf
<1> QED
  BY <1>3, <1>4, <1>5, <1>6 DEF ClosedUnderUse

\* The answer of the analysis, unless it is the whole program, is closed under
\* evaluation, use and export forwarding, and none of its facts is undecidable.
THEOREM ClosedAnswer == Spec => []AnswerIsClosed
  BY InvAlways, InvMeansClosed, PTL

-----------------------------------------------------------------------------
(* The answer is the least one                                             *)

\* Either the whole program is kept, for an entry module with an unanswered
\* re-export or for a fact of F that nothing decides, or all that is settled,
\* demanded, required or waiting is in F and D.
WithinReason(F, D) ==
  IF retained
  THEN \/ \E m \in program.entries : ~EntryExportsResolved(program, m)
       \/ \E f \in F : GivesUp(program, f)
  ELSE /\ settled \cup ToSet(queue) \subseteq F
       /\ demands \cup ToSet(demandQueue) \subseteq D
       /\ \A x \in required : UseBinding(x[1], x[2]) \in F

\* That holds for every F and D closed under the rules of use: the analysis
\* never keeps a module, a binding or an export without need.
NothingWithoutNeed ==
  \A F \in SUBSET ReachabilityFact, D \in SUBSET ExportDemand :
    ClosedUnderUse(program, F, D) => WithinReason(F, D)

\* At the start nothing is called live.
LEMMA NeedInit == Init => NothingWithoutNeed
  BY EmptyHolds DEF Init, ReachabilityInit, NothingWithoutNeed, WithinReason

\* No step adds what a closed set does not contain already.
LEMMA NeedStep ==
  ASSUME TypeOK, [Next]_vars,
         NEW F \in SUBSET ReachabilityFact, NEW D \in SUBSET ExportDemand,
         ClosedUnderUse(program, F, D),
         WithinReason(F, D)
  PROVE  WithinReason(F, D)'
<1>1. CASE UNCHANGED vars
  BY <1>1 DEF vars, reachVars, WithinReason
<1>2. CASE RetainUnresolvedEntry
  BY <1>2 DEF RetainUnresolvedEntry, RetainAll, WithinReason
<1> SUFFICES ASSUME Next, ~UNCHANGED vars, ~RetainUnresolvedEntry
             PROVE  WithinReason(F, D)'
  BY <1>1, <1>2
<1>3. ~retained
  BY DEF TypeOK, Next, Analyze, Returned, SeedEntries, SkipSettled, SettleFact,
         StartExports, MeetDemand, RequireBindings, Finish, RetainUnresolvedFact
<1>4. /\ settled \cup ToSet(queue) \subseteq F
      /\ demands \cup ToSet(demandQueue) \subseteq D
      /\ \A x \in required : UseBinding(x[1], x[2]) \in F
  BY <1>3 DEF WithinReason
<1>5. CASE SeedEntries
  <2> DEFINE batch == UNION {EntryFacts(program, m) : m \in program.entries}
  <2>1. <<>> \in Seq(ReachabilityFact) /\ batch \in SUBSET ReachabilityFact
    BY SeedTypes, EmptySeq DEF TypeOK
  <2>2. ToSet(queue') = batch
    BY <1>5, <2>1, PushFacts, EmptyHolds DEF SeedEntries
  <2>3. batch \subseteq F
    BY DEF ClosedUnderUse
  <2> QED
    BY <1>3, <1>4, <1>5, <2>2, <2>3 DEF SeedEntries, WithinReason
<1>6. CASE SkipSettled
  <2>1. ToSet(queue) = {Head(queue)} \cup ToSet(queue')
    BY <1>6, PopTakesHead DEF SkipSettled, TypeOK
  <2> QED
    BY <1>3, <1>4, <1>6, <2>1 DEF SkipSettled, WithinReason
<1>7. CASE SettleFact
  <2> DEFINE f == Head(queue)
  <2>1. /\ f \in ReachabilityFact /\ Tail(queue) \in Seq(ReachabilityFact)
        /\ ToSet(queue) = {f} \cup ToSet(Tail(queue))
    BY <1>7, PopTakesHead DEF SettleFact, TypeOK
  <2>2. ToSet(queue') = ToSet(Tail(queue)) \cup Pushed(program, f)
    BY <1>7, <2>1, PushedTypes, PushFacts DEF SettleFact, TypeOK
  <2>3. f \in F /\ Pushed(program, f) \subseteq F
    BY <1>4, <2>1 DEF ClosedUnderUse
  <2> QED
    BY <1>3, <1>4, <1>7, <2>1, <2>2, <2>3 DEF SettleFact, WithinReason
<1>8. CASE RetainUnresolvedFact
  <2>1. Head(queue) \in F /\ GivesUp(program, Head(queue))
    BY <1>4, <1>8, PopTakesHead DEF RetainUnresolvedFact, TypeOK
  <2> QED
    BY <1>8, <2>1 DEF RetainUnresolvedFact, RetainAll, WithinReason
<1>9. CASE StartExports
  <2>1. ToSet(demandQueue') = InitialDemands(program, settled)
    BY <1>9, InitialDemandsTypes, ListDemands, EmptySeq DEF StartExports, TypeOK
  <2>2. InitialDemands(program, settled) \subseteq D
    BY <1>4, InitialDemandsMonotonic DEF ClosedUnderUse
  <2> QED
    BY <1>3, <1>4, <1>9, <2>1, <2>2 DEF StartExports, WithinReason
<1>10. CASE MeetDemand
  <2> DEFINE d == Head(demandQueue)
  <2>1. /\ d \in ExportDemand /\ Tail(demandQueue) \in Seq(ExportDemand)
        /\ ToSet(demandQueue) = {d} \cup ToSet(Tail(demandQueue))
    BY <1>10, PopTakesHead DEF MeetDemand, TypeOK
  <2>2. NewDemands(d) \in SUBSET ExportDemand
    BY <2>1, ForwardedTypes DEF NewDemands, TypeOK
  <2>3. ToSet(demandQueue') = ToSet(Tail(demandQueue)) \cup NewDemands(d)
    BY <1>10, <2>1, <2>2, ListDemands DEF MeetDemand
  <2>4. /\ NewDemands(d) \subseteq D
        /\ \A x \in RequiredBindings(program, d) : UseBinding(x[1], x[2]) \in F
    BY <1>4, <2>1 DEF ClosedUnderUse, NewDemands
  <2> QED
    BY <1>3, <1>4, <1>10, <2>1, <2>3, <2>4 DEF MeetDemand, WithinReason
<1>11. CASE RequireBindings
  <2> DEFINE batch == {UseBinding(x[1], x[2]) : x \in MissingBindings}
  <2>1. ToSet(queue') = ToSet(queue) \cup batch
    BY <1>11, MissingTypes, PushFacts DEF RequireBindings, TypeOK
  <2>2. batch \subseteq F
    BY <1>4 DEF MissingBindings
  <2> QED
    BY <1>3, <1>4, <1>11, <2>1, <2>2 DEF RequireBindings, WithinReason
<1>12. CASE Finish
  BY <1>3, <1>4, <1>12 DEF Finish, WithinReason
<1> QED
  BY <1>5, <1>6, <1>7, <1>8, <1>9, <1>10, <1>11, <1>12 DEF Next, Analyze, Returned

\* The same for all closed sets at once.
LEMMA NeedNext == TypeOK /\ NothingWithoutNeed /\ [Next]_vars => NothingWithoutNeed'
<1> SUFFICES ASSUME TypeOK, NothingWithoutNeed, [Next]_vars,
                    NEW F \in SUBSET ReachabilityFact, NEW D \in SUBSET ExportDemand,
                    ClosedUnderUse(program', F, D)
             PROVE  WithinReason(F, D)'
  BY DEF NothingWithoutNeed
<1>1. program' = program
  BY DEF vars, Next, Analyze, Returned, SeedEntries, SkipSettled, SettleFact, StartExports,
         MeetDemand, RequireBindings, Finish, RetainUnresolvedEntry, RetainUnresolvedFact,
         RetainAll
<1>2. ClosedUnderUse(program, F, D) /\ WithinReason(F, D)
  BY <1>1 DEF NothingWithoutNeed
<1> QED
  BY <1>2, NeedStep

\* With ClosedAnswer: unless the whole program is kept, the answer is the
\* least set of facts and demands that is closed under the rules of use.
THEOREM LeastAnswer == Spec => []NothingWithoutNeed
  BY TypeCorrect, NeedInit, NeedNext, PTL DEF Spec

-----------------------------------------------------------------------------
(* The least answer                                                        *)

\* Demands are closed by forwarding them.
LEMMA ForwardingCloses ==
  ASSUME NEW p \in JsProgramIr
  PROVE  IsClosing(ExportDemand, ForwardedOnce(p))
<1>1. \A D \in SUBSET ExportDemand :
        D \cup UNION {Forwarded(p, d) : d \in D} \in SUBSET ExportDemand
  BY ForwardedTypes
<1> QED
  BY <1>1 DEF ForwardedOnce, IsClosing

\* DemandClosure is the least set of demands that is closed under forwarding.
LEMMA DemandClosureHolds ==
  ASSUME NEW p \in JsProgramIr, NEW asked \in SUBSET ExportDemand
  PROVE  /\ DemandClosure(p, asked) \in SUBSET ExportDemand
         /\ asked \subseteq DemandClosure(p, asked)
         /\ \A d \in DemandClosure(p, asked) : Forwarded(p, d) \subseteq DemandClosure(p, asked)
         /\ \A D \in SUBSET ExportDemand :
              asked \subseteq D /\ (\A d \in D : Forwarded(p, d) \subseteq D)
                => DemandClosure(p, asked) \subseteq D
<1> DEFINE step == ForwardedOnce(p)
           L == DemandClosure(p, asked)
<1>1. \A D \in SUBSET ExportDemand : step[D] = D \cup UNION {Forwarded(p, d) : d \in D}
  BY DEF ForwardedOnce
<1>2. /\ L \in SUBSET ExportDemand /\ asked \subseteq L /\ step[L] = L
      /\ \A D \in SUBSET ExportDemand : asked \subseteq D /\ step[D] \subseteq D => L \subseteq D
  <2>1. IsClosing(ExportDemand, step)
    BY ForwardingCloses
  <2> HIDE DEF step
  <2> QED
    BY <2>1, DemandsAreFinite, LeastClosedHolds DEF DemandClosure, step
<1> HIDE DEF step, L
<1>3. \A d \in L : Forwarded(p, d) \subseteq L
  BY <1>1, <1>2
<1>4. ASSUME NEW D \in SUBSET ExportDemand,
             asked \subseteq D, \A d \in D : Forwarded(p, d) \subseteq D
      PROVE  L \subseteq D
  BY <1>1, <1>2, <1>4
<1> QED
  BY <1>2, <1>3, <1>4 DEF L

\* The demands a set of facts leads to, and that more facts lead to no fewer.
LEMMA FinalDemandsTypes ==
  ASSUME NEW p \in JsProgramIr, NEW facts
  PROVE  FinalDemands(p, facts) \in SUBSET ExportDemand
  BY InitialDemandsTypes, DemandClosureHolds DEF FinalDemands

\* More facts, more demands.
LEMMA FinalDemandsMonotonic ==
  ASSUME NEW p \in JsProgramIr, NEW F, NEW G, F \subseteq G
  PROVE  FinalDemands(p, F) \subseteq FinalDemands(p, G)
<1>1. InitialDemands(p, F) \in SUBSET ExportDemand /\ InitialDemands(p, G) \in SUBSET ExportDemand
  BY InitialDemandsTypes
<1>2. InitialDemands(p, F) \subseteq FinalDemands(p, G)
  BY <1>1, InitialDemandsMonotonic, DemandClosureHolds DEF FinalDemands
<1>3. /\ FinalDemands(p, G) \in SUBSET ExportDemand
      /\ \A d \in FinalDemands(p, G) : Forwarded(p, d) \subseteq FinalDemands(p, G)
  BY <1>1, DemandClosureHolds DEF FinalDemands
<1> QED
  BY <1>1, <1>2, <1>3, DemandClosureHolds DEF FinalDemands

\* What facts lead to are facts, and more facts lead to no fewer.
LEMMA ConsequencesTypes ==
  ASSUME NEW p \in JsProgramIr, NEW F \in SUBSET ReachabilityFact
  PROVE  Consequences(p, F) \in SUBSET ReachabilityFact
<1>1. UNION {EntryFacts(p, m) : m \in p.entries} \in SUBSET ReachabilityFact
  BY SeedTypes
<1>2. UNION {Pushed(p, f) : f \in F} \in SUBSET ReachabilityFact
  BY PushedTypes
<1>3. ASSUME NEW d \in FinalDemands(p, F), NEW x \in RequiredBindings(p, d)
      PROVE  UseBinding(x[1], x[2]) \in ReachabilityFact
  <2>1. x \in ProgramBinding
    BY FinalDemandsTypes, RequiredBindingsTypes
  <2> QED
    BY <2>1 DEF ProgramBinding, UseBinding, ReachabilityFact
<1> QED
  BY <1>1, <1>2, <1>3 DEF Consequences

\* More facts, more facts that follow: the least set of facts exists.
LEMMA ConsequencesMonotonic ==
  ASSUME NEW p \in JsProgramIr, NEW F, NEW G, F \subseteq G
  PROVE  Consequences(p, F) \subseteq Consequences(p, G)
  BY FinalDemandsMonotonic DEF Consequences

\* Facts are closed by settling them.
LEMMA SettlingCloses ==
  ASSUME NEW p \in JsProgramIr
  PROVE  IsClosing(ReachabilityFact, SettledOnce(p))
<1>1. \A F \in SUBSET ReachabilityFact : F \cup Consequences(p, F) \in SUBSET ReachabilityFact
  BY ConsequencesTypes
<1>2. \A F, G \in SUBSET ReachabilityFact :
        F \subseteq G => F \cup Consequences(p, F) \subseteq G \cup Consequences(p, G)
  BY ConsequencesMonotonic
<1> QED
  BY <1>1, <1>2 DEF SettledOnce, IsClosing

\* The facts of the promised answer, with the demands they lead to, are closed
\* under the rules of use, and no smaller sets are.
LEMMA LeastFactsHold ==
  ASSUME NEW p \in JsProgramIr
  PROVE  /\ LeastFacts(p) \in SUBSET ReachabilityFact
         /\ FinalDemands(p, LeastFacts(p)) \in SUBSET ExportDemand
         /\ ClosedUnderUse(p, LeastFacts(p), FinalDemands(p, LeastFacts(p)))
         /\ \A F \in SUBSET ReachabilityFact, D \in SUBSET ExportDemand :
              ClosedUnderUse(p, F, D) =>
                LeastFacts(p) \subseteq F /\ FinalDemands(p, LeastFacts(p)) \subseteq D
<1> DEFINE step == SettledOnce(p)
           L == LeastFacts(p)
<1>1. \A F \in SUBSET ReachabilityFact : step[F] = F \cup Consequences(p, F)
  BY DEF SettledOnce
<1>2. /\ L \in SUBSET ReachabilityFact /\ step[L] = L
      /\ \A F \in SUBSET ReachabilityFact : step[F] \subseteq F => L \subseteq F
  <2>1. IsClosing(ReachabilityFact, step) /\ {} \in SUBSET ReachabilityFact
    BY SettlingCloses
  <2> HIDE DEF step
  <2> QED
    BY <2>1, FactsAreFinite, LeastClosedHolds DEF LeastFacts, step
<1> HIDE DEF step, L
<1>3. Consequences(p, L) \subseteq L
  BY <1>1, <1>2
<1>4. /\ FinalDemands(p, L) \in SUBSET ExportDemand
      /\ InitialDemands(p, L) \subseteq FinalDemands(p, L)
      /\ \A d \in FinalDemands(p, L) : Forwarded(p, d) \subseteq FinalDemands(p, L)
  BY InitialDemandsTypes, DemandClosureHolds DEF FinalDemands
<1>5. ClosedUnderUse(p, L, FinalDemands(p, L))
  BY <1>3, <1>4 DEF ClosedUnderUse, Consequences
<1>6. ASSUME NEW F \in SUBSET ReachabilityFact, NEW D \in SUBSET ExportDemand,
             ClosedUnderUse(p, F, D)
      PROVE  L \subseteq F /\ FinalDemands(p, L) \subseteq D
  <2>1. FinalDemands(p, F) \subseteq D
    BY <1>6, InitialDemandsTypes, DemandClosureHolds DEF ClosedUnderUse, FinalDemands
  <2>2. Consequences(p, F) \subseteq F
    BY <1>6, <2>1 DEF ClosedUnderUse, Consequences
  <2>3. L \subseteq F
    BY <1>1, <1>2, <2>2
  <2> QED
    BY <2>1, <2>3, FinalDemandsMonotonic
<1> QED
  BY <1>2, <1>4, <1>5, <1>6 DEF L

-----------------------------------------------------------------------------
(* The refinement                                                          *)

\* When the analysis returns, what it answers is the promised answer.
AnswerOwed == phase = "done" => CurrentAnswer = CorrectAnswer(program)

\* The invariants of the worklists give the promised answer: it is closed
\* by the one, and no more than needed by the other.
LEMMA AnswerIsCorrect == Inv /\ NothingWithoutNeed => AnswerOwed
<1> SUFFICES ASSUME Inv, NothingWithoutNeed, phase = "done"
             PROVE  CurrentAnswer = CorrectAnswer(program)
  BY DEF AnswerOwed
<1> DEFINE L == LeastFacts(program)
           D == FinalDemands(program, L)
<1>1. /\ L \in SUBSET ReachabilityFact /\ D \in SUBSET ExportDemand
      /\ ClosedUnderUse(program, L, D)
      /\ \A F \in SUBSET ReachabilityFact, E \in SUBSET ExportDemand :
           ClosedUnderUse(program, F, E) => L \subseteq F /\ D \subseteq E
  BY LeastFactsHold DEF Inv, TypeOK
<1>2. WithinReason(L, D)
  BY <1>1 DEF NothingWithoutNeed
<1> HIDE DEF L, D
<1>3. CASE retained
  <2>1. settled = AllFacts(program) /\ liveExports = AllExports(program)
    BY <1>3 DEF Inv, Accounting
  <2>2. \/ \E m \in program.entries : ~EntryExportsResolved(program, m)
        \/ \E f \in L : GivesUp(program, f)
    BY <1>2, <1>3 DEF WithinReason
  <2> QED
    BY <2>1, <2>2 DEF CurrentAnswer, CorrectAnswer, AnswerFrom, L
<1>4. CASE ~retained
  <2>1. /\ ClosedUnderUse(program, settled, demands)
        /\ \A f \in settled : ~GivesUp(program, f)
        /\ liveExports = ExportsOf(demands)
    BY <1>4, InvMeansClosed DEF AnswerIsClosed
  <2>2. L = settled /\ D = demands
    <3>1. settled \in SUBSET ReachabilityFact /\ demands \in SUBSET ExportDemand
      BY DEF Inv, TypeOK
    <3> QED
      BY <1>1, <1>2, <1>4, <2>1, <3>1 DEF WithinReason
  <2>3. \A m \in program.entries : EntryExportsResolved(program, m)
    BY <1>4 DEF Inv, Accounting, FactsAccountedFor
  <2> QED
    BY <2>1, <2>2, <2>3 DEF CurrentAnswer, CorrectAnswer, AnswerFrom, ExportsOf, L, D
<1> QED
  BY <1>3, <1>4

\* Every step of the two worklists is a stutter of the promise, except for the
\* one that returns: that one gives the answer.
LEMMA StepKeepsPromise ==
  ASSUME AnswerOwed', [Next]_vars
  PROVE  [Promise!Answer]_<<program, CurrentAnswer>>
<1>1. program' = program
  BY DEF vars, Next, Analyze, Returned, SeedEntries, SkipSettled, SettleFact, StartExports,
         MeetDemand, RequireBindings, Finish, RetainUnresolvedEntry, RetainUnresolvedFact,
         RetainAll
<1>2. CASE phase = "done"
  <2>1. UNCHANGED vars
    BY <1>2 DEF Next, Analyze, Returned, SeedEntries, SkipSettled, SettleFact, StartExports,
                MeetDemand, RequireBindings, Finish, RetainUnresolvedEntry, RetainUnresolvedFact
  <2> QED
    BY <2>1 DEF vars, reachVars, CurrentAnswer
<1>3. CASE phase # "done" /\ phase' # "done"
  BY <1>1, <1>3 DEF CurrentAnswer
<1>4. CASE phase # "done" /\ phase' = "done"
  <2>1. CurrentAnswer' = CorrectAnswer(program')
    BY <1>4 DEF AnswerOwed
  <2>2. CurrentAnswer = NoAnswer /\ CurrentAnswer' # NoAnswer
    BY <1>4 DEF CurrentAnswer, NoAnswer
  <2> QED
    BY <1>1, <2>1, <2>2 DEF Promise!Answer
<1> QED
  BY <1>2, <1>3, <1>4

\* The analysis implements its promise: it answers once, with the least set of
\* modules, bindings and exports that is closed under the rules of use, or with
\* the whole program if and only if that least set asks for what the host left
\* open.
THEOREM KeepsPromise == Spec => ImplementsPromise
<1>1. Init => Promise!Init
  BY ProgramsWellFormed DEF Init, ReachabilityInit, Promise!Init, CurrentAnswer
<1>2. AnswerOwed' /\ [Next]_vars => [Promise!Answer]_<<program, CurrentAnswer>>
  BY StepKeepsPromise
<1> QED
  BY <1>1, <1>2, AnswerIsCorrect, InvAlways, LeastAnswer, PTL DEF Spec, ImplementsPromise, Promise!Spec

-----------------------------------------------------------------------------
(* What the answer means for the program                                   *)

\* Facts, demands and requirements are about what the program owns: what it
\* owns is closed under the rules of use.
LEMMA OwnedEntities == Inv /\ NothingWithoutNeed => OnlyOwnedEntities
<1> SUFFICES ASSUME Inv, NothingWithoutNeed PROVE OnlyOwnedEntities
  OBVIOUS
<1> DEFINE F == FactsWithin(program, program.modules)
           D == DemandsWithin(program.modules)
<1>1. program \in JsProgramIr /\ WellFormed(program) /\ program.entries \subseteq program.modules
  BY DEF Inv, TypeOK, WellFormed
<1>2. DependOnEachOther(program, program.modules)
  BY <1>1, ModulesDependOnEachOther
<1>3. F \in SUBSET ReachabilityFact /\ D \in SUBSET ExportDemand
  BY DEF FactsWithin, DemandsWithin
<1>4. ClosedUnderUse(program, F, D)
  <2>1. \A m \in program.entries : EntryFacts(program, m) \subseteq F
    BY <1>1, <1>2, EntryFactsWithin
  <2>2. \A f \in F : Pushed(program, f) \subseteq F
    BY <1>1, <1>2, PushedWithin
  <2>3. InitialDemands(program, F) \subseteq D
    BY <1>1, <1>2, InitialDemandsWithin
  <2>4. \A d \in D : /\ Forwarded(program, d) \subseteq D
                     /\ \A x \in RequiredBindings(program, d) : UseBinding(x[1], x[2]) \in F
    BY <1>1, <1>2, ForwardedWithin
  <2> QED
    BY <2>1, <2>2, <2>3, <2>4 DEF ClosedUnderUse
<1>5. WithinReason(F, D)
  BY <1>3, <1>4 DEF NothingWithoutNeed
<1>6. \A f \in F : /\ f.module \in program.modules
                   /\ f.kind = "UseBinding" => f.binding \in program.bindings[f.module]
  BY DEF FactsWithin
<1>7. \A d \in D : d \in ExportDemand /\ d.module \in program.modules
  BY DEF DemandsWithin
<1>8. CASE ~retained
  <2>1. ToSet(queue) \cup settled \subseteq F /\ demands \subseteq D
    BY <1>5, <1>8 DEF WithinReason
  <2>2. ASSUME NEW x \in required
        PROVE  x[1] \in program.modules /\ x[2] \in program.bindings[x[1]]
    <3> DEFINE f == UseBinding(x[1], x[2])
    <3>1. f \in F
      BY <1>5, <1>8 DEF WithinReason
    <3>2. f.module = x[1] /\ f.binding = x[2] /\ f.kind = "UseBinding"
      BY DEF UseBinding
    <3> HIDE DEF f, F
    <3> QED
      BY <1>6, <3>1, <3>2
  <2>3. liveExports \subseteq AllExports(program)
    <3>1. liveExports \subseteq ExportsOf(demands)
      BY <1>8 DEF Inv, Accounting, DemandsAccountedFor
    <3>2. ExportsOf(demands) \subseteq AllExports(program)
      BY <1>1, <1>7, <2>1, DemandedExportsTypes DEF ExportsOf, AllExports
    <3> QED
      BY <3>1, <3>2
  <2> QED
    BY <1>6, <1>7, <2>1, <2>2, <2>3 DEF OnlyOwnedEntities
<1>9. CASE retained
  <2>1. /\ settled = AllFacts(program) /\ liveExports = AllExports(program)
        /\ demands = {} /\ required = {}
    BY <1>9 DEF Inv, Accounting
  <2>2. ToSet(queue) = {}
    BY <1>9, EmptyHolds DEF Inv, TypeOK
  <2>3. \A m, b : /\ EvaluateModule(m).module = m /\ EvaluateModule(m).kind # "UseBinding"
                  /\ UseBinding(m, b).module = m /\ UseBinding(m, b).binding = b
    BY DEF EvaluateModule, UseBinding
  <2>4. \A f \in settled : /\ f.module \in program.modules
                           /\ f.kind = "UseBinding" => f.binding \in program.bindings[f.module]
    BY <2>1, <2>3 DEF AllFacts, UseBindings
  <2> QED
    BY <2>1, <2>2, <2>4 DEF OnlyOwnedEntities
<1> QED
  BY <1>8, <1>9

\* What the answer is, unless it is the whole program: closed under the rules,
\* and within all sets that are.
LEMMA AnswerFacts ==
  ASSUME Inv, NothingWithoutNeed, Answered
  PROVE  /\ program \in JsProgramIr /\ WellFormed(program)
         /\ settled \in SUBSET ReachabilityFact /\ demands \in SUBSET ExportDemand
         /\ ClosedUnderUse(program, settled, demands)
         /\ \A F \in SUBSET ReachabilityFact, D \in SUBSET ExportDemand :
              ClosedUnderUse(program, F, D) => settled \subseteq F /\ demands \subseteq D
<1>1. program \in JsProgramIr /\ WellFormed(program)
  BY DEF Inv, TypeOK
<1>2. settled \in SUBSET ReachabilityFact /\ demands \in SUBSET ExportDemand
  BY DEF Inv, TypeOK
<1>3. ClosedUnderUse(program, settled, demands)
  BY InvMeansClosed DEF AnswerIsClosed, Answered
<1>4. ASSUME NEW F \in SUBSET ReachabilityFact, NEW D \in SUBSET ExportDemand,
             ClosedUnderUse(program, F, D)
      PROVE  settled \subseteq F /\ demands \subseteq D
  BY <1>4 DEF NothingWithoutNeed, WithinReason, Answered
<1> QED
  BY <1>1, <1>2, <1>3, <1>4

\* Every fact of the answer is about an evaluated module: the facts that are
\* would do.
Evaluated == {m \in Module : EvaluateModule(m) \in settled}

\* Every fact and every demand of an answer is about an evaluated module,
\* since the facts about evaluated modules are closed.
LEMMA FactsAreEvaluated ==
  ASSUME Inv, NothingWithoutNeed, Answered
  PROVE  /\ settled \subseteq FactsWithin(program, Evaluated)
         /\ demands \subseteq DemandsWithin(Evaluated)
<1> DEFINE F == settled \cap FactsWithin(program, Evaluated)
           D == demands \cap DemandsWithin(Evaluated)
<1>1. /\ program \in JsProgramIr /\ WellFormed(program)
      /\ settled \in SUBSET ReachabilityFact /\ demands \in SUBSET ExportDemand
      /\ ClosedUnderUse(program, settled, demands)
      /\ \A G \in SUBSET ReachabilityFact, E \in SUBSET ExportDemand :
           ClosedUnderUse(program, G, E) => settled \subseteq G /\ demands \subseteq E
  BY AnswerFacts
<1>2. DependOnEachOther(program, Evaluated)
  <2>1. Evaluated \subseteq program.modules
    BY OwnedEntities DEF OnlyOwnedEntities, Evaluated, EvaluateModule
  <2>2. ASSUME NEW m \in Evaluated, NEW n \in InternalDependencies(program, m, RequestKind)
        PROVE  n \in Evaluated
    <3> DEFINE f == EvaluateModule(m)
    <3>1. f \in settled /\ f.kind = "EvaluateModule" /\ f.module = m
      BY DEF Evaluated, EvaluateModule
    <3>2. EvaluateModule(n) \in Pushed(program, f)
      BY <3>1 DEF Pushed, FactsOfModule
    <3>3. n \in Module
      BY DEF InternalDependencies
    <3> QED
      BY <1>1, <3>1, <3>2, <3>3 DEF ClosedUnderUse, Evaluated
  <2> QED
    BY <2>1, <2>2 DEF DependOnEachOther
<1>3. program.entries \subseteq Evaluated
  <2> SUFFICES ASSUME NEW m \in program.entries PROVE m \in Evaluated
    OBVIOUS
  <2>1. EvaluateModule(m) \in EntryFacts(program, m) /\ m \in Module
    BY <1>1, ProgramParts DEF EntryFacts
  <2> QED
    BY <1>1, <2>1 DEF ClosedUnderUse, Evaluated
<1> HIDE DEF Evaluated
<1>4. ClosedUnderUse(program, F, D)
  <2>1. \A m \in program.entries : EntryFacts(program, m) \subseteq F
    BY <1>1, <1>2, <1>3, EntryFactsWithin DEF ClosedUnderUse
  <2>2. \A f \in F : Pushed(program, f) \subseteq F
    BY <1>1, <1>2, PushedWithin DEF ClosedUnderUse
  <2>3. InitialDemands(program, F) \subseteq D
    <3>1. InitialDemands(program, F) \subseteq InitialDemands(program, settled)
      BY InitialDemandsMonotonic
    <3>2. InitialDemands(program, F) \subseteq DemandsWithin(Evaluated)
      BY <1>1, <1>2, <1>3, InitialDemandsWithin
    <3> QED
      BY <1>1, <3>1, <3>2 DEF ClosedUnderUse
  <2>4. \A d \in D : /\ Forwarded(program, d) \subseteq D
                     /\ \A x \in RequiredBindings(program, d) : UseBinding(x[1], x[2]) \in F
    BY <1>1, <1>2, ForwardedWithin DEF ClosedUnderUse
  <2> QED
    BY <2>1, <2>2, <2>3, <2>4 DEF ClosedUnderUse
<1> QED
  BY <1>1, <1>4

\* A binding that is live is one of an evaluated module, and so is what it is
\* linked to.
LEMMA LiveBindingsEvaluated ==
  ASSUME Inv, NothingWithoutNeed, Answered, NEW m, NEW b, IsBindingLive(m, b)
  PROVE  IsModuleEvaluated(m)
<1>1. UseBinding(m, b) \in FactsWithin(program, Evaluated)
  BY FactsAreEvaluated DEF IsBindingLive
<1>2. m \in Evaluated
  BY <1>1 DEF FactsWithin, UseBinding
<1> QED
  BY <1>2 DEF Evaluated, IsModuleEvaluated

\* In the answer an entry module is evaluated, and so is every module that a
\* dependency of an evaluated module leads to.
LEMMA EvaluationFollowsDependencies ==
  ASSUME Inv, phase = "done"
  PROVE  /\ \A m \in program.entries : IsModuleEvaluated(m)
         /\ \A d \in program.dependencies :
              IsModuleEvaluated(d.importer) /\ d.target.kind = "Internal"
                => IsModuleEvaluated(d.target.module)
<1>1. program \in JsProgramIr /\ WellFormed(program)
  BY DEF Inv, TypeOK
<1>2. CASE retained
  <2>1. settled = AllFacts(program)
    BY <1>2 DEF Inv, Accounting
  <2>2. \A m \in program.modules : IsModuleEvaluated(m)
    BY <2>1 DEF AllFacts, IsModuleEvaluated
  <2> QED
    BY <1>1, <2>2 DEF WellFormed
<1>3. CASE ~retained
  <2>1. ClosedUnderUse(program, settled, demands)
    BY <1>3, InvMeansClosed DEF AnswerIsClosed
  <2>2. ASSUME NEW m \in program.entries PROVE IsModuleEvaluated(m)
    BY <2>1 DEF ClosedUnderUse, EntryFacts, IsModuleEvaluated
  <2>3. ASSUME NEW d \in program.dependencies, IsModuleEvaluated(d.importer),
               d.target.kind = "Internal"
        PROVE  IsModuleEvaluated(d.target.module)
    <3>1. /\ d.importer \in Module
          /\ d.request \in RequestKind
          /\ d.target \in ModuleTarget
      BY <1>1, ProgramParts DEF ModuleDependency
    <3>2. /\ d.target.module \in Module
          /\ d.target = [kind |-> "Internal", module |-> d.target.module]
      BY <2>3, <3>1 DEF ModuleTarget
    <3>3. d.target.module \in InternalDependencies(program, d.importer, RequestKind)
      BY <3>1, <3>2 DEF InternalDependencies
    <3>4. EvaluateModule(d.target.module) \in FactsOfModule(program, d.importer)
      BY <3>3 DEF FactsOfModule
    <3>5. FactsOfModule(program, d.importer) = Pushed(program, EvaluateModule(d.importer))
      BY DEF Pushed, EvaluateModule
    <3> QED
      BY <2>1, <2>3, <3>4, <3>5 DEF ClosedUnderUse, IsModuleEvaluated
  <2> QED
    BY <2>2, <2>3
<1> QED
  BY <1>2, <1>3

\* In the answer every binding is live that an evaluated module reads.
LEMMA ReadsAreLive ==
  ASSUME Inv, phase = "done", NEW m \in program.modules, IsModuleEvaluated(m)
  PROVE  \A b \in ReadBindings(program, m) : IsBindingLive(m, b)
<1>1. program \in JsProgramIr /\ WellFormed(program)
  BY DEF Inv, TypeOK
<1>2. ReadBindings(program, m) \subseteq program.bindings[m]
  BY <1>1 DEF ReadBindings, WellFormed, ReferencedBindings
<1>3. CASE retained
  <2>1. settled = AllFacts(program)
    BY <1>3 DEF Inv, Accounting
  <2>2. \A b \in program.bindings[m] : IsBindingLive(m, b)
    BY <2>1 DEF AllFacts, IsBindingLive, UseBindings
  <2> QED
    BY <1>2, <2>2
<1>4. CASE ~retained
  <2>1. ClosedUnderUse(program, settled, demands)
    BY <1>4, InvMeansClosed DEF AnswerIsClosed
  <2>2. ReadBindings(program, m) \subseteq LoadedBindings(program, m)
    BY <1>2 DEF ReadBindings, LoadedBindings
  <2>3. UseBindings(m, LoadedBindings(program, m)) \subseteq FactsOfModule(program, m)
    BY DEF FactsOfModule
  <2>4. FactsOfModule(program, m) = Pushed(program, EvaluateModule(m))
    BY DEF Pushed, EvaluateModule
  <2>5. UseBindings(m, LoadedBindings(program, m)) \subseteq settled
    BY <2>1, <2>3, <2>4 DEF ClosedUnderUse, IsModuleEvaluated
  <2> QED
    BY <2>2, <2>5 DEF UseBindings, IsBindingLive
<1> QED
  BY <1>3, <1>4

\* When everything is retained, what an import is linked to is part of it.
LEMMA RetainedIsLinked ==
  ASSUME Inv, retained, NEW m, NEW b, IsBindingLive(m, b)
  PROVE  /\ IsModuleEvaluated(m)
         /\ \A t \in ProgramBinding :
              BindingTarget(t[1], t[2]) \in ImportedBinding(program, m, b) => IsBindingLive(t[1], t[2])
<1>1. program \in JsProgramIr /\ WellFormed(program) /\ settled = AllFacts(program)
  BY DEF Inv, TypeOK, Accounting
<1>2. m \in program.modules
  <2> DEFINE f == UseBinding(m, b)
  <2>1. f \in AllFacts(program) /\ f.kind = "UseBinding" /\ f.module = m
    BY <1>1 DEF IsBindingLive, UseBinding
  <2>2. \A n : EvaluateModule(n).kind = "EvaluateModule"
    BY DEF EvaluateModule
  <2>3. PICK n \in program.modules : f \in UseBindings(n, program.bindings[n])
    BY <2>1, <2>2 DEF AllFacts
  <2>4. f.module = n
    BY <2>3 DEF UseBindings, UseBinding
  <2> QED
    BY <2>1, <2>3, <2>4
<1>3. \A n \in program.modules :
        IsModuleEvaluated(n) /\ \A c \in program.bindings[n] : IsBindingLive(n, c)
  BY <1>1 DEF AllFacts, UseBindings, IsModuleEvaluated, IsBindingLive
<1>4. ASSUME NEW t \in ProgramBinding,
             BindingTarget(t[1], t[2]) \in ImportedBinding(program, m, b)
      PROVE  IsBindingLive(t[1], t[2])
  <2>1. ClosedUnderLinks(program, program.modules)
    BY <1>1, ModulesDependOnEachOther, DependenciesLink
  <2>2. t[1] \in program.modules /\ t[2] \in ExportedBindings(program, t[1])
    BY <1>1, <1>2, <1>4, <2>1, LinkedWithin
  <2>3. t[2] \in program.bindings[t[1]]
    BY <1>1, <2>2, NamedBindingsExist
  <2> QED
    BY <1>3, <2>2, <2>3
<1> QED
  BY <1>2, <1>3, <1>4

\* In an answer, nothing that runs is left out, and what a live import is linked
\* to is live.
LEMMA UsesAreLinked == Inv /\ NothingWithoutNeed => UsedBindingsLinked
<1> SUFFICES ASSUME Inv, NothingWithoutNeed, phase = "done"
             PROVE  UsedBindingsLinked
  BY DEF UsedBindingsLinked
<1>1. /\ \A m \in program.entries : IsModuleEvaluated(m)
      /\ \A d \in program.dependencies :
           IsModuleEvaluated(d.importer) /\ d.target.kind = "Internal" =>
             IsModuleEvaluated(d.target.module)
  BY EvaluationFollowsDependencies
<1>2. \A m \in program.modules : \A b \in ReadBindings(program, m) :
        IsModuleEvaluated(m) => IsBindingLive(m, b)
  BY ReadsAreLive
<1>3. ASSUME NEW m \in program.modules, NEW b \in Binding, IsBindingLive(m, b)
      PROVE  /\ IsModuleEvaluated(m)
             /\ \A t \in ProgramBinding :
                  BindingTarget(t[1], t[2]) \in ImportedBinding(program, m, b) =>
                    IsBindingLive(t[1], t[2])
  <2>1. CASE retained
    BY <1>3, <2>1, RetainedIsLinked
  <2>2. CASE ~retained
    <3> DEFINE f == UseBinding(m, b)
    <3>1. Answered
      BY <2>2 DEF Answered
    <3>2. f \in settled /\ f.kind = "UseBinding" /\ f.module = m /\ f.binding = b
      BY <1>3 DEF IsBindingLive, UseBinding
    <3>3. FactsOfBinding(program, m, b) \subseteq settled
      BY <3>1, <3>2, AnswerFacts DEF ClosedUnderUse, Pushed
    <3> QED
      BY <1>3, <3>1, <3>3, LiveBindingsEvaluated DEF FactsOfBinding, IsBindingLive
  <2> QED
    BY <2>1, <2>2
<1> QED
  BY <1>1, <1>2, <1>3 DEF UsedBindingsLinked

\* The names that are demanded of a module, one by one or with its namespace.
DemandedPairs ==
  {x \in Pair : NameDemand(x[1], x[2]) \in demands \/ NamespaceDemand(x[1]) \in demands}

\* An export that a demanded name is looked up through is demanded.
LEMMA LookedUpIsDemanded ==
  ASSUME program \in JsProgramIr, NEW x \in DemandedPairs,
         NEW e \in LookedUp(program, x[1], x[2])
  PROVE  \E d \in demands, i \in DOMAIN program.exports[x[1]] :
           /\ d.module = x[1] /\ program.exports[x[1]][i] = e /\ i \in DemandedExports(program, d)
           /\ d.kind = "Namespace" \/ (d.kind = "Name" /\ d.name = x[2])
<1> DEFINE m == x[1]
           name == x[2]
           d == IF NamespaceDemand(m) \in demands THEN NamespaceDemand(m) ELSE NameDemand(m, name)
<1>1. d \in demands /\ m \in Module /\ name \in Name
  BY DEF DemandedPairs, Pair
<1>2. PICK i \in DOMAIN program.exports[m] :
        /\ program.exports[m][i] = e
        /\ \/ i \in ExplicitExport(program, m, name)
           \/ /\ ExplicitExport(program, m, name) = {} /\ name # "default"
              /\ i \in StarExports(program, m)
  <2>1. CASE ExplicitExport(program, m, name) # {} \/ name = "default"
    <3>1. PICK i \in ExplicitExport(program, m, name) : program.exports[m][i] = e
      BY <2>1 DEF LookedUp
    <3> QED
      BY <3>1 DEF ExplicitExport
  <2>2. CASE ExplicitExport(program, m, name) = {} /\ name # "default"
    <3>1. e \in ToSet(program.exports[m]) /\ e.kind = "Star"
      BY <2>2 DEF LookedUp
    <3> QED
      BY <2>2, <3>1 DEF ToSet, StarExports
  <2> QED
    BY <2>1, <2>2
<1>3. CASE NamespaceDemand(m) \in demands
  <2>1. d.kind = "Namespace" /\ d.module = m
    BY <1>3 DEF NamespaceDemand
  <2>2. i \in DemandedExports(program, d)
    BY <1>2, <2>1 DEF DemandedExports
  <2> HIDE DEF d, m, name
  <2>3. d.module = x[1]
    BY <2>1 DEF m
  <2> QED
    BY <1>1, <1>2, <2>1, <2>2, <2>3 DEF m
<1>4. CASE NamespaceDemand(m) \notin demands
  <2>1. d.kind = "Name" /\ d.module = m /\ d.name = name
    BY <1>4 DEF NameDemand
  <2>2. i \in DemandedExports(program, d)
    BY <1>2, <2>1 DEF DemandedExports
  <2> QED
    BY <1>1, <1>2, <2>1, <2>2
<1> QED
  BY <1>3, <1>4

\* What the exports found under a demanded name lead to is demanded in turn.
LEMMA DemandsAreForwarded ==
  ASSUME Inv, NothingWithoutNeed, Answered, NEW x \in DemandedPairs,
         NEW e \in LookedUp(program, x[1], x[2]),
         e.kind \in {"Indirect", "Star", "Namespace"},
         NEW n \in InternalTarget(program, x[1], "ReExport", e.source)
  PROVE  /\ e.kind = "Namespace" => NamespaceDemand(n) \in demands
         /\ e.kind # "Namespace" =>
              \/ NameDemand(n, NameBehind(e, x[2])) \in demands
              \/ NamespaceDemand(n) \in demands
<1>1. PICK d \in demands, i \in DOMAIN program.exports[x[1]] :
        /\ d.module = x[1] /\ program.exports[x[1]][i] = e /\ i \in DemandedExports(program, d)
        /\ d.kind = "Namespace" \/ (d.kind = "Name" /\ d.name = x[2])
  BY AnswerFacts, LookedUpIsDemanded
<1>2. ForwardedDemand(d, e, n) \in Forwarded(program, d)
  BY <1>1 DEF Forwarded
<1>3. ForwardedDemand(d, e, n) \in demands
  BY <1>2, AnswerFacts DEF ClosedUnderUse
<1>4. CASE e.kind = "Indirect"
  BY <1>3, <1>4 DEF ForwardedDemand, NameBehind
<1>5. CASE e.kind = "Star" /\ d.kind = "Name"
  BY <1>1, <1>3, <1>5 DEF ForwardedDemand, NameBehind
<1>6. CASE e.kind = "Star" /\ d.kind # "Name"
  BY <1>3, <1>6 DEF ForwardedDemand
<1>7. CASE e.kind = "Namespace"
  BY <1>3, <1>7 DEF ForwardedDemand
<1> QED
  BY <1>4, <1>5, <1>6, <1>7

\* The demanded exports are closed under re-exports.
LEMMA DemandedPairsFollow ==
  ASSUME Inv, NothingWithoutNeed, Answered
  PROVE  FollowsReExports(program, DemandedPairs)
<1> SUFFICES ASSUME NEW x \in DemandedPairs, NEW e \in LookedUp(program, x[1], x[2]),
                    NEW y \in ExportLeadsTo(program, x[1], e, x[2])
             PROVE  y \in DemandedPairs
  BY DEF FollowsReExports, DemandedPairs, PairLeadsTo
<1>1. program \in JsProgramIr /\ x \in Pair /\ x[1] \in Module /\ x[2] \in Name
  BY AnswerFacts DEF DemandedPairs, Pair
<1>2. /\ e.kind \in {"Indirect", "Star"}
      /\ y \in InternalTarget(program, x[1], "ReExport", e.source) \X {NameBehind(e, x[2])}
  BY DEF ExportLeadsTo
<1>3. PICK n \in InternalTarget(program, x[1], "ReExport", e.source) :
        y = <<n, NameBehind(e, x[2])>>
  BY <1>2
<1>4. NameBehind(e, x[2]) \in Name /\ n \in Module
  BY <1>1, LookedUpTypes DEF InternalTarget
<1>5. NameDemand(n, NameBehind(e, x[2])) \in demands \/ NamespaceDemand(n) \in demands
  BY <1>2, DemandsAreForwarded
<1> QED
  BY <1>3, <1>4, <1>5 DEF DemandedPairs, Pair

\* The modules of the program whose namespace is demanded.
DemandedNamespaces == {m \in program.modules : NamespaceDemand(m) \in demands}

\* A name that is looked up in one of them leads to a demanded name.
LEMMA ResolvedIsDemanded ==
  ASSUME Inv, NothingWithoutNeed, Answered, NEW m \in DemandedNamespaces, NEW name \in Name,
         NEW target, Denotes(program, m, name, target)
  PROVE  \E x \in DemandedPairs : target \in PairSays(program, x)
<1>1. m \in program.modules /\ m \in Module /\ NamespaceDemand(m) \in demands
  BY AnswerFacts, ProgramParts DEF DemandedNamespaces
<1>2. <<m, name>> \in DemandedPairs
  BY <1>1 DEF DemandedPairs, Pair
<1> QED
  BY <1>1, <1>2, AnswerFacts, DemandedPairsFollow, ResolvedWithin DEF Denotes

\* Every observable namespace is demanded.
LEMMA ObservableIsDemanded ==
  ASSUME Inv, NothingWithoutNeed, Answered
  PROVE  ObservableNamespaces \subseteq DemandedNamespaces
<1> DEFINE Behind(S) ==
             {n \in program.modules : \E m \in S, x \in Name :
                Denotes(program, m, x, NamespaceTarget([kind |-> "Internal", module |-> n]))}
           step == [S \in SUBSET Module |-> S \cup Behind(S)]
           base == program.entries \cup {m \in program.modules : UseNamespace(m) \in settled}
<1>1. program \in JsProgramIr /\ WellFormed(program) /\ program.modules \subseteq Module
  BY AnswerFacts, ProgramParts
<1>2. IsClosing(Module, step)
  <2>1. \A S \in SUBSET Module : S \cup Behind(S) \in SUBSET Module
    BY <1>1
  <2>2. \A S, T \in SUBSET Module : S \subseteq T => S \cup Behind(S) \subseteq T \cup Behind(T)
    OBVIOUS
  <2> HIDE DEF Behind
  <2> QED
    BY <2>1, <2>2 DEF IsClosing
<1>3. base \in SUBSET Module /\ base \subseteq DemandedNamespaces
  <2>1. InitialDemands(program, settled) \subseteq demands
    BY AnswerFacts DEF ClosedUnderUse
  <2>2. \A m \in base : NamespaceDemand(m) \in demands /\ m \in program.modules
    BY <1>1, <2>1 DEF InitialDemands, WellFormed
  <2> QED
    BY <1>1, <2>2 DEF DemandedNamespaces
<1>4. Behind(DemandedNamespaces) \subseteq DemandedNamespaces
  <2> SUFFICES ASSUME NEW n \in program.modules, NEW m \in DemandedNamespaces, NEW name \in Name,
                      Denotes(program, m, name, NamespaceTarget([kind |-> "Internal", module |-> n]))
               PROVE  NamespaceDemand(n) \in demands
    BY DEF DemandedNamespaces
  <2> DEFINE t == [kind |-> "Internal", module |-> n]
  <2>1. PICK x \in DemandedPairs : NamespaceTarget(t) \in PairSays(program, x)
    BY ResolvedIsDemanded
  <2>2. x \in Pair
    BY DEF DemandedPairs
  <2>3. PICK e \in LookedUp(program, x[1], x[2]) :
          e.kind = "Namespace" /\ t \in ReExportTarget(program, x[1], e.source)
    BY <1>1, <2>1, <2>2, SaysNamespace
  <2>4. n \in InternalTarget(program, x[1], "ReExport", e.source)
    BY <1>1, <2>3 DEF InternalTarget, ReExportTarget
  <2> QED
    BY <2>3, <2>4, DemandsAreForwarded
<1>5. DemandedNamespaces \in SUBSET Module
  BY <1>1 DEF DemandedNamespaces
<1>6. step[DemandedNamespaces] \subseteq DemandedNamespaces
  BY <1>4, <1>5
<1>7. ObservableNamespaces = LeastClosed(Module, step, base)
  BY DEF ObservableNamespaces
<1> HIDE DEF step, base
<1> QED
  BY <1>2, <1>3, <1>5, <1>6, <1>7, FiniteIds, LeastClosedHolds

\* A demanded name keeps the binding alive that an export of it stands for.
LEMMA SaidIsLive ==
  ASSUME Inv, NothingWithoutNeed, Answered, NEW x \in DemandedPairs, NEW m, NEW b,
         BindingTarget(m, b) \in PairSays(program, x)
  PROVE  IsBindingLive(m, b)
<1>1. program \in JsProgramIr /\ x \in Pair
  BY AnswerFacts DEF DemandedPairs
<1>2. PICK e \in LookedUp(program, x[1], x[2]) : m = x[1] /\ e.kind = "Local" /\ e.binding = b
  BY <1>1, SaysBinding
<1>3. PICK d \in demands, i \in DOMAIN program.exports[x[1]] :
        d.module = x[1] /\ program.exports[x[1]][i] = e /\ i \in DemandedExports(program, d)
  BY <1>1, LookedUpIsDemanded
<1>4. <<m, b>> \in RequiredBindings(program, d)
  BY <1>2, <1>3 DEF RequiredBindings
<1> QED
  BY <1>4, AnswerFacts DEF ClosedUnderUse, IsBindingLive

\* Every name that a live import asks for is demanded.
LEMMA ImportedIsDemanded ==
  ASSUME Inv, NothingWithoutNeed, Answered
  PROVE  ImportedNames \subseteq DemandedPairs
<1>1. program \in JsProgramIr /\ program.modules \subseteq Module
  BY AnswerFacts, ProgramParts
<1> DEFINE asked(i) == IF i.kind = "Default" THEN "default" ELSE i.imported
<1> SUFFICES ASSUME NEW m \in program.modules, NEW i \in program.imports[m],
                    i.kind \in {"Default", "Named"}, IsBindingLive(m, i.binding),
                    NEW n \in InternalTarget(program, m, "StaticImport", i.source)
             PROVE  <<n, asked(i)>> \in DemandedPairs
  BY DEF ImportedNames
<1>2. i \in ModuleImport /\ n \in Module
  BY <1>1, ProgramParts DEF InternalTarget
<1>3. asked(i) \in Name
  BY <1>2, DefaultIsAName DEF ModuleImport
<1>4. ImportDemand(i, n) = NameDemand(n, asked(i))
  BY DEF ImportDemand
<1>5. BindsName(i) /\ UseBinding(m, i.binding) \in settled
  BY DEF BindsName, IsBindingLive
<1>6. ImportDemand(i, n) \in ImportDemands(program, m, settled)
  BY <1>5 DEF ImportDemands
<1>7. ImportDemand(i, n) \in demands
  BY <1>6, AnswerFacts DEF ClosedUnderUse, InitialDemands
<1> HIDE DEF asked
<1> QED
  BY <1>2, <1>3, <1>4, <1>7 DEF DemandedPairs, Pair

\* Every export a demanded name is looked up through is live.
LEMMA LookedUpIsLive ==
  ASSUME Inv, NothingWithoutNeed, Answered, NEW x \in DemandedPairs,
         NEW i \in LookupPositions(program, x[1], x[2])
  PROVE  IsExportLive(x[1], i)
<1>1. PICK d \in demands : d.module = x[1] /\ i \in DemandedExports(program, d)
  <2>1. x[1] \in Module /\ x[2] \in Name
    BY DEF DemandedPairs, Pair
  <2>2. i \in DOMAIN program.exports[x[1]]
    BY DEF LookupPositions, ExplicitExport
  <2>3. CASE NamespaceDemand(x[1]) \in demands
    <3>1. i \in DemandedExports(program, NamespaceDemand(x[1]))
      BY <2>2 DEF DemandedExports, NamespaceDemand
    <3> QED
      BY <2>3, <3>1 DEF NamespaceDemand
  <2>4. CASE NameDemand(x[1], x[2]) \in demands
    <3>1. i \in DemandedExports(program, NameDemand(x[1], x[2]))
      BY DEF DemandedExports, NameDemand, LookupPositions, StarExports
    <3> QED
      BY <2>4, <3>1 DEF NameDemand
  <2> QED
    BY <2>3, <2>4 DEF DemandedPairs
<1>2. liveExports = ExportsOf(demands)
  BY InvMeansClosed DEF AnswerIsClosed, Answered
<1>3. <<x[1], i>> \in {d.module} \X DemandedExports(program, d)
  BY <1>1
<1> QED
  BY <1>2, <1>3 DEF ExportsOf, IsExportLive

\* A name that demanded names lead to through re-exports is demanded.
LEMMA BehindIsDemanded ==
  ASSUME Inv, NothingWithoutNeed, Answered, NEW S, S \subseteq DemandedPairs
  PROVE  NamesBehind(program, S) \subseteq DemandedPairs
<1> DEFINE Behind(x) == UNION {ExportLeadsTo(program, x[1], program.exports[x[1]][i], x[2]) :
                                 i \in LookupPositions(program, x[1], x[2])}
           step == [T \in SUBSET Pair |-> T \cup UNION {Behind(x) : x \in T}]
<1>1. program \in JsProgramIr
  BY AnswerFacts
<1>2. ASSUME NEW x \in Pair PROVE Behind(x) = PairLeadsTo(program, x)
  <2>1. {program.exports[x[1]][i] : i \in LookupPositions(program, x[1], x[2])}
          = LookedUp(program, x[1], x[2])
    BY DEF LookupPositions, LookedUp, ToSet
  <2> QED
    BY <2>1 DEF PairLeadsTo
<1>3. ASSUME NEW x \in Pair PROVE Behind(x) \subseteq Pair
  <2>1. x[1] \in Module /\ x[2] \in Name
    BY DEF Pair
  <2> SUFFICES ASSUME NEW e \in LookedUp(program, x[1], x[2])
               PROVE  ExportLeadsTo(program, x[1], e, x[2]) \subseteq Pair
    BY <1>2 DEF PairLeadsTo
  <2>2. NameBehind(e, x[2]) \in Name
    BY <1>1, <2>1, LookedUpTypes
  <2> QED
    BY <2>2 DEF ExportLeadsTo, InternalTarget, Pair
<1> HIDE DEF Behind
<1>4. IsClosing(Pair, step)
  <2>1. \A T \in SUBSET Pair : T \cup (UNION {Behind(x) : x \in T}) \in SUBSET Pair
    BY <1>3
  <2>2. \A T, U \in SUBSET Pair : T \subseteq U =>
          T \cup (UNION {Behind(x) : x \in T}) \subseteq U \cup (UNION {Behind(x) : x \in U})
    OBVIOUS
  <2> QED
    BY <2>1, <2>2 DEF IsClosing
<1>5. DemandedPairs \in SUBSET Pair /\ S \in SUBSET Pair
  BY DEF DemandedPairs
<1>6. step[DemandedPairs] \subseteq DemandedPairs
  <2>1. ASSUME NEW x \in DemandedPairs PROVE Behind(x) \subseteq DemandedPairs
    <3>1. PairLeadsTo(program, x) \subseteq DemandedPairs
      BY DemandedPairsFollow DEF FollowsReExports
    <3> QED
      BY <1>2, <1>5, <3>1
  <2> QED
    BY <1>5, <2>1
<1>7. NamesBehind(program, S) = LeastClosed(Pair, step, S)
  BY DEF NamesBehind, Behind, Pair
<1> HIDE DEF step
<1> QED
  BY <1>4, <1>5, <1>6, <1>7, PairsAreFinite, LeastClosedHolds

\* In an answer, every export that is looked up from outside or by an import is
\* live, and so is the binding found.
LEMMA ObservableIsLive == Inv /\ NothingWithoutNeed => ObservableExportsLive
<1> SUFFICES ASSUME Inv, NothingWithoutNeed, Answered
             PROVE  ObservableExportsLive
  BY DEF ObservableExportsLive
<1>1. ASSUME NEW m \in ObservableNamespaces, NEW name \in Name, NEW t \in ProgramBinding,
             Denotes(program, m, name, BindingTarget(t[1], t[2]))
      PROVE  IsBindingLive(t[1], t[2]) /\ IsModuleEvaluated(t[1])
  <2>1. m \in DemandedNamespaces
    BY ObservableIsDemanded
  <2>2. PICK x \in DemandedPairs : BindingTarget(t[1], t[2]) \in PairSays(program, x)
    BY <1>1, <2>1, ResolvedIsDemanded
  <2> QED
    BY <2>2, SaidIsLive, LiveBindingsEvaluated
<1> DEFINE S == (ObservableNamespaces \X Name) \cup ImportedNames
<1>2. S \subseteq DemandedPairs
  <2>1. program.modules \subseteq Module
    BY AnswerFacts, ProgramParts
  <2>2. ObservableNamespaces \X Name \subseteq DemandedPairs
    BY <2>1, ObservableIsDemanded DEF DemandedNamespaces, DemandedPairs, Pair
  <2> QED
    BY <2>2, ImportedIsDemanded
<1>3. NamesBehind(program, S) \subseteq DemandedPairs
  BY <1>2, BehindIsDemanded
<1>4. \A x \in NamesBehind(program, S) : \A i \in LookupPositions(program, x[1], x[2]) :
        IsExportLive(x[1], i)
  BY <1>3, LookedUpIsLive
<1> QED
  BY <1>1, <1>4 DEF ObservableExportsLive

\* Facts, demands and requirements never leave the program, nor the bindings
\* its modules have: the analysis asks for nothing that does not exist.
THEOREM OwnedEntitiesOnly == Spec => []OnlyOwnedEntities
  BY InvAlways, LeastAnswer, OwnedEntities, PTL

\* Nothing that runs is left out of the answer: evaluation follows the entry
\* modules and every dependency, what an evaluated module reads outside a `try'
\* is live, and a live import keeps what it is linked to alive.
THEOREM UsesLinked == Spec => []UsedBindingsLinked
  BY InvAlways, LeastAnswer, UsesAreLinked, PTL

\* Whatever resolve_export finds for a name in a namespace the program can look
\* into is live, and so is every export that such a name, or one a live import
\* asks for, is looked up through: the demand walk, which follows export lists,
\* and the resolver, which follows names, agree for every program.
THEOREM ExportsLive == Spec => []ObservableExportsLive
  BY InvAlways, LeastAnswer, ObservableIsLive, PTL
===============================================================================
