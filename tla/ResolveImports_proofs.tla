----------------------- MODULE ResolveImports_proofs -----------------------
(***************************************************************************)
(* Every import is linked to what the names behind it say together, for    *)
(* every program, and the order of the exports decides nothing.            *)
(***************************************************************************)
EXTENDS ResolveImports, ProgramLinkage_proofs

-----------------------------------------------------------------------------
(* The names that can be reached                                           *)

\* What an export list shows without the positions in it.
LEMMA LinksTypes ==
  ASSUME NEW p \in JsProgramIr, NEW m \in Module, NEW name \in Name, NEW e \in Links(p, m, name)
  PROVE  e \in ToSet(p.exports[m]) /\ e \in ModuleExport /\ NameBehind(e, name) \in Name
<1>1. e \in ToSet(p.exports[m])
  BY DEF Links
<1>2. PICK i \in DOMAIN p.exports[m] : e = p.exports[m][i]
  BY <1>1 DEF ToSet
<1> QED
  BY <1>1, <1>2, ExportTypes DEF NameBehind

\* A module that exports a name once has one export to look it up through, the
\* first that carries it.
LEMMA LinksAreLookedUp ==
  ASSUME NEW p \in JsProgramIr, ExportsNamesOnce(p), NEW m \in p.modules, NEW name \in Name
  PROVE  Links(p, m, name) = LookedUp(p, m, name)
<1> DEFINE explicit == {e \in ToSet(p.exports[m]) : HasExportedName(e, name)}
           first == ExplicitExport(p, m, name)
<1>1. m \in Module
  BY ProgramParts
<1>2. explicit \subseteq {p.exports[m][i] : i \in first}
  <2> SUFFICES ASSUME NEW e \in explicit PROVE \E i \in first : e = p.exports[m][i]
    OBVIOUS
  <2>1. PICK i \in DOMAIN p.exports[m] : e = p.exports[m][i]
    BY DEF ToSet
  <2>2. \A j \in DOMAIN p.exports[m] : HasExportedName(p.exports[m][j], name) => j = i
    BY <2>1 DEF ExportsNamesOnce
  <2>3. \A j \in DOMAIN p.exports[m] : j < i => j # i
    BY <1>1, ProgramParts
  <2>4. i \in first
    BY <2>1, <2>2, <2>3 DEF ExplicitExport
  <2> QED
    BY <2>1, <2>4
<1>3. {p.exports[m][i] : i \in first} \subseteq explicit
  BY <1>1, ExportTypes DEF ExplicitExport
<1>4. explicit = {p.exports[m][i] : i \in first}
  BY <1>2, <1>3
<1>5. explicit = {} <=> first = {}
  BY <1>4
<1> QED
  BY <1>4, <1>5 DEF Links, LookedUp

\* So the names it leads to and the answers found there are those of the walk.
LEMMA AnswersAreSaid ==
  ASSUME NEW p \in JsProgramIr, ExportsNamesOnce(p), NEW x \in p.modules \X Name
  PROVE  /\ LeadsTo(p, x[1], x[2]) = PairLeadsTo(p, x)
         /\ Answers(p, x[1], x[2]) = PairSays(p, x)
  BY LinksAreLookedUp DEF LeadsTo, Answers, PairLeadsTo, PairSays

\* One step further from every pair.
Followed(p) == [S \in SUBSET Pair |-> S \cup (UNION {LeadsTo(p, x[1], x[2]) : x \in S})]

\* Following re-exports one step is monotone and grows, so it has a least
\* closed set above every pair.
LEMMA FollowingCloses ==
  ASSUME NEW p \in JsProgramIr
  PROVE  IsClosing(Pair, Followed(p))
<1>1. ASSUME NEW x \in Pair PROVE LeadsTo(p, x[1], x[2]) \subseteq Pair
  <2>1. x[1] \in Module /\ x[2] \in Name
    BY DEF Pair
  <2> SUFFICES ASSUME NEW e \in Links(p, x[1], x[2])
               PROVE  ExportLeadsTo(p, x[1], e, x[2]) \subseteq Pair
    BY DEF LeadsTo
  <2>2. NameBehind(e, x[2]) \in Name
    BY <2>1, LinksTypes
  <2> QED
    BY <2>2 DEF ExportLeadsTo, InternalTarget, Pair
<1>2. \A S \in SUBSET Pair : S \cup (UNION {LeadsTo(p, x[1], x[2]) : x \in S}) \in SUBSET Pair
  BY <1>1
<1>3. \A S, T \in SUBSET Pair : S \subseteq T =>
        S \cup (UNION {LeadsTo(p, x[1], x[2]) : x \in S})
          \subseteq T \cup (UNION {LeadsTo(p, x[1], x[2]) : x \in T})
  OBVIOUS
<1> QED
  BY <1>2, <1>3 DEF Followed, IsClosing

\* The modules of a program lead to each other only.
LEMMA ModulesAreLinked ==
  ASSUME NEW p \in JsProgramIr, WellFormed(p)
  PROVE  FollowsReExports(p, p.modules \X Name)
<1>1. ClosedUnderLinks(p, p.modules)
  <2> SUFFICES ASSUME NEW m \in p.modules, NEW n \in InternalDependencies(p, m, StaticKinds)
               PROVE  n \in p.modules
    BY ProgramParts DEF ClosedUnderLinks
  <2>1. PICK d \in p.dependencies : d.target = [kind |-> "Internal", module |-> n]
    BY DEF InternalDependencies
  <2>2. d.target.kind = "Internal" /\ d.target.module = n
    BY <2>1
  <2> QED
    BY <2>2 DEF WellFormed
<1> QED
  BY <1>1, ModulesFollow

\* The reachable names are the least set of pairs above the one asked for that
\* follows re-exports.
LEMMA ReachableNamesHold ==
  ASSUME NEW p \in JsProgramIr, WellFormed(p), ExportsNamesOnce(p),
         NEW m \in p.modules, NEW name \in Name
  PROVE  /\ FollowsReExports(p, ReachableNames(p, m, name))
         /\ <<m, name>> \in ReachableNames(p, m, name)
         /\ ReachableNames(p, m, name) \subseteq p.modules \X Name
         /\ \A K : FollowsReExports(p, K) /\ <<m, name>> \in K => ReachableNames(p, m, name) \subseteq K
<1> DEFINE L == ReachableNames(p, m, name)
           step == Followed(p)
           base == {<<m, name>>}
           M == p.modules \X Name
<1>1. base \in SUBSET Pair /\ M \in SUBSET Pair /\ base \subseteq M
  BY ProgramParts DEF Pair
<1>2. L = LeastClosed(Pair, step, base)
  BY DEF ReachableNames, Followed, Pair
<1>3. \A S \in SUBSET Pair : step[S] = S \cup (UNION {LeadsTo(p, x[1], x[2]) : x \in S})
  BY DEF Followed
<1>4. /\ L \in SUBSET Pair /\ base \subseteq L /\ step[L] = L
      /\ \A X \in SUBSET Pair : base \subseteq X /\ step[X] \subseteq X => L \subseteq X
  <2> HIDE DEF step, base, L
  <2> QED
    BY <1>1, <1>2, FollowingCloses, PairsAreFinite, LeastClosedHolds DEF step
<1>5. ASSUME NEW K, FollowsReExports(p, K), <<m, name>> \in K PROVE L \subseteq K \cap M
  <2>1. K \cap M \in SUBSET Pair /\ base \subseteq K \cap M
    BY <1>1, <1>5
  <2>2. \A x \in K \cap M : LeadsTo(p, x[1], x[2]) \subseteq K \cap M
    <3>1. FollowsReExports(p, M)
      BY ModulesAreLinked
    <3>2. ASSUME NEW x \in K \cap M PROVE LeadsTo(p, x[1], x[2]) = PairLeadsTo(p, x)
      BY AnswersAreSaid
    <3> QED
      BY <1>5, <3>1, <3>2 DEF FollowsReExports
  <2>3. step[K \cap M] \subseteq K \cap M
    <3> HIDE DEF step, M
    <3> QED
      BY <1>3, <2>1, <2>2
  <2> HIDE DEF step, base, L, M
  <2> QED
    BY <1>4, <2>1, <2>3
<1>6. L \subseteq M
  BY <1>1, <1>5, ModulesAreLinked
<1>7. FollowsReExports(p, L)
  <2>1. \A x \in L : LeadsTo(p, x[1], x[2]) \subseteq L
    <3> HIDE DEF step, L
    <3> QED
      BY <1>3, <1>4
  <2>2. ASSUME NEW x \in L PROVE LeadsTo(p, x[1], x[2]) = PairLeadsTo(p, x)
    BY <1>6, AnswersAreSaid
  <2> HIDE DEF L
  <2> QED
    BY <1>4, <2>1, <2>2 DEF FollowsReExports
<1> QED
  BY <1>4, <1>5, <1>6, <1>7

-----------------------------------------------------------------------------
(* What is found                                                           *)

\* TheAnswer is the one answer, if there is one.
LEMMA TheOneAnswer ==
  /\ \A t : TheAnswer({t}) = t
  /\ \A answers : (\A t : answers # {t}) => TheAnswer(answers) = UnresolvedTarget
  /\ \A answers : UnresolvedTarget \in answers => TheAnswer(answers) = UnresolvedTarget
<1>1. ASSUME NEW t PROVE TheAnswer({t}) = t
  BY DEF TheAnswer
<1>2. ASSUME NEW answers, \A t : answers # {t} PROVE TheAnswer(answers) = UnresolvedTarget
  BY <1>2 DEF TheAnswer
<1>3. ASSUME NEW answers, UnresolvedTarget \in answers
      PROVE  TheAnswer(answers) = UnresolvedTarget
  <2>1. CASE answers = {UnresolvedTarget}
    BY <1>1, <2>1
  <2>2. CASE answers # {UnresolvedTarget}
    <3>1. \A t : answers # {t}
      BY <1>3, <2>2
    <3> QED
      BY <1>2, <3>1
  <2> QED
    BY <2>1, <2>2
<1> QED
  BY <1>1, <1>2, <1>3

\* The walk finds what the reachable names say together.
LEMMA ExportAsListed ==
  ASSUME NEW p \in JsProgramIr, WellFormed(p), ExportsNamesOnce(p),
         NEW m \in p.modules, NEW name \in Name, NEW found, found = ResolveExport(p, m, name)
  PROVE  ListedExport(p, m, name) = IF found.kind = "Found" THEN found.target ELSE UnresolvedTarget
<1> DEFINE L == ReachableNames(p, m, name)
           x == <<m, name>>
           A == UNION {PairSays(p, y) : y \in L}
<1>1. PICK R : ResolvedThrough(p, x, found, R)
  BY ResolveExportIsSound
<1>2. /\ FollowsReExports(p, L) /\ x \in L /\ L \subseteq p.modules \X Name
      /\ \A K : FollowsReExports(p, K) /\ x \in K => L \subseteq K
  BY ReachableNamesHold
<1>3. ListedExport(p, m, name) = TheAnswer(A)
  <2>1. ASSUME NEW y \in L PROVE Answers(p, y[1], y[2]) = PairSays(p, y)
    BY <1>2, AnswersAreSaid
  <2> QED
    BY <2>1 DEF ListedExport
<1> HIDE DEF L, x
<1>4. Justified(p, L, found) /\ IsAnswer(found) /\ x \in R
  BY <1>1, <1>2 DEF ResolvedThrough
<1>5. ASSUME found # Unresolved PROVE \A t \in A : found = Found(t)
  <2>1. L \subseteq R
    BY <1>1, <1>2, <1>5 DEF ResolvedThrough
  <2> QED
    BY <1>1, <1>5, <2>1 DEF ResolvedThrough
<1>6. ASSUME NEW t, found = Found(t) PROVE A = {t}
  <2>1. t \in A
    BY <1>4, <1>6 DEF Justified
  <2>2. \A u \in A : u = t
    BY <1>5, <1>6, AnswersDiffer
  <2> QED
    BY <2>1, <2>2
<1>7. ASSUME found = Unresolved PROVE UnresolvedTarget \in A \/ \E t, u \in A : t # u
  BY <1>4, <1>7 DEF Justified, Contradictory
<1> HIDE DEF A
<1>8. CASE \E t : found = Found(t)
  <2>1. PICK t : found = Found(t)
    BY <1>8
  <2>2. found.kind = "Found" /\ found.target = t
    BY <2>1 DEF Found
  <2> QED
    BY <1>3, <1>6, <2>1, <2>2, TheOneAnswer
<1>9. CASE found = NotFound
  <2>1. A = {}
    BY <1>5, <1>9, AnswersDiffer
  <2>2. TheAnswer({}) = UnresolvedTarget
    BY TheOneAnswer
  <2>3. found.kind # "Found"
    BY <1>9 DEF NotFound
  <2> QED
    BY <1>3, <2>1, <2>2, <2>3
<1>10. CASE found = Unresolved
  <2>1. TheAnswer(A) = UnresolvedTarget
    <3>1. ASSUME NEW t \in A, NEW u \in A, t # u, NEW s PROVE A # {s}
      BY <3>1
    <3> QED
      BY <1>7, <1>10, <3>1, TheOneAnswer
  <2>2. found.kind # "Found"
    BY <1>10 DEF Unresolved
  <2> QED
    BY <1>3, <2>1, <2>2
<1> QED
  BY <1>4, <1>8, <1>9, <1>10 DEF IsAnswer

\* So resolve_import is what it is specified to be.
LEMMA ImportAsListed ==
  ASSUME NEW p \in JsProgramIr, WellFormed(p), ExportsNamesOnce(p),
         NEW m \in p.modules, NEW i \in p.imports[m], BindsName(i)
  PROVE  ResolveImport(p, m, i) = ListedImport(p, m, i)
<1> DEFINE targets == UniqueTarget(p, m, "StaticImport", i.source)
           t == CHOOSE t \in targets : TRUE
<1>1. i.kind \in {"Default", "Namespace", "Named"} /\ (i.kind = "Named" => i.imported \in Name)
  BY ProgramParts DEF ModuleImport, BindsName
<1>2. CASE targets = {}
  BY <1>2 DEF ResolveImport, ListedImport
<1>3. CASE targets # {}
  <2>1. PICK d \in p.dependencies : d.target = t
    BY <1>3 DEF UniqueTarget, Targets
  <2>2. t.kind = "Internal" => t.module \in p.modules
    BY <2>1 DEF WellFormed
  <2> HIDE DEF t
  <2>3. ASSUME NEW name \in Name PROVE ResolveImportedName(p, t, name) = ListedName(p, t, name)
    <3>1. CASE t.kind # "Internal"
      BY <3>1 DEF ResolveImportedName, ListedName
    <3>2. CASE t.kind = "Internal"
      BY <2>2, <3>2, ExportAsListed DEF ResolveImportedName, ListedName
    <3> QED
      BY <3>1, <3>2
  <2>4. CASE i.kind = "Namespace"
    BY <1>3, <2>4 DEF ResolveImport, ListedImport, t
  <2>5. CASE i.kind = "Default"
    <3>1. ResolveImportedName(p, t, "default") = ListedName(p, t, "default")
      BY <2>3, DefaultIsAName
    <3> QED
      BY <1>3, <2>5, <3>1 DEF ResolveImport, ListedImport, t
  <2>6. CASE i.kind = "Named"
    <3>1. ResolveImportedName(p, t, i.imported) = ListedName(p, t, i.imported)
      BY <1>1, <2>3, <2>6
    <3> QED
      BY <1>3, <2>6, <3>1 DEF ResolveImport, ListedImport, t
  <2> QED
    BY <1>1, <2>4, <2>5, <2>6
<1> QED
  BY <1>2, <1>3

-----------------------------------------------------------------------------
(* The order of exports                                                    *)

\* A list has the same elements backwards.
LEMMA ReverseHolds ==
  ASSUME NEW T, NEW s \in Seq(T)
  PROVE  /\ Reverse(s) \in Seq(T) /\ Len(Reverse(s)) = Len(s)
         /\ \A i \in DOMAIN s : Len(s) + 1 - i \in DOMAIN s /\ Reverse(s)[i] = s[Len(s) + 1 - i]
         /\ DOMAIN Reverse(s) = DOMAIN s
         /\ ToSet(Reverse(s)) = ToSet(s)
<1>1. Len(s) \in Nat /\ DOMAIN s = 1..Len(s)
  OBVIOUS
<1>2. Reverse(s) = [i \in 1..Len(s) |-> s[(Len(s) - i) + 1]]
  BY DEF Reverse
<1>3. \A i \in 1..Len(s) : (Len(s) - i) + 1 = Len(s) + 1 - i /\ Len(s) + 1 - i \in 1..Len(s)
  BY <1>1
<1>4. \A i \in 1..Len(s) : Reverse(s)[i] = s[Len(s) + 1 - i] /\ s[Len(s) + 1 - i] \in T
  BY <1>2, <1>3
<1>5. Reverse(s) \in Seq(T) /\ Len(Reverse(s)) = Len(s) /\ DOMAIN Reverse(s) = DOMAIN s
  BY <1>1, <1>2, <1>4
<1>6. ASSUME NEW i \in 1..Len(s) PROVE s[i] = Reverse(s)[Len(s) + 1 - i] /\ Len(s) + 1 - i \in 1..Len(s)
  <2>1. Len(s) + 1 - (Len(s) + 1 - i) = i
    BY <1>1
  <2> QED
    BY <1>3, <1>4, <2>1
<1>7. ToSet(Reverse(s)) = ToSet(s)
  <2>1. \A i \in DOMAIN Reverse(s) : Reverse(s)[i] \in ToSet(s)
    BY <1>1, <1>3, <1>4, <1>5 DEF ToSet
  <2>2. \A i \in DOMAIN s : s[i] \in ToSet(Reverse(s))
    BY <1>1, <1>5, <1>6 DEF ToSet
  <2> QED
    BY <2>1, <2>2, Zenon DEF ToSet
<1> QED
  BY <1>1, <1>3, <1>4, <1>5, <1>7

\* The same program with every export list backwards.
LEMMA ReorderedIsProgram ==
  ASSUME NEW p \in JsProgramIr, WellFormed(p), ExportsNamesOnce(p)
  PROVE  /\ Reordered(p) \in JsProgramIr /\ WellFormed(Reordered(p)) /\ ExportsNamesOnce(Reordered(p))
         /\ Reordered(p).modules = p.modules
         /\ Reordered(p).dependencies = p.dependencies
         /\ Reordered(p).imports = p.imports
         /\ \A m \in Module : ToSet(Reordered(p).exports[m]) = ToSet(p.exports[m])
<1> DEFINE q == Reordered(p)
<1>1. \A m \in Module : p.exports[m] \in Seq(ModuleExport)
  BY ProgramParts
<1>2. \A m \in Module : Reverse(p.exports[m]) \in Seq(ModuleExport)
  BY <1>1, ReverseHolds
<1>3. /\ q \in JsProgramIr
      /\ q.modules = p.modules /\ q.entries = p.entries /\ q.dependencies = p.dependencies
      /\ q.imports = p.imports /\ q.bindings = p.bindings
      /\ q.loads = p.loads /\ q.writes = p.writes /\ q.guardedLoads = p.guardedLoads
      /\ \A m \in Module : q.exports[m] = Reverse(p.exports[m])
  BY <1>2 DEF Reordered, JsProgramIr
<1> HIDE DEF q
<1>4. \A m \in Module : ToSet(q.exports[m]) = ToSet(p.exports[m])
  BY <1>1, <1>3, ReverseHolds
<1>5. \A m \in p.modules : m \in Module
  BY ProgramParts
<1>6. WellFormed(q)
  <2>1. \A m \in p.modules : ExportedBindings(q, m) = ExportedBindings(p, m)
    BY <1>4, <1>5 DEF ExportedBindings
  <2>2. \A m : ImportedBindings(q, m) = ImportedBindings(p, m)
    BY <1>3 DEF ImportedBindings
  <2>3. \A m : ReferencedBindings(q, m) = ReferencedBindings(p, m)
    BY <1>3 DEF ReferencedBindings
  <2> QED
    BY <1>3, <2>1, <2>2, <2>3 DEF WellFormed
<1>7. ExportsNamesOnce(q)
  <2> SUFFICES ASSUME NEW m \in p.modules, NEW i \in DOMAIN q.exports[m], NEW j \in DOMAIN q.exports[m],
                      NEW name \in Name,
                      HasExportedName(q.exports[m][i], name), HasExportedName(q.exports[m][j], name)
               PROVE  i = j
    BY <1>3 DEF ExportsNamesOnce
  <2> DEFINE s == p.exports[m]
             i1 == Len(s) + 1 - i
             j1 == Len(s) + 1 - j
  <2>1. s \in Seq(ModuleExport) /\ q.exports[m] = Reverse(s)
    BY <1>1, <1>3, <1>5
  <2>2. i \in 1..Len(s) /\ j \in 1..Len(s) /\ Len(s) \in Nat
    <3>1. DOMAIN q.exports[m] = DOMAIN s
      BY <2>1, ReverseHolds
    <3>2. DOMAIN s = 1..Len(s) /\ Len(s) \in Nat
      BY <2>1
    <3> QED
      BY <3>1, <3>2
  <2>3. /\ i1 \in DOMAIN s /\ Reverse(s)[i] = s[i1]
        /\ j1 \in DOMAIN s /\ Reverse(s)[j] = s[j1]
    BY <2>1, <2>2, ReverseHolds
  <2>4. i1 = j1
    BY <2>1, <2>3 DEF ExportsNamesOnce
  <2> QED
    BY <2>2, <2>4
<1> QED
  BY <1>3, <1>4, <1>6, <1>7 DEF q

\* What a name leads to depends on the exports, not on their positions.
LEMMA ListedWithoutOrder ==
  ASSUME NEW p \in JsProgramIr, NEW q \in JsProgramIr, q.dependencies = p.dependencies,
         \A m \in Module : ToSet(q.exports[m]) = ToSet(p.exports[m])
  PROVE  \A m \in Module, name \in Name : ListedExport(q, m, name) = ListedExport(p, m, name)
<1>1. \A m, source : /\ ReExportTarget(q, m, source) = ReExportTarget(p, m, source)
                     /\ InternalTarget(q, m, "ReExport", source) = InternalTarget(p, m, "ReExport", source)
  BY DEF ReExportTarget, InternalTarget, UniqueTarget, Targets
<1>2. \A m, e, name : /\ ExportLeadsTo(q, m, e, name) = ExportLeadsTo(p, m, e, name)
                      /\ ExportSays(q, m, e, name) = ExportSays(p, m, e, name)
  BY <1>1 DEF ExportLeadsTo, ExportSays
<1>3. \A m \in Module, name \in Name : Links(q, m, name) = Links(p, m, name)
  BY DEF Links
<1>4. \A m \in Module, name \in Name : /\ LeadsTo(q, m, name) = LeadsTo(p, m, name)
                                       /\ Answers(q, m, name) = Answers(p, m, name)
  BY <1>2, <1>3 DEF LeadsTo, Answers
<1>5. Followed(q) = Followed(p)
  <2>1. \A S \in SUBSET Pair : {LeadsTo(q, x[1], x[2]) : x \in S} = {LeadsTo(p, x[1], x[2]) : x \in S}
    BY <1>4 DEF Pair
  <2> QED
    BY <2>1 DEF Followed
<1> SUFFICES ASSUME NEW m \in Module, NEW name \in Name
             PROVE  ListedExport(q, m, name) = ListedExport(p, m, name)
  OBVIOUS
<1> DEFINE L == ReachableNames(p, m, name)
<1>6. L = LeastClosed(Pair, Followed(p), {<<m, name>>})
  BY DEF ReachableNames, Followed, Pair
<1>7. ReachableNames(q, m, name) = L
  <2>1. ReachableNames(q, m, name) = LeastClosed(Pair, Followed(q), {<<m, name>>})
    BY DEF ReachableNames, Followed, Pair
  <2> QED
    BY <1>5, <1>6, <2>1
<1>8. L \in SUBSET Pair
  <2>1. {<<m, name>>} \in SUBSET Pair
    BY DEF Pair
  <2> QED
    BY <1>6, <2>1, FollowingCloses, PairsAreFinite, LeastClosedHolds
<1>9. {Answers(q, x[1], x[2]) : x \in L} = {Answers(p, x[1], x[2]) : x \in L}
  <2> HIDE DEF L
  <2> QED
    BY <1>4, <1>8 DEF Pair
<1> QED
  BY <1>7, <1>9 DEF ListedExport

\* The order of the exports decides nothing about an import.
LEMMA ImportWithoutOrder ==
  ASSUME NEW p \in JsProgramIr, WellFormed(p), ExportsNamesOnce(p),
         NEW m \in p.modules, NEW i \in p.imports[m], BindsName(i)
  PROVE  ResolveImport(Reordered(p), m, i) = ResolveImport(p, m, i)
<1> DEFINE q == Reordered(p)
<1>1. /\ q \in JsProgramIr /\ WellFormed(q) /\ ExportsNamesOnce(q)
      /\ q.modules = p.modules /\ q.dependencies = p.dependencies /\ q.imports = p.imports
      /\ \A n \in Module : ToSet(q.exports[n]) = ToSet(p.exports[n])
  BY ReorderedIsProgram
<1> HIDE DEF q
<1>2. \A n \in Module, name \in Name : ListedExport(q, n, name) = ListedExport(p, n, name)
  BY <1>1, ListedWithoutOrder
<1> DEFINE targets == UniqueTarget(p, m, "StaticImport", i.source)
           t == CHOOSE t \in targets : TRUE
<1>3. UniqueTarget(q, m, "StaticImport", i.source) = targets
  BY <1>1 DEF UniqueTarget, Targets
<1>4. i.kind \in {"Default", "Namespace", "Named"} /\ (i.kind = "Named" => i.imported \in Name)
  BY ProgramParts DEF ModuleImport, BindsName
<1>5. ASSUME targets # {}, NEW name \in Name PROVE ListedName(q, t, name) = ListedName(p, t, name)
  <2>1. t \in ModuleTarget
    BY <1>5, ProgramParts DEF UniqueTarget, Targets, ModuleDependency
  <2>2. t.kind = "Internal" => t.module \in Module
    BY <2>1 DEF ModuleTarget
  <2> HIDE DEF t
  <2> QED
    BY <1>2, <2>2 DEF ListedName
<1>6. ListedImport(q, m, i) = ListedImport(p, m, i)
  <2>1. CASE targets = {}
    BY <1>3, <2>1 DEF ListedImport
  <2>2. CASE targets # {}
    <3>1. ListedName(q, t, "default") = ListedName(p, t, "default")
      BY <1>5, <2>2, DefaultIsAName
    <3>2. i.kind = "Named" => ListedName(q, t, i.imported) = ListedName(p, t, i.imported)
      BY <1>4, <1>5, <2>2
    <3>3. CASE i.kind = "Namespace"
      <4>1. ListedImport(p, m, i) = NamespaceTarget(t)
        BY <2>2, <3>3 DEF ListedImport
      <4>2. ListedImport(q, m, i) = NamespaceTarget(t)
        BY <1>3, <2>2, <3>3 DEF ListedImport
      <4> QED
        BY <4>1, <4>2
    <3>4. CASE i.kind = "Default"
      BY <1>3, <2>2, <3>1, <3>4 DEF ListedImport
    <3>5. CASE i.kind = "Named"
      BY <1>3, <2>2, <3>2, <3>5 DEF ListedImport
    <3> QED
      BY <1>4, <3>3, <3>4, <3>5
  <2> QED
    BY <2>1, <2>2
<1> QED
  BY <1>1, <1>6, ImportAsListed DEF q

-----------------------------------------------------------------------------
(* The linkage                                                             *)

\* What is in the linkage is an import of the program and what it resolves to.
LinkageHolds ==
  /\ program \in Programs
  /\ \A l \in linkage : \E m \in program.modules : \E i \in program.imports[m] :
       BindsName(i) /\ l = <<m, i.binding, ResolveImport(program, m, i)>>

\* Every link that was made is the resolver's answer for an import of the
\* program, in whatever order imports are resolved.
LEMMA LinkageAlwaysHolds == Spec => []LinkageHolds
<1>1. Init => LinkageHolds
  BY DEF Init, LinkageHolds
<1>2. LinkageHolds /\ [Next]_<<program, linkage>> => LinkageHolds'
  <2> SUFFICES ASSUME LinkageHolds, [Next]_<<program, linkage>> PROVE LinkageHolds'
    OBVIOUS
  <2>1. program' = program
    BY DEF Next, ResolveNext, Resolved
  <2>2. \A l \in linkage' \ linkage : \E m \in program.modules : \E i \in program.imports[m] :
          BindsName(i) /\ l = <<m, i.binding, ResolveImport(program, m, i)>>
    BY DEF Next, ResolveNext, Resolved, Pending
  <2> QED
    BY <2>1, <2>2 DEF LinkageHolds
<1> QED
  BY <1>1, <1>2, PTL DEF Spec

\* A binding is imported once, so what it is linked to is what its import says.
LEMMA LinkedOnce ==
  ASSUME LinkageHolds, NEW l \in linkage
  PROVE  /\ program \in JsProgramIr /\ WellFormed(program) /\ ExportsNamesOnce(program)
         /\ \E m \in program.modules : \E i \in program.imports[m] :
              /\ BindsName(i) /\ l[1] = m /\ l[2] = i.binding
              /\ l[3] = ResolveImport(program, m, i)
              /\ \A j \in program.imports[m] : BindsName(j) /\ j.binding = l[2] => j = i
<1>1. program \in JsProgramIr /\ WellFormed(program) /\ ExportsNamesOnce(program)
  BY ProgramsLinkable DEF LinkageHolds
<1>2. PICK m \in program.modules : \E i \in program.imports[m] :
        BindsName(i) /\ l = <<m, i.binding, ResolveImport(program, m, i)>>
  BY DEF LinkageHolds
<1>3. PICK i \in program.imports[m] : BindsName(i) /\ l = <<m, i.binding, ResolveImport(program, m, i)>>
  BY <1>2
<1>4. l[1] = m /\ l[2] = i.binding /\ l[3] = ResolveImport(program, m, i)
  BY <1>3
<1>5. \A j \in program.imports[m] : BindsName(j) /\ j.binding = l[2] => j = i
  BY <1>1, <1>3, <1>4 DEF WellFormed
<1> QED
  BY <1>1, <1>3, <1>4, <1>5

\* Links that are the resolver's answers are as specified.
LEMMA LinkedAsListed == LinkageHolds => ResolvedAsListed
<1> SUFFICES ASSUME LinkageHolds, NEW l \in linkage, NEW j \in program.imports[l[1]],
                    BindsName(j), j.binding = l[2]
             PROVE  l[3] = ListedImport(program, l[1], j)
  BY DEF ResolvedAsListed
<1>1. /\ program \in JsProgramIr /\ WellFormed(program) /\ ExportsNamesOnce(program)
      /\ l[1] \in program.modules /\ l[3] = ResolveImport(program, l[1], j)
  BY LinkedOnce
<1> QED
  BY <1>1, ImportAsListed

\* Links that are the resolver's answers do not depend on the direction in
\* which export lists are read.
LEMMA LinkedWithoutOrder == LinkageHolds => ExportOrderIrrelevant
<1> SUFFICES ASSUME LinkageHolds, NEW l \in linkage
             PROVE  {l[3]} = ImportedBinding(Reordered(program), l[1], l[2])
  BY DEF ExportOrderIrrelevant
<1> DEFINE q == Reordered(program)
<1>1. /\ program \in JsProgramIr /\ WellFormed(program) /\ ExportsNamesOnce(program)
      /\ l[1] \in program.modules
  BY LinkedOnce
<1>2. PICK i \in program.imports[l[1]] :
        /\ BindsName(i) /\ l[2] = i.binding /\ l[3] = ResolveImport(program, l[1], i)
        /\ \A j \in program.imports[l[1]] : BindsName(j) /\ j.binding = l[2] => j = i
  BY LinkedOnce
<1>3. q.imports = program.imports
  BY <1>1, ReorderedIsProgram
<1>4. {x \in q.imports[l[1]] : BindsName(x) /\ x.binding = l[2]} = {i}
  BY <1>2, <1>3
<1>5. ResolveImport(q, l[1], i) = l[3]
  BY <1>1, <1>2, ImportWithoutOrder
<1> HIDE DEF q
<1>6. ImportedBinding(q, l[1], l[2]) = {ResolveImport(q, l[1], i)}
  BY <1>4 DEF ImportedBinding
<1> QED
  BY <1>5, <1>6 DEF q

\* Every import is linked to what its name leads to: the walk with one resolve
\* set for all branches agrees with the set of all names that can be reached,
\* for every program, re-export cycles included.
THEOREM LinkageAsListed == Spec => []ResolvedAsListed
  BY LinkageAlwaysHolds, LinkedAsListed, PTL

\* A program with its export lists turned round is linked the same.
THEOREM LinkageWithoutOrder == Spec => []ExportOrderIrrelevant
  BY LinkageAlwaysHolds, LinkedWithoutOrder, PTL
===============================================================================
