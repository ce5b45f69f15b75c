--------------------------- MODULE ProgramLinkage ---------------------------
(***************************************************************************)
(* Resolution of imported bindings across a program                        *)
(* (crates/evrel-middle/src/js/analysis/program_linkage).  The resolver is *)
(* a depth-first walk over re-exports.  One resolve set is threaded        *)
(* through the whole walk of one import, siblings of an `export *'         *)
(* included, so every result carries the set as the walk leaves it.        *)
(***************************************************************************)
EXTENDS JsProgram

ImportedBindingTarget ==
  [kind : {"Binding"}, module : Module, binding : Binding]
    \cup [kind : {"Namespace"}, target : ModuleTarget]
    \cup [kind : {"OpaqueExport", "ExternalExport"}, key : Key, name : Name]
    \cup [kind : {"Unresolved"}]

BindingTarget(m, b) == [kind |-> "Binding", module |-> m, binding |-> b]
NamespaceTarget(t)  == [kind |-> "Namespace", target |-> t]
UnresolvedTarget    == [kind |-> "Unresolved"]
OutsideTarget(t, name) ==
  [kind |-> IF t.kind = "Opaque" THEN "OpaqueExport" ELSE "ExternalExport",
   key  |-> t.key, name |-> name]

-----------------------------------------------------------------------------
(* ExportResolution                                                        *)

Found(target) == [kind |-> "Found", target |-> target]
NotFound      == [kind |-> "NotFound"]
Unresolved    == [kind |-> "Unresolved"]

\* The position of the first export of m that carries the name: at most one.
ExplicitExport(p, m, name) ==
  {i \in DOMAIN p.exports[m] :
     /\ HasExportedName(p.exports[m][i], name)
     /\ \A j \in DOMAIN p.exports[m] : j < i => ~HasExportedName(p.exports[m][j], name)}

\* MUTANT: two different candidates of `export *' are no conflict, the first wins.
JoinStarFirstWins(sofar, next) ==
  IF next.kind = "NotFound" \/ sofar.kind = "Found" THEN sofar ELSE next

\* One more `export *' of a module, after what the ones before it found.
JoinStar(sofar, next) ==
  CASE next.kind = "NotFound"  -> sofar
    [] sofar.kind = "NotFound" -> next
    [] next = sofar            -> sofar
    [] OTHER                   -> Unresolved

\* MUTANT: a request the host resolved in two ways is answered by either.
AnyTarget(p, importer, source) == Targets(p, importer, "ReExport", source)

ReExportTarget(p, importer, source) == UniqueTarget(p, importer, "ReExport", source)

\* A call of resolve_export with the resolve set it is given, and what it
\* returns with the set as it leaves it.
ExportCall == [module : Module, name : Name, seen : SUBSET (Module \X Name)]

Result(answer, seen) == [answer |-> answer, seen |-> seen]

\* resolve_target_export on the target of a re-export; walk says what
\* resolve_export returns.
ResolveTargetExport(p, walk, importer, source, name, seen) ==
  LET targets == ReExportTarget(p, importer, source)
      target  == CHOOSE t \in targets : TRUE
  IN  IF targets = {} THEN Result(Unresolved, seen)
      ELSE IF target.kind = "Internal"
      THEN walk[[module |-> target.module, name |-> name, seen |-> seen]]
      ELSE Result(Found(OutsideTarget(target, name)), seen)

ResolveExplicitExport(p, walk, m, export, seen) ==
  CASE export.kind = "Local" -> Result(Found(BindingTarget(m, export.binding)), seen)
    [] export.kind = "Indirect" ->
         ResolveTargetExport(p, walk, m, export.source, export.imported, seen)
    [] export.kind = "Namespace" ->
         IF ReExportTarget(p, m, export.source) = {} THEN Result(Unresolved, seen)
         ELSE Result(Found(NamespaceTarget(
                CHOOSE t \in ReExportTarget(p, m, export.source) : TRUE)), seen)

\* One turn of the loop over the exports of m, which looks at `export *' only
\* and returns at the first answer that is Unresolved.
ResolveStarExport(p, walk, m, export, name, sofar) ==
  IF export.kind # "Star" \/ sofar.answer = Unresolved THEN sofar
  ELSE LET next == ResolveTargetExport(p, walk, m, export.source, name, sofar.seen)
       IN  Result(JoinStar(sofar.answer, next.answer), next.seen)

ResolveStarExports(p, walk, m, name, seen) ==
  LET Loop[k \in 0..Len(p.exports[m])] ==
        IF k = 0 THEN Result(NotFound, seen)
        ELSE ResolveStarExport(p, walk, m, p.exports[m][k], name, Loop[k - 1])
  IN  Loop[Len(p.exports[m])]

ResolveCall(p, walk, call) ==
  LET m        == call.module
      visited  == call.seen \cup {<<m, call.name>>}
      explicit == ExplicitExport(p, m, call.name)
  IN  IF <<m, call.name>> \in call.seen THEN Result(NotFound, call.seen)
      ELSE IF m \notin p.modules THEN Result(Unresolved, visited)
      ELSE IF explicit # {}
      THEN ResolveExplicitExport(p, walk, m, p.exports[m][CHOOSE i \in explicit : TRUE], visited)
      ELSE IF call.name = "default" THEN Result(NotFound, visited)
      ELSE ResolveStarExports(p, walk, m, call.name, visited)

\* resolve_export: the walk that starts in module m with an empty resolve set.
ResolveExport(p, m, name) ==
  LET Walk[call \in ExportCall] == ResolveCall(p, Walk, call)
  IN  Walk[[module |-> m, name |-> name, seen |-> {}]].answer

\* resolve_imported_name
ResolveImportedName(p, target, name) ==
  IF target.kind # "Internal" THEN OutsideTarget(target, name)
  ELSE LET found == ResolveExport(p, target.module, name)
       IN  IF found.kind = "Found" THEN found.target ELSE UnresolvedTarget

\* resolve_import
ResolveImport(p, importer, import) ==
  LET targets == UniqueTarget(p, importer, "StaticImport", import.source)
      target  == CHOOSE t \in targets : TRUE
  IN  IF targets = {} THEN UnresolvedTarget
      ELSE CASE import.kind = "Namespace" -> NamespaceTarget(target)
             [] import.kind = "Default"   -> ResolveImportedName(p, target, "default")
             [] import.kind = "Named"     -> ResolveImportedName(p, target, import.imported)

-----------------------------------------------------------------------------
(* The finished linkage: what imported_binding answers.  A set of at most  *)
(* one target; empty for a binding that is not imported.                   *)

ImportedBinding(p, m, b) ==
  {ResolveImport(p, m, i) : i \in {x \in p.imports[m] : BindsName(x) /\ x.binding = b}}

-----------------------------------------------------------------------------
(* Reference definitions                                                   *)

\* What one entry of the export list of m says of a name that is looked up
\* through it: the pair of a module and a name it forwards the name to, and what
\* it stands for itself, UnresolvedTarget if the host gave no answer to its
\* request.  A Local entry stands for its binding, an imported one included.
NameBehind(e, name) == IF e.kind = "Indirect" THEN e.imported ELSE name

ExportLeadsTo(p, m, e, name) ==
  IF e.kind \in {"Indirect", "Star"}
  THEN InternalTarget(p, m, "ReExport", e.source) \X {NameBehind(e, name)}
  ELSE {}

ExportSays(p, m, e, name) ==
  CASE e.kind = "Local" -> {BindingTarget(m, e.binding)}
    [] HasSource(e) /\ ReExportTarget(p, m, e.source) = {} -> {UnresolvedTarget}
    [] OTHER -> {IF e.kind = "Namespace" THEN NamespaceTarget(t)
                 ELSE OutsideTarget(t, NameBehind(e, name)) :
                   t \in {x \in ReExportTarget(p, m, e.source) :
                            e.kind = "Namespace" \/ x.kind # "Internal"}}

\* The positions of the exports of m a name is looked up through: the first that
\* carries it, or else every `export *', which never carries "default".
LookupPositions(p, m, name) ==
  IF ExplicitExport(p, m, name) # {} \/ name = "default" THEN ExplicitExport(p, m, name)
  ELSE {i \in DOMAIN p.exports[m] : p.exports[m][i].kind = "Star"}

\* The least subset of E above S that step, a monotonic function on the subsets
\* of E which takes nothing away, leaves as it is.
LeastClosed(E, step, S) ==
  LET Close[D \in SUBSET E] == IF step[D] = D THEN D ELSE Close[step[D]]
  IN  Close[S]

\* The pairs of a module and a name that S leads to through re-exports.
NamesBehind(p, S) ==
  LeastClosed(Module \X Name,
    [T \in SUBSET (Module \X Name) |->
       T \cup UNION {UNION {ExportLeadsTo(p, x[1], p.exports[x[1]][i], x[2]) :
                             i \in LookupPositions(p, x[1], x[2])} : x \in T}],
    S)
=============================================================================
