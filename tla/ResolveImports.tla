--------------------------- MODULE ResolveImports ---------------------------
(***************************************************************************)
(* resolve_imports (program_linkage/resolver.rs): every import of every    *)
(* module is resolved, one after the other, into the map that              *)
(* ProgramLinkage answers from.  The order of the imports is left open.    *)
(***************************************************************************)
EXTENDS ProgramLinkage

CONSTANT Programs   \* the programs whose imports are resolved

\* A module that exports a name twice is rejected before it is lowered
\* (crates/evrel-frontend/src/parse/mod.rs:46).
ExportsNamesOnce(p) ==
  \A m \in p.modules : \A i, j \in DOMAIN p.exports[m] : \A name \in Name :
    HasExportedName(p.exports[m][i], name) /\ HasExportedName(p.exports[m][j], name) => i = j

ASSUME ProgramsLinkable ==
  Programs \subseteq JsProgramIr /\ \A p \in Programs : WellFormed(p) /\ ExportsNamesOnce(p)

VARIABLES
  program,   \* the program
  linkage    \* imported_bindings: a set of <<module, binding, target>>

Init == program \in Programs /\ linkage = {}

Pending(m) == {i \in program.imports[m] :
                 BindsName(i) /\ \A l \in linkage : <<l[1], l[2]>> # <<m, i.binding>>}

ResolveNext ==
  \E m \in program.modules : \E i \in Pending(m) :
    /\ linkage' = linkage \cup {<<m, i.binding, ResolveImport(program, m, i)>>}
    /\ UNCHANGED program

Resolved == (\A m \in program.modules : Pending(m) = {}) /\ UNCHANGED <<program, linkage>>

Next == ResolveNext \/ Resolved

Spec == Init /\ [][Next]_<<program, linkage>>

-----------------------------------------------------------------------------
(* Export resolution without a walk and without a resolve set: the pairs   *)
(* of a module and a name that a name can lead to, and what the exports    *)
(* listed there stand for.  One answer is a resolution; none, several, or  *)
(* a request without an answer is not.                                     *)

\* The exports a name is looked up through: the one that carries the name,
\* or else every `export *', which never carries "default".
Links(p, m, name) ==
  LET explicit == {e \in ToSet(p.exports[m]) : HasExportedName(e, name)}
  IN  IF explicit # {} \/ name = "default" THEN explicit
      ELSE {e \in ToSet(p.exports[m]) : e.kind = "Star"}

LeadsTo(p, m, name) == UNION {ExportLeadsTo(p, m, e, name) : e \in Links(p, m, name)}
Answers(p, m, name) == UNION {ExportSays(p, m, e, name) : e \in Links(p, m, name)}

ReachableNames(p, m, name) ==
  LeastClosed(Module \X Name,
    [S \in SUBSET (Module \X Name) |-> S \cup (UNION {LeadsTo(p, x[1], x[2]) : x \in S})],
    {<<m, name>>})

TheAnswer(answers) ==
  IF \E t \in answers : answers = {t} THEN CHOOSE t \in answers : TRUE ELSE UnresolvedTarget

ListedExport(p, m, name) ==
  TheAnswer(UNION {Answers(p, x[1], x[2]) : x \in ReachableNames(p, m, name)})

ListedName(p, target, name) ==
  IF target.kind = "Internal" THEN ListedExport(p, target.module, name)
  ELSE OutsideTarget(target, name)

ListedImport(p, m, i) ==
  LET targets == UniqueTarget(p, m, "StaticImport", i.source)
      Meaning(t) == CASE i.kind = "Namespace" -> NamespaceTarget(t)
                      [] i.kind = "Default"   -> ListedName(p, t, "default")
                      [] i.kind = "Named"     -> ListedName(p, t, i.imported)
  IN  IF targets = {} THEN UnresolvedTarget ELSE Meaning(CHOOSE t \in targets : TRUE)

-----------------------------------------------------------------------------
(* What ECMAScript specifies.  To ECMAScript, `export {x}' of a name that  *)
(* is imported, but not as a namespace, is a re-export of the imported     *)
(* name (ParseModule); the frontend lists a local export of the import     *)
(* binding (crates/evrel-frontend/src/lower/module.rs:334-344).            *)

BindsExport(import) == import.kind \in {"Default", "Named"}

ParsedExport(p, m, e) ==
  LET imports == {i \in p.imports[m] :
                    e.kind = "Local" /\ BindsExport(i) /\ i.binding = e.binding}
      import  == CHOOSE i \in imports : TRUE
  IN  IF imports = {} THEN e
      ELSE [kind |-> "Indirect", source |-> import.source, exported |-> e.exported,
            imported |-> IF import.kind = "Default" THEN "default" ELSE import.imported]

\* The program with the export entries ECMAScript gives its modules; a specifier
\* stands for the same module in an import and in an export.
Parsed(p) ==
  [p EXCEPT !.exports = [m \in Module |-> [k \in DOMAIN @[m] |-> ParsedExport(p, m, @[m][k])]],
            !.dependencies = @ \cup {[d EXCEPT !.request = "ReExport"] :
                                       d \in {x \in @ : x.request = "StaticImport"}}]

ExportsAnImport(p) == Parsed(p).exports # p.exports

SpecifiedImport(p, m, i) == ListedImport(Parsed(p), m, i)

\* Where links lead, from one import binding to what it is linked to in turn.
LinkedTo(p, t) ==
  IF t.kind # "Binding" THEN {}
  ELSE {ResolveImport(p, t.module, i) :
          i \in {x \in p.imports[t.module] : BindsExport(x) /\ x.binding = t.binding}}

EndOfLink(p, t) ==
  LET along == LeastClosed(ImportedBindingTarget,
                 [S \in SUBSET ImportedBindingTarget |-> S \cup UNION {LinkedTo(p, x) : x \in S}],
                 {t})
  IN  TheAnswer({x \in along : LinkedTo(p, x) = {}})

-----------------------------------------------------------------------------
(* Properties                                                              *)

\* The walk with one resolve set for all branches finds what the names that
\* can be reached say together: re-export cycles end, a diamond of `export *'
\* is no conflict, two different bindings are, and no answer found in one
\* branch is lost because another branch has been there before.
ResolvedAsListed ==
  \A l \in linkage : \A i \in program.imports[l[1]] :
    BindsName(i) /\ i.binding = l[2] => l[3] = ListedImport(program, l[1], i)

\* Whatever an import is linked to, the bindings it is linked to lead on to what
\* ECMAScript resolves it to.  Where a module exports what it imports, its list
\* of exports does not say so and the resolver may give up on a name, but it
\* links nothing to anything else; in other programs it does not give up either.
AgreesWithECMAScript ==
  \A l \in linkage : \A i \in program.imports[l[1]] :
    BindsName(i) /\ i.binding = l[2] =>
      \/ EndOfLink(program, l[3]) = SpecifiedImport(program, l[1], i)
      \/ ExportsAnImport(program) /\ EndOfLink(program, l[3]) = UnresolvedTarget

\* The order in which a module lists its exports decides nothing.
Reordered(p) == [p EXCEPT !.exports = [m \in Module |-> Reverse(@[m])]]

ExportOrderIrrelevant ==
  \A l \in linkage : {l[3]} = ImportedBinding(Reordered(program), l[1], l[2])
=============================================================================
