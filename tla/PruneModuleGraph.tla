-------------------------- MODULE PruneModuleGraph --------------------------
(***************************************************************************)
(* Structural pruning of the module graph                                  *)
(* (crates/evrel-middle/src/js/transform/prune_module_graph) and the       *)
(* editors it mutates the program with (ProgramEditor::remove_modules,     *)
(* ModuleEditor::replace_module_interface).  The editors check their       *)
(* preconditions with asserts: here every edit comes with the condition    *)
(* under which it does not panic.                                          *)
(***************************************************************************)
EXTENDS ProgramReachability

-----------------------------------------------------------------------------
(* ProgramEditor::remove_modules                                           *)

RemoveModulesAllowed(p, removed) ==
  /\ removed \subseteq p.modules \ p.entries
  /\ \A d \in p.dependencies :
       d.importer \notin removed /\ d.target.kind = "Internal" => d.target.module \notin removed

\* MUTANT: the dependencies of a removed module are left behind.
RemoveModulesOnly(p, removed) == [p EXCEPT !.modules = @ \ removed]

\* What the program still says of a removed module is out of reach: every
\* operation on a program starts from its modules or its dependencies.
RemoveModules(p, removed) ==
  [p EXCEPT !.modules = @ \ removed,
            !.dependencies = {d \in @ : d.importer \notin removed}]

-----------------------------------------------------------------------------
(* ModuleEditor::replace_module_interface                                  *)

\* The asserts of remove_bindings, checked against the new interface.
RemoveBindingsAllowed(p, m, removed) ==
  /\ removed \subseteq p.bindings[m]
  /\ ReferencedBindings(p, m) \cap removed = {}
  /\ (ImportedBindings(p, m) \cup ExportedBindings(p, m)) \cap removed = {}

ReplaceInterface(p, m, imports, exports) ==
  [p EXCEPT !.imports[m] = imports, !.exports[m] = exports]

RemoveBindings(p, m, removed) == [p EXCEPT !.bindings[m] = @ \ removed]

-----------------------------------------------------------------------------
(* modules::prune and interface::prune, after the analysis has returned    *)

\* MUTANT: a module is cut when none of its bindings is live.
UnusedModules(p) == {m \in p.modules : \A b \in p.bindings[m] : ~IsBindingLive(m, b)}

UnreachableModules(p) == {m \in p.modules : ~IsModuleEvaluated(m)}

\* MUTANT: default and namespace imports are forgotten.
DeadNamedImport(m, import) == import.kind = "Named" /\ ~IsBindingLive(m, import.binding)

DeadImport(m, import) == BindsName(import) /\ ~IsBindingLive(m, import.binding)

DeadImportBindings(p, m) == {i.binding : i \in {x \in p.imports[m] : DeadImport(m, x)}}

PrunedImports(p, m) ==
  {IF DeadImport(m, i) THEN [kind |-> "Bare", source |-> i.source] ELSE i : i \in p.imports[m]}

\* The members of a set of positions up to n, in ascending order.
Ascending(S, n) ==
  LET Listed[i \in 0..n] ==
        IF i = 0 THEN <<>> ELSE IF i \in S THEN Append(Listed[i - 1], i) ELSE Listed[i - 1]
  IN  Listed[n]

\* MUTANT: a dead re-export is dropped together with its request.
StayingExportsDroppingRequests(p, m) == {i \in DOMAIN p.exports[m] : IsExportLive(m, i)}

\* The positions of the exports that stay, as they are or as an empty one.
StayingExports(p, m) ==
  {i \in DOMAIN p.exports[m] : IsExportLive(m, i) \/ HasSource(p.exports[m][i])}

KeptExports(p, m) == Ascending(StayingExports(p, m), Len(p.exports[m]))

PrunedExports(p, m) ==
  [k \in DOMAIN KeptExports(p, m) |->
     LET export == p.exports[m][KeptExports(p, m)[k]]
     IN  IF IsExportLive(m, KeptExports(p, m)[k]) THEN export
         ELSE [kind |-> "Empty", source |-> export.source]]

PrunedInterface(p, m) == ReplaceInterface(p, m, PrunedImports(p, m), PrunedExports(p, m))

-----------------------------------------------------------------------------
(* Properties                                                              *)

\* The bindings of m that live exports of m name.
LiveExportedBindings(p, m) ==
  {p.exports[m][i].binding :
     i \in {x \in DOMAIN p.exports[m] : p.exports[m][x].kind = "Local" /\ IsExportLive(m, x)}}

\* Once the analysis has returned, the asserts of remove_modules hold for what
\* modules::prune removes: no entry module is among it, and no dependency of a
\* module that stays leads there.  In a module that stays, interface::prune
\* removes no import binding that an operation loads or a live export names.
CutsNothingUsed ==
  phase = "done" =>
    /\ RemoveModulesAllowed(program, UnreachableModules(program))
    /\ \A m \in program.modules \ UnreachableModules(program) :
         DeadImportBindings(program, m)
           \cap (program.loads[m] \cup LiveExportedBindings(program, m)) = {}
=============================================================================
