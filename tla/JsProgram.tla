----------------------------- MODULE JsProgram -----------------------------
(***************************************************************************)
(* The whole-program IR of evrel (crates/evrel-js-ir/src/program.rs and    *)
(* src/module/): the inspectable modules, the host-resolved dependency     *)
(* edges between them, and of every module its static interface (imports,  *)
(* exports) together with what its functions do to its bindings.           *)
(*                                                                         *)
(* Data is abstracted to what linkage, reachability and pruning can tell   *)
(* apart.  A Source stands for a module specifier with its import          *)
(* attributes.  The operations of a module's functions are abstracted to   *)
(* the bindings they load, the bindings they reference in any other way,   *)
(* whether one of them loads the global `eval', and its dynamic imports.   *)
(*                                                                         *)
(* A load that may throw and stands inside a `try' is an operation Invoke  *)
(* that wraps the load (FunctionBuilder::emit, crates/evrel-frontend/src/  *)
(* lower/function.rs): these loads are kept apart as guarded, since not    *)
(* every reader of the IR looks into Invoke.                               *)
(***************************************************************************)
EXTENDS Naturals, FiniteSets, SequencesExt

CONSTANTS
  Module,    \* the module IDs a program can allocate
  Binding,   \* the binding IDs of a module (each module has its own arena)
  Name,      \* the export names, "default" among them
  Source,    \* the request strings of imports, exports and dynamic imports
  Key        \* the keys of modules that are not part of the program

ASSUME FiniteIds == IsFiniteSet(Module) /\ IsFiniteSet(Binding) /\ IsFiniteSet(Name)
ASSUME DefaultIsAName == "default" \in Name

-----------------------------------------------------------------------------
(* Dependencies                                                            *)

RequestKind == {"StaticImport", "ReExport", "DynamicImport", "CommonJsRequire"}

ModuleTarget == [kind : {"Internal"}, module : Module]
                  \cup [kind : {"Opaque", "External"}, key : Key]

ModuleDependency ==
  [importer : Module, request : RequestKind, source : Source, target : ModuleTarget]

-----------------------------------------------------------------------------
(* Static interfaces                                                       *)

ModuleImport ==
  [kind : {"Bare"}, source : Source]
    \cup [kind : {"Default", "Namespace"}, source : Source, binding : Binding]
    \cup [kind : {"Named"}, source : Source, binding : Binding, imported : Name]

ModuleExport ==
  [kind : {"Empty", "Star"}, source : Source]
    \cup [kind : {"Local"}, exported : Name, binding : Binding]
    \cup [kind : {"Indirect"}, source : Source, imported : Name, exported : Name]
    \cup [kind : {"Namespace"}, source : Source, exported : Name]

DynamicImport == [options : BOOLEAN, constant : BOOLEAN, source : Source]

BindsName(import) == import.kind # "Bare"
HasExportedName(export, name) ==
  export.kind \in {"Local", "Indirect", "Namespace"} /\ export.exported = name
HasSource(export) == export.kind # "Local"

-----------------------------------------------------------------------------
(* Programs                                                                *)

ProgramBinding == Module \X Binding

JsProgramIr ==
  [ modules        : SUBSET Module,
    entries        : SUBSET Module,
    dependencies   : SUBSET ModuleDependency,
    imports        : [Module -> SUBSET ModuleImport],
    exports        : [Module -> Seq(ModuleExport)],
    bindings       : [Module -> SUBSET Binding],
    loads          : [Module -> SUBSET Binding],
    guardedLoads   : [Module -> SUBSET Binding],
    writes         : [Module -> SUBSET Binding],
    directEval     : SUBSET Module,
    guardedEval    : SUBSET Module,
    dynamicImports : [Module -> SUBSET DynamicImport] ]

EmptyProgram ==
  [ modules        |-> {},
    entries        |-> {},
    dependencies   |-> {},
    imports        |-> [m \in Module |-> {}],
    exports        |-> [m \in Module |-> <<>>],
    bindings       |-> [m \in Module |-> {}],
    loads          |-> [m \in Module |-> {}],
    guardedLoads   |-> [m \in Module |-> {}],
    writes         |-> [m \in Module |-> {}],
    directEval     |-> {},
    guardedEval    |-> {},
    dynamicImports |-> [m \in Module |-> {}] ]

\* The bindings named by the export list of m.
ExportedBindings(p, m) ==
  {e.binding : e \in {x \in ToSet(p.exports[m]) : x.kind = "Local"}}

\* The bindings named by the import list of m.
ImportedBindings(p, m) == {i.binding : i \in {x \in p.imports[m] : BindsName(x)}}

\* MUTANT: what Invoke wraps is not looked at.
BindingsOfPlainOperations(p, m) == p.loads[m] \cup p.writes[m]

\* Every binding a live operation of m refers to (visit_referenced_bindings,
\* which looks into Invoke).
ReferencedBindings(p, m) == p.loads[m] \cup p.guardedLoads[m] \cup p.writes[m]

\* What the asserts of add_module, add_entry_module, add_dependency,
\* add_import, add_export and remove_bindings keep true of a program.
WellFormed(p) ==
  /\ p.entries \subseteq p.modules
  /\ \A d \in p.dependencies :
       /\ d.importer \in p.modules
       /\ d.target.kind = "Internal" => d.target.module \in p.modules
  /\ \A m \in p.modules :
       /\ ImportedBindings(p, m) \cup ExportedBindings(p, m) \subseteq p.bindings[m]
       /\ ReferencedBindings(p, m) \subseteq p.bindings[m]
       /\ \A i, j \in p.imports[m] :
            BindsName(i) /\ BindsName(j) /\ i.binding = j.binding => i = j

-----------------------------------------------------------------------------
(* DependencyIndex: the edges of one importer that answer a request.  The  *)
(* answer is the one target all of them agree on: a set with at most one   *)
(* element, empty when the host gave no answer or contradictory ones.      *)

Targets(p, importer, request, source) ==
  {d.target : d \in {x \in p.dependencies : /\ x.importer = importer
                                             /\ x.request = request
                                             /\ x.source = source}}

UniqueTarget(p, importer, request, source) ==
  {t \in Targets(p, importer, request, source) :
     Targets(p, importer, request, source) = {t}}

HasUniqueTarget(p, importer, request, source) ==
  UniqueTarget(p, importer, request, source) # {}

InternalTarget(p, importer, request, source) ==
  {m \in Module : [kind |-> "Internal", module |-> m]
                    \in UniqueTarget(p, importer, request, source)}

\* The modules the edges of an importer lead to, by a request of one of kinds.
InternalDependencies(p, importer, kinds) ==
  {m \in Module : \E d \in p.dependencies :
     /\ d.importer = importer
     /\ d.request \in kinds
     /\ d.target = [kind |-> "Internal", module |-> m]}
=============================================================================
