--------------------------- MODULE CompileProgram ---------------------------
(***************************************************************************)
(* compile_program (crates/evrel-compiler/src/compile.rs): the host's      *)
(* input is validated, lowered and linked into a whole program             *)
(* (src/program.rs), analyzed, pruned, and compiled module by module.      *)
(*                                                                         *)
(* The run ends with the generated modules, with a CompilerError, or with  *)
(* a panic where an assert of the IR is not met.                           *)
(***************************************************************************)
EXTENDS PruneModuleGraph

CONSTANT
  Inputs,   \* the ProgramInputs a host may hand over
  ModuleKey \* the keys of the modules of an input

VARIABLES
  input,    \* the ProgramInput
  stage,    \* the part of compile_program that runs
  cursor,   \* the position in the list that part loops over
  output,   \* the keys of the modules generated so far
  outcome   \* how the run ended, or Pending

driverVars == <<input, stage, cursor, output, outcome>>
allVars    == <<program, reachVars, driverVars>>

-----------------------------------------------------------------------------
(* ProgramInput: a sequence of modules with their resolved requests.  Of a *)
(* module's source text only what the IR keeps of it is modelled, with two *)
(* flags: the front end accepts it, and code is generated for it.          *)

ModuleIr ==
  [imports : SUBSET ModuleImport, exports : Seq(ModuleExport), bindings : SUBSET Binding,
   loads : SUBSET Binding, guardedLoads : SUBSET Binding, writes : SUBSET Binding,
   eval : BOOLEAN, guardedEval : BOOLEAN, dynamic : SUBSET DynamicImport]

\* The asserts of add_import and add_export (module/module.rs:183), and the
\* bindings of operations and imports as the front end hands them out.
WellFormedIr(ir) ==
  /\ {i.binding : i \in {x \in ir.imports : BindsName(x)}} \subseteq ir.bindings
  /\ {e.binding : e \in {x \in ToSet(ir.exports) : x.kind = "Local"}} \subseteq ir.bindings
  /\ ir.loads \cup ir.guardedLoads \cup ir.writes \subseteq ir.bindings
  /\ \A i, j \in ir.imports : BindsName(i) /\ BindsName(j) /\ i.binding = j.binding => i = j

ResolvedRequest ==
  [request : RequestKind, source : Source,
   target  : [kind : {"Internal"}, key : ModuleKey]
               \cup [kind : {"Opaque", "External"}, key : Key]]

ProgramModule ==
  [key : ModuleKey, parses : BOOLEAN, generates : BOOLEAN, ir : ModuleIr,
   requests : SUBSET ResolvedRequest]

ProgramInput == [modules : Seq(ProgramModule), entrypoints : Seq(ModuleKey)]

\* There is a module ID for every module of an input.
ASSUME InputsLowerable ==
  \A i \in Inputs :
    /\ i \in ProgramInput
    /\ DOMAIN i.modules \subseteq Module
    /\ \A m \in DOMAIN i.modules : WellFormedIr(i.modules[m].ir)

Pending == [kind |-> "Pending"]
Success == [kind |-> "Success"]
Panic   == [kind |-> "Panic"]
Error(kind, module) == [kind |-> kind, module |-> module]

Outcome ==
  [kind : {"Pending", "Success", "Panic"}]
    \cup [kind : {"DuplicateProgramModule", "UnknownProgramEntrypoint",
                  "UnknownInternalModule", "ProgramModule"}, module : ModuleKey]

InputKeys == {m.key : m \in ToSet(input.modules)}

\* The module with allocation index i has module ID i.
KeyOf(i) == input.modules[i].key

\* module_by_key
ModuleByKey(key) == CHOOSE i \in program.modules : KeyOf(i) = key

-----------------------------------------------------------------------------
Fail(result) ==
  /\ stage' = "done"
  /\ outcome' = result
  /\ UNCHANGED <<program, reachVars, input, cursor, output>>

GoTo(next) == stage' = next /\ cursor' = 1

CompileInit ==
  /\ program = EmptyProgram
  /\ ReachabilityInit
  /\ input \in Inputs
  /\ stage = "validate"
  /\ cursor = 1
  /\ output = <<>>
  /\ outcome = Pending

\* validate_program_input.  Each check stops at its first offender.
DuplicateModules ==
  {i \in DOMAIN input.modules : \E j \in 1..(i - 1) : KeyOf(i) = KeyOf(j)}

UnknownEntrypoints ==
  {i \in DOMAIN input.entrypoints : input.entrypoints[i] \notin InputKeys}

UnknownTargets ==
  {i \in DOMAIN input.modules :
     \E r \in input.modules[i].requests :
       r.target.kind = "Internal" /\ r.target.key \notin InputKeys}

FirstOf(S) == CHOOSE i \in S : \A j \in S : i <= j

Validation ==
  CASE DuplicateModules # {} ->
         Error("DuplicateProgramModule", KeyOf(FirstOf(DuplicateModules)))
    [] DuplicateModules = {} /\ UnknownEntrypoints # {} ->
         Error("UnknownProgramEntrypoint", input.entrypoints[FirstOf(UnknownEntrypoints)])
    [] DuplicateModules \cup UnknownEntrypoints = {} /\ UnknownTargets # {} ->
         Error("UnknownInternalModule", KeyOf(FirstOf(UnknownTargets)))
    [] OTHER -> Pending

RejectInput ==
  /\ stage = "validate"
  /\ Validation # Pending
  /\ Fail(Validation)

AcceptInput ==
  /\ stage = "validate"
  /\ Validation = Pending
  /\ GoTo("lower")
  /\ UNCHANGED <<program, reachVars, input, output, outcome>>

-----------------------------------------------------------------------------
(* lower_modules, link_dependencies, add_entrypoints                       *)

AddModule(p, m, ir) ==
  [p EXCEPT !.modules = @ \cup {m},
            !.imports[m] = ir.imports,
            !.exports[m] = ir.exports,
            !.bindings[m] = ir.bindings,
            !.loads[m] = ir.loads,
            !.guardedLoads[m] = ir.guardedLoads,
            !.writes[m] = ir.writes,
            !.directEval = IF ir.eval THEN @ \cup {m} ELSE @,
            !.guardedEval = IF ir.guardedEval THEN @ \cup {m} ELSE @,
            !.dynamicImports[m] = ir.dynamic]

LowerModule ==
  /\ stage = "lower" /\ cursor \in DOMAIN input.modules
  /\ input.modules[cursor].parses
  /\ program' = AddModule(program, cursor, input.modules[cursor].ir)
  /\ cursor' = cursor + 1
  /\ UNCHANGED <<reachVars, input, stage, output, outcome>>

RejectModule ==
  /\ stage = "lower" /\ cursor \in DOMAIN input.modules
  /\ ~input.modules[cursor].parses
  /\ Fail(Error("ProgramModule", KeyOf(cursor)))

ResolvedTarget(target) ==
  IF target.kind = "Internal" THEN [kind |-> "Internal", module |-> ModuleByKey(target.key)]
  ELSE target

DependenciesOf(i) ==
  {[importer |-> ModuleByKey(KeyOf(i)), request |-> r.request, source |-> r.source,
    target |-> ResolvedTarget(r.target)] : r \in input.modules[i].requests}

LinkDependencies ==
  /\ stage = "lower" /\ cursor \notin DOMAIN input.modules
  /\ program' = [program EXCEPT
       !.dependencies = UNION {DependenciesOf(i) : i \in DOMAIN input.modules},
       !.entries = {ModuleByKey(k) : k \in ToSet(input.entrypoints)}]
  /\ GoTo("analyze")
  /\ UNCHANGED <<reachVars, input, output, outcome>>

-----------------------------------------------------------------------------
(* ProgramReachability::analyze, step by step                              *)

AnalyzeProgram ==
  /\ stage = "analyze"
  /\ Analyze
  /\ UNCHANGED driverVars

-----------------------------------------------------------------------------
(* prune_module_graph                                                      *)

PruneModules ==
  /\ stage = "analyze" /\ phase = "done"
  /\ IF RemoveModulesAllowed(program, UnreachableModules(program))
     THEN /\ program' = RemoveModules(program, UnreachableModules(program))
          /\ GoTo("interfaces")
          /\ UNCHANGED <<reachVars, input, output, outcome>>
     ELSE Fail(Panic)

\* MUTANT: the loops visit the modules of the input.
NextInputModule == {m \in DOMAIN input.modules : m >= cursor /\ \A n \in DOMAIN input.modules :
                                                                  n >= cursor => m <= n}

\* The modules the loops below visit, in allocation order from the cursor on.
NextModule == {m \in program.modules : m >= cursor /\ \A n \in program.modules :
                                                        n >= cursor => m <= n}

PruneInterface ==
  /\ stage = "interfaces"
  /\ \E m \in NextModule :
       IF RemoveBindingsAllowed(PrunedInterface(program, m), m, DeadImportBindings(program, m))
       THEN /\ program' = RemoveBindings(PrunedInterface(program, m), m,
                                         DeadImportBindings(program, m))
            /\ cursor' = m + 1
            /\ UNCHANGED <<reachVars, input, stage, output, outcome>>
       ELSE Fail(Panic)

FinishPruning ==
  /\ stage = "interfaces" /\ NextModule = {}
  /\ GoTo("compile")
  /\ UNCHANGED <<program, reachVars, input, output, outcome>>

-----------------------------------------------------------------------------
(* The loop over the retained modules                                      *)

GenerateModule ==
  /\ stage = "compile"
  /\ \E m \in NextModule :
       /\ input.modules[m].generates
       /\ output' = Append(output, KeyOf(m))
       /\ cursor' = m + 1
  /\ UNCHANGED <<program, reachVars, input, stage, outcome>>

FailModule ==
  /\ stage = "compile"
  /\ \E m \in NextModule :
       /\ ~input.modules[m].generates
       /\ Fail(Error("ProgramModule", KeyOf(m)))

Deliver ==
  /\ stage = "compile" /\ NextModule = {}
  /\ stage' = "done"
  /\ outcome' = Success
  /\ UNCHANGED <<program, reachVars, input, cursor, output>>

Work ==
  \/ RejectInput \/ AcceptInput
  \/ LowerModule \/ RejectModule \/ LinkDependencies
  \/ AnalyzeProgram
  \/ PruneModules \/ PruneInterface \/ FinishPruning
  \/ GenerateModule \/ FailModule \/ Deliver

\* compile_program has returned, or the process has died of the panic.
Ended == stage = "done" /\ UNCHANGED allVars

CompileNext == Work \/ Ended
CompileSpec == CompileInit /\ [][CompileNext]_allVars /\ WF_allVars(Work)
=============================================================================
