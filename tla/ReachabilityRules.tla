-------------------------- MODULE ReachabilityRules --------------------------
(***************************************************************************)
(* The rules of whole-program reachability                                 *)
(* (crates/evrel-middle/src/js/analysis/program_reachability.rs): which    *)
(* facts follow from a fact, which export demands follow from a demand,    *)
(* and when the analysis gives up.  ProgramReachability runs them with     *)
(* worklists; the answer they owe is stated at the end, as the least one   *)
(* that is closed under them.                                              *)
(***************************************************************************)
EXTENDS ProgramLinkage

CONSTANT Programs   \* the programs the analysis may be started on

ASSUME ProgramsWellFormed ==
  Programs \subseteq JsProgramIr /\ \A p \in Programs : WellFormed(p)

-----------------------------------------------------------------------------
(* ReachabilityFact                                                        *)

EvaluateModule(m) == [kind |-> "EvaluateModule", module |-> m]
UseNamespace(m)   == [kind |-> "UseNamespace", module |-> m]
UseBinding(m, b)  == [kind |-> "UseBinding", module |-> m, binding |-> b]

ReachabilityFact ==
  [kind : {"EvaluateModule", "UseNamespace"}, module : Module]
    \cup [kind : {"UseBinding"}, module : Module, binding : Binding]

UseBindings(m, S) == {UseBinding(m, b) : b \in S}

\* retain_entry_exports: what the interface of an entry module keeps alive.
EntryExportsResolved(p, m) ==
  \A e \in ToSet(p.exports[m]) :
    e.kind \notin {"Empty", "Local"} => HasUniqueTarget(p, m, "ReExport", e.source)

EntryFacts(p, m) ==
  {EvaluateModule(m)}
    \cup UseBindings(m, ExportedBindings(p, m))
    \cup {UseNamespace(n) : n \in
            UNION {InternalTarget(p, m, "ReExport", e.source) :
                     e \in {x \in ToSet(p.exports[m]) : x.kind \notin {"Empty", "Local"}}}}

\* has_complete_dynamic_linkage
HasCompleteDynamicLinkage(p, m) ==
  \A d \in p.dynamicImports[m] :
    ~d.options /\ d.constant /\ HasUniqueTarget(p, m, "DynamicImport", d.source)

\* has_complete_linkage
HasCompleteLinkage(p, m) ==
  /\ \A i \in p.imports[m] : HasUniqueTarget(p, m, "StaticImport", i.source)
  /\ \A e \in ToSet(p.exports[m]) :
       HasSource(e) => HasUniqueTarget(p, m, "ReExport", e.source)
  /\ HasCompleteDynamicLinkage(p, m)

\* The facts on which the analysis gives up.
GivesUp(p, f) ==
  CASE f.kind = "EvaluateModule" -> ~HasCompleteLinkage(p, f.module)
    [] f.kind = "UseBinding"     -> UnresolvedTarget \in ImportedBinding(p, f.module, f.binding)
    [] f.kind = "UseNamespace"   -> FALSE

\* MUTANT: eval is taken for a call like any other.
BindingsLoadedByName(p, m) == p.loads[m]

\* The bindings the operations of an evaluated module use: the loop looks at
\* the kind of an operation only, so it passes over a load or an eval in Invoke.
LoadedBindings(p, m) == IF m \in p.directEval THEN p.bindings[m] ELSE p.loads[m]

\* The requests whose answer is the whole namespace of the target.
NamespaceRequests == {"DynamicImport", "CommonJsRequire"}

\* MUTANT: a re-export does not evaluate the module it names.
FactsOfModuleImportsOnly(p, m) ==
  {EvaluateModule(n) : n \in InternalDependencies(p, m, RequestKind \ {"ReExport"})}
    \cup {UseNamespace(n) : n \in InternalDependencies(p, m, NamespaceRequests)}
    \cup UseBindings(m, LoadedBindings(p, m))

FactsOfModule(p, m) ==
  {EvaluateModule(n) : n \in InternalDependencies(p, m, RequestKind)}
    \cup {UseNamespace(n) : n \in InternalDependencies(p, m, NamespaceRequests)}
    \cup UseBindings(m, LoadedBindings(p, m))

FactsOfBinding(p, m, b) ==
  LET targets == ImportedBinding(p, m, b)
  IN  {UseBinding(t[1], t[2]) : t \in
         {x \in ProgramBinding : BindingTarget(x[1], x[2]) \in targets}}
      \cup {UseNamespace(n) : n \in
         {x \in Module : NamespaceTarget([kind |-> "Internal", module |-> x]) \in targets}}

FactsOfNamespace(p, m) == {EvaluateModule(m)} \cup UseBindings(m, p.bindings[m])

\* The facts that follow from a settled fact.
Pushed(p, f) ==
  CASE f.kind = "EvaluateModule" -> FactsOfModule(p, f.module)
    [] f.kind = "UseBinding"     -> FactsOfBinding(p, f.module, f.binding)
    [] f.kind = "UseNamespace"   -> FactsOfNamespace(p, f.module)

-----------------------------------------------------------------------------
(* ExportDemand                                                            *)

NameDemand(m, name) == [kind |-> "Name", module |-> m, name |-> name]
NamespaceDemand(m)  == [kind |-> "Namespace", module |-> m]

ExportDemand ==
  [kind : {"Name"}, module : Module, name : Name]
    \cup [kind : {"Namespace"}, module : Module]

\* The demand a live import makes on the module it names.
ImportDemand(import, m) ==
  CASE import.kind = "Default"   -> NameDemand(m, "default")
    [] import.kind = "Named"     -> NameDemand(m, import.imported)
    [] import.kind = "Namespace" -> NamespaceDemand(m)

ImportDemands(p, m, facts) ==
  UNION {{ImportDemand(i, n) : n \in InternalTarget(p, m, "StaticImport", i.source)} :
           i \in {x \in p.imports[m] : BindsName(x) /\ UseBinding(m, x.binding) \in facts}}

\* MUTANT: the interfaces of the entry modules are not demanded.
InitialDemandsOfUses(p, facts) ==
  {NamespaceDemand(m) : m \in {n \in Module : UseNamespace(n) \in facts}}
    \cup UNION {ImportDemands(p, m, facts) : m \in p.modules}

\* The demands compute_live_exports starts from.
InitialDemands(p, facts) ==
  {NamespaceDemand(m) : m \in p.entries \cup {n \in Module : UseNamespace(n) \in facts}}
    \cup UNION {ImportDemands(p, m, facts) : m \in p.modules}

\* MUTANT: the search stops at the first `export *'.
FirstStarExport(p, m) ==
  {i \in DOMAIN p.exports[m] :
     /\ p.exports[m][i].kind = "Star"
     /\ \A j \in 1..(i - 1) : p.exports[m][j].kind # "Star"}

StarExports(p, m) == {i \in DOMAIN p.exports[m] : p.exports[m][i].kind = "Star"}

\* The positions of the exports of d.module a demand makes live.
DemandedExports(p, d) ==
  IF d.kind = "Namespace" THEN DOMAIN p.exports[d.module]
  ELSE IF ExplicitExport(p, d.module, d.name) # {} THEN ExplicitExport(p, d.module, d.name)
  ELSE IF d.name = "default" THEN {} ELSE StarExports(p, d.module)

\* MUTANT: a renamed re-export is looked up by its new name.
ForwardedDemandRenamed(d, export, m) ==
  CASE export.kind = "Indirect"                    -> NameDemand(m, export.exported)
    [] export.kind = "Star" /\ d.kind = "Name"     -> NameDemand(m, d.name)
    [] export.kind = "Star" /\ d.kind # "Name"     -> NamespaceDemand(m)
    [] export.kind \notin {"Indirect", "Star"}     -> NamespaceDemand(m)

\* push_forwarded_export_demand, and for a name looked up through `export *'
\* the same name again in the target.
ForwardedDemand(d, export, m) ==
  CASE export.kind = "Indirect"                    -> NameDemand(m, export.imported)
    [] export.kind = "Star" /\ d.kind = "Name"     -> NameDemand(m, d.name)
    [] export.kind = "Star" /\ d.kind # "Name"     -> NamespaceDemand(m)
    [] export.kind \notin {"Indirect", "Star"}     -> NamespaceDemand(m)

\* push_internal_export_demand on every demanded export that has a target.
Forwarded(p, d) ==
  UNION {
    LET export == p.exports[d.module][i]
    IN  {ForwardedDemand(d, export, m) : m \in
           IF export.kind \in {"Indirect", "Namespace", "Star"}
           THEN InternalTarget(p, d.module, "ReExport", export.source) ELSE {}} :
      i \in DemandedExports(p, d)}

\* The local bindings of d.module the demanded exports name.
RequiredBindings(p, d) ==
  {<<d.module, p.exports[d.module][i].binding>> :
     i \in {x \in DemandedExports(p, d) : p.exports[d.module][x].kind = "Local"}}

-----------------------------------------------------------------------------
(* The retained program                                                    *)

AllFacts(p) ==
  {EvaluateModule(m) : m \in p.modules}
    \cup UNION {UseBindings(m, p.bindings[m]) : m \in p.modules}

AllExports(p) == UNION {{m} \X DOMAIN p.exports[m] : m \in p.modules}

\* A set of facts and a set of export demands closed under the rules of the
\* analysis: what evaluation, use and export forwarding ask for is in them.
ClosedUnderUse(p, facts, asked) ==
  /\ \A m \in p.entries : EntryFacts(p, m) \subseteq facts
  /\ \A f \in facts : Pushed(p, f) \subseteq facts
  /\ InitialDemands(p, facts) \subseteq asked
  /\ \A d \in asked :
       /\ Forwarded(p, d) \subseteq asked
       /\ \A x \in RequiredBindings(p, d) : UseBinding(x[1], x[2]) \in facts

-----------------------------------------------------------------------------
(* The answer whole-program reachability owes, as a least fixed point of   *)
(* its rules: a reference definition with no worklist and no order.        *)

\* One round of push_forwarded_export_demand on every demand.
ForwardedOnce(p) ==
  [D \in SUBSET ExportDemand |-> D \cup UNION {Forwarded(p, d) : d \in D}]

\* The least set of demands that holds asked and is closed under forwarding.
DemandClosure(p, asked) == LeastClosed(ExportDemand, ForwardedOnce(p), asked)

FinalDemands(p, facts) == DemandClosure(p, InitialDemands(p, facts))

Consequences(p, facts) ==
  (UNION {EntryFacts(p, m) : m \in p.entries})
    \cup (UNION {Pushed(p, f) : f \in facts})
    \cup UNION {{UseBinding(x[1], x[2]) : x \in RequiredBindings(p, d)} :
                  d \in FinalDemands(p, facts)}

\* One round of all rules on every fact.
SettledOnce(p) == [F \in SUBSET ReachabilityFact |-> F \cup Consequences(p, F)]

LeastFacts(p) == LeastClosed(ReachabilityFact, SettledOnce(p), {})

\* The answer, given the least set of facts.
AnswerFrom(p, facts) ==
  IF \/ \E m \in p.entries : ~EntryExportsResolved(p, m)
     \/ \E f \in facts : GivesUp(p, f)
  THEN [facts |-> AllFacts(p), exports |-> AllExports(p), given |-> TRUE]
  ELSE [facts |-> facts,
        exports |-> UNION {{d.module} \X DemandedExports(p, d) : d \in FinalDemands(p, facts)},
        given |-> TRUE]

CorrectAnswer(p) == AnswerFrom(p, LeastFacts(p))
=============================================================================
