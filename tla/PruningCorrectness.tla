-------------------------- MODULE PruningCorrectness --------------------------
(***************************************************************************)
(* What a host may rely on when it compiles a whole program: what the      *)
(* program means does not change under pruning, no assert of the IR        *)
(* editors fails, and the run ends in the way the input calls for.         *)
(***************************************************************************)
EXTENDS CompileProgram

\* No assert of remove_modules, replace_module_interface or remove_bindings
\* fails: what pruning takes away is referred to by nothing that stays.
NoPanic == outcome # Panic

\* The imports of m whose every use in m is one that reachability does not
\* count: assigned to, or read inside a `try', and read nowhere else.
UncountedImports(p, m) ==
  (ImportedBindings(p, m) \cap (p.writes[m] \cup p.guardedLoads[m])) \ p.loads[m]

\* The asserts of the editors fail only over an import of an evaluated module
\* that is assigned to, or read inside a `try', and never read outside one: it
\* is taken for dead and removed while operations still name it.  A program
\* without such an import is pruned without a panic.
PanicsOnUncountedImports ==
  outcome = Panic =>
    \E m \in program.modules : \E b \in UncountedImports(program, m) :
      IsModuleEvaluated(m) /\ ~IsBindingLive(m, b)

\* The asserts with which the IR is built hold after every edit too: entries
\* and dependency targets are owned, interfaces and operations name bindings
\* that exist, and no import binding is declared twice.
ProgramStaysWellFormed == program \in JsProgramIr /\ WellFormed(program)

-----------------------------------------------------------------------------
(* The program as the input describes it                                   *)

IndexOfKey(key) == CHOOSE i \in DOMAIN input.modules : KeyOf(i) = key

InputPart(part(_), empty) ==
  [m \in Module |-> IF m \in DOMAIN input.modules THEN part(input.modules[m].ir) ELSE empty]

InputProgram ==
  [ modules        |-> DOMAIN input.modules,
    entries        |-> {IndexOfKey(k) : k \in ToSet(input.entrypoints)},
    dependencies   |-> UNION {
      {[importer |-> i, request |-> r.request, source |-> r.source,
        target |-> IF r.target.kind = "Internal"
                   THEN [kind |-> "Internal", module |-> IndexOfKey(r.target.key)]
                   ELSE r.target] : r \in input.modules[i].requests} :
      i \in DOMAIN input.modules},
    imports        |-> InputPart(LAMBDA ir : ir.imports, {}),
    exports        |-> InputPart(LAMBDA ir : ir.exports, <<>>),
    bindings       |-> InputPart(LAMBDA ir : ir.bindings, {}),
    loads          |-> InputPart(LAMBDA ir : ir.loads, {}),
    guardedLoads   |-> InputPart(LAMBDA ir : ir.guardedLoads, {}),
    writes         |-> InputPart(LAMBDA ir : ir.writes, {}),
    directEval     |-> {m \in DOMAIN input.modules : input.modules[m].ir.eval},
    guardedEval    |-> {m \in DOMAIN input.modules : input.modules[m].ir.guardedEval},
    dynamicImports |-> InputPart(LAMBDA ir : ir.dynamic, {}) ]

-----------------------------------------------------------------------------
(* Meaning is preserved                                                    *)

Pruned == stage \in {"compile", "done"} /\ outcome \in {Pending, Success}

\* What every name of a module's namespace resolves to.
View(p, m) == [x \in Name |-> ResolveExport(p, m, x)]

\* Every import binding that is left is linked, by the pruned interfaces, to
\* what it was linked to in the program the host described; an import that is
\* linked to a namespace sees the same names in it.  Pruning an export that
\* shadows or an `export *' that disambiguates would re-link an import.
LinksPreserved ==
  Pruned =>
    \A m \in program.modules : \A b \in ImportedBindings(program, m) :
      /\ ImportedBinding(program, m, b) = ImportedBinding(InputProgram, m, b)
      /\ \A n \in Module :
           NamespaceTarget([kind |-> "Internal", module |-> n]) \in ImportedBinding(program, m, b)
             => View(program, n) = View(InputProgram, n)

\* Every binding that an operation of a module still names is there, a module
\* that calls eval outside a `try' has all the bindings and imports it had, and
\* the public names of an entry module denote what they denoted.
EntryViewsPreserved ==
  Pruned =>
    /\ \A m \in program.modules :
         program.loads[m] \cup program.guardedLoads[m] \cup program.writes[m]
           \subseteq program.bindings[m]
    /\ \A m \in program.modules \cap program.directEval :
         /\ program.bindings[m] = InputProgram.bindings[m]
         /\ program.imports[m] = InputProgram.imports[m]
    /\ \A m \in program.entries : View(program, m) = View(InputProgram, m)

\* Nothing of the program lies outside an answer of the analysis.
KeepsEverything(p, answer) ==
  \A m \in p.modules :
    /\ EvaluateModule(m) \in answer.facts
    /\ \A b \in ImportedBindings(p, m) : UseBinding(m, b) \in answer.facts
    /\ \A i \in DOMAIN p.exports[m] :
         p.exports[m][i].kind # "Empty" => <<m, i>> \in answer.exports

\* Pruning runs to its end in one go: analyzed once more, the pruned program
\* has nothing left to remove.
PruningIsFinal ==
  Pruned /\ ~retained => KeepsEverything(program, CorrectAnswer(program))

\* The requests of a module, by which evaluation reaches other modules.
RequestsOf(p, m) ==
  {<<"StaticImport", i.source>> : i \in p.imports[m]}
    \cup {<<"ReExport", e.source>> : e \in {x \in ToSet(p.exports[m]) : HasSource(x)}}

\* A step of pruning leaves the requests of the modules that stay alone.
KeepsRequests ==
  stage \in {"analyze", "interfaces"} =>
    \A m \in (program').modules : RequestsOf(program', m) = RequestsOf(program, m)

\* While the program is pruned, a module that stays keeps every request it
\* makes, so the modules it evaluates for their effects stay the same.
RequestsPreserved == [][KeepsRequests]_allVars

-----------------------------------------------------------------------------
(* The contract of a run                                                   *)

InputIsValid ==
  /\ \A i, j \in DOMAIN input.modules : KeyOf(i) = KeyOf(j) => i = j
  /\ ToSet(input.entrypoints) \subseteq InputKeys
  /\ \A m \in ToSet(input.modules) : \A r \in m.requests :
       r.target.kind = "Internal" => r.target.key \in InputKeys

FailsToParse == {i \in DOMAIN input.modules : ~input.modules[i].parses}

KeysInOrder(S) == {<<Cardinality({n \in S : n <= m}), KeyOf(m)>> : m \in S}

\* How a run on a valid input ends that can lower every module, if reachable
\* is the set of modules that evaluation can reach.
Delivers(reachable) ==
  LET failing == {m \in reachable : ~input.modules[m].generates}
  IN  IF failing # {} THEN outcome = Error("ProgramModule", KeyOf(Min(failing)))
      ELSE /\ outcome = Success
           /\ {<<i, output[i]>> : i \in DOMAIN output} = KeysInOrder(reachable)

ReachableModules(facts) == {m \in DOMAIN input.modules : EvaluateModule(m) \in facts}

\* What a run that ended delivers follows from the input alone.  An invalid
\* input delivers nothing; the first module in input order that cannot be
\* lowered, or else the first reachable one that cannot be generated, is the
\* one reported; an unreachable module fails nothing; and a successful run
\* delivers each reachable module once, in input order.
OutcomeFollowsInput ==
  stage = "done" /\ outcome # Panic =>
    CASE ~InputIsValid ->
           /\ output = <<>>
           /\ outcome.kind \in {"DuplicateProgramModule", "UnknownProgramEntrypoint",
                                "UnknownInternalModule"}
      [] InputIsValid /\ FailsToParse # {} ->
           output = <<>> /\ outcome = Error("ProgramModule", KeyOf(Min(FailsToParse)))
      [] OTHER -> Delivers(ReachableModules(CorrectAnswer(InputProgram).facts))
=============================================================================
