--------------------------- MODULE CompileFunction ---------------------------
(***************************************************************************)
(* A function on its way through the compiler                              *)
(* (crates/evrel-compiler/src/compile.rs): it is lowered from its text,    *)
(* loses the bindings that nothing reads, has its other bindings promoted  *)
(* to values, is optimised, the functions it no longer creates leave the   *)
(* module, and it is written down again.  The phases run one after the     *)
(* other; OptimizeFunction has the optimisation, and PruneFunctions takes  *)
(* the removal of functions through modules of every shape.                *)
(***************************************************************************)
EXTENDS OptimizationCorrectness, LowerFunction, SourceMeaning, PromoteBindings, EmitFunction,
        ModuleFunctions

CONSTANT Programs          \* the texts that are compiled

VARIABLES
  text,                    \* the program, as it was written
  phase,                   \* what happens to it next
  promotable,              \* the bindings found to be promotable and still to promote
  owned,                   \* the functions that the module owns
  output                   \* what the generator made of it

compileVars == <<correctnessVars, text, phase, promotable, owned, output>>

NoOutput == <<>>

EmptyFunction == NewBuilder(NoBindings, FALSE).function

-----------------------------------------------------------------------------
(* The module around the function: its entry, which has nothing left to do *)
(* but to create the function (or is the function), and the functions that *)
(* the function creates, which refer to the bindings they capture.         *)

ModuleEntry == <<"entry", 0>>
Compiled(f) == IF f.entry THEN ModuleEntry ELSE <<"function", 0>>
Created(o)  == <<"created", o>>

Creations(f) == {o \in DOMAIN f.operations : ExecutedKind(f.operations[o]) = "CreateFunction"}

OwnedWhenLowered(f) == {ModuleEntry, Compiled(f)} \cup {Created(o) : o \in Creations(f)}

CreatedInOrder(f) == [i \in DOMAIN InOrder(Creations(f)) |-> Created(InOrder(Creations(f))[i])]

ModuleAround(f, functions) ==
  LET me == Compiled(f)
  IN  [entry     |-> ModuleEntry,
       parent    |-> [g \in functions |-> IF g = ModuleEntry THEN {} ELSE IF g = me THEN {ModuleEntry} ELSE {me}],
       creates   |-> [g \in functions |-> IF g = me THEN CreatedInOrder(f)
                                         ELSE IF g = ModuleEntry THEN <<me>> ELSE <<>>],
       names     |-> [g \in functions |->
                        IF g = ModuleEntry /\ g # me THEN {}
                        ELSE {n \in DOMAIN f.bindings :
                                IF g = me THEN ReferencesTo(f, n) # {} ELSE f.bindings[n].captured}],
       declarer  |-> [n \in DOMAIN f.bindings |-> me],
       interface |-> {}]

-----------------------------------------------------------------------------

CompileInit ==
  /\ text \in Programs /\ phase = "lower" /\ promotable = {} /\ owned = {}
  /\ output = NoOutput
  /\ function = EmptyFunction /\ calls = <<>> /\ removal = NoRemoval /\ panicked = FALSE
  /\ stage = 1 /\ work = <<>> /\ values = NoAnalysis
  /\ meaning = MeaningOfText(text)

Lower ==
  /\ phase = "lower"
  /\ \E builder \in {LowerFunctionBody(text)} :
       /\ function' = builder.function /\ panicked' = builder.panicked
       /\ owned' = OwnedWhenLowered(builder.function)
  /\ phase' = "eliminate_dead_bindings"
  /\ UNCHANGED <<calls, removal, stage, work, values, meaning, text, promotable, output>>

\* What can be promoted is decided for all bindings at once, before the first
\* of them is promoted.
EliminateDeadBindings ==
  /\ phase = "eliminate_dead_bindings" /\ ~ panicked
  /\ function' = WithoutBindings(function, DeadBindings(function))
  /\ promotable' = PromotableBindings(function')
  /\ phase' = "promote_bindings_to_ssa"
  /\ UNCHANGED <<calls, removal, panicked, stage, work, values, meaning, text, owned, output>>

\* The candidates come in no order that matters.
PromoteBinding ==
  /\ phase = "promote_bindings_to_ssa" /\ ~ panicked
  /\ \E name \in promotable :
       /\ promotable' = promotable \ {name}
       /\ \E update \in {UpdateFor(function, name)} :
            IF CanPromote(function, name, update)
            THEN function' = Promoted(function, name, update) /\ UNCHANGED panicked
            ELSE panicked' = TRUE /\ UNCHANGED function
  /\ UNCHANGED <<calls, removal, stage, work, values, meaning, text, phase, owned, output>>

StartOptimizing ==
  /\ phase = "promote_bindings_to_ssa" /\ promotable = {} /\ ~ panicked
  /\ phase' = "optimize"
  /\ UNCHANGED <<correctnessVars, text, promotable, owned, output>>

Optimize == phase = "optimize" /\ CheckedNext /\ UNCHANGED <<text, phase, promotable, owned, output>>

\* The whole of prune_unreachable_functions: the walk, and the removal of what
\* it did not reach.
PruneUnreachableFunctions ==
  /\ phase = "optimize" /\ Done /\ ~ panicked
  /\ \E module \in {ModuleAround(function, owned)} :
       LET unreachable == owned \ CompleteWalk(module).reached
       IN  IF /\ \A g \in CompleteWalk(module).reached : RefersToOwned(module, g)
              /\ unreachable # {} => MayRemoveFunctions(module, unreachable)
           THEN owned' = owned \ unreachable /\ UNCHANGED panicked
           ELSE panicked' = TRUE /\ UNCHANGED owned
  /\ phase' = "generate"
  /\ UNCHANGED <<function, calls, removal, stage, work, values, meaning, text, promotable, output>>

\* A function that is created has to be there (UnknownFunction).
Generate ==
  /\ phase = "generate" /\ ~ panicked
  /\ \E plan \in {ControlPlan(function)} :
       output' = IF plan.rejected \/ ~ ToSet(CreatedInOrder(function)) \subseteq owned
                 THEN <<"rejected">> ELSE <<"text", Emitted(function, plan)>>
  /\ phase' = "generated"
  /\ UNCHANGED <<correctnessVars, text, promotable, owned>>

\* The outcome is not left.
Finished == phase = "generated" /\ UNCHANGED compileVars

CompileNext ==
  Lower \/ EliminateDeadBindings \/ PromoteBinding \/ StartOptimizing \/ Optimize
    \/ PruneUnreachableFunctions \/ Generate \/ Finished

CompileSpec == CompileInit /\ [][CompileNext]_compileVars

-----------------------------------------------------------------------------
\* The function is there, and no batch of editor calls is under way.
IsWhole == phase \notin {"lower", "generated"} /\ calls = <<>> /\ IsSettled /\ ~ panicked

\* From its lowering to the last pass, the function does what its text says:
\* the same calls with the same arguments in the same order, the same reads
\* and writes of what others see, the same exceptions, and the same end.
\* Lowering has to evaluate in the order of the language, run every finally
\* block on every way out and resume what it interrupted; promotion has to
\* find for every load the value that was stored last on the way to it.
SourcePreserved == IsWhole => Meaning(function) = meaning

\* The text that is generated does what the text that was compiled does.
\* Control flow is turned back into statements, values into expressions in an
\* order of evaluation, and the arguments of edges into assignments.
OutputPreserved == phase = "generated" /\ output # <<"rejected">> => MeaningOfText(output[2]) = meaning

\* Whatever the passes leave of a function has a structure that can be
\* written down: no program ends in the error UnsupportedControlFlow.
NothingRejected == output # <<"rejected">>

\* The tree that promotion climbs, and the frontiers where it adds parameters,
\* are those of the definitions: a dominates b when no path avoids a; the
\* frontier of a are the joins that a reaches and does not dominate.
DominanceExact ==
  phase = "promote_bindings_to_ssa" =>
    LET graph     == RegionGraph(function, function.body)
        tree      == ImmediateDominators(graph)
        frontiers == Frontiers(graph, tree)
        below     == [a \in graph.reachable |->
                        graph.reachable \ ReachableAvoiding(function, function.body, {a})]
    IN  \A a, b \in graph.reachable :
          /\ IsAbove(tree, a, b) <=> b \in below[a]
          /\ b \in ToSet(frontiers[a]) <=>
               /\ ToSet(graph.predecessors[b]) \cap below[a] # {}
               /\ b \notin below[a] \ {a}

\* What lowering and promotion leave is what the passes rely on: arenas and use
\* lists agree, both ends of every edge do, and every operation has what its
\* kind takes.  Promotion appends parameters and arguments binding by binding,
\* from a tree it computed before the first of them.
InOrderForPasses ==
  phase = "promote_bindings_to_ssa" /\ promotable = {} /\ ~ panicked =>
    IsInOrder(function) /\ IsSsa(function)
=============================================================================
