-------------------------- MODULE OptimizeFunction --------------------------
(***************************************************************************)
(* The passes that optimise one function                                   *)
(* (crates/evrel-compiler/src/compile.rs optimize_function, and the passes *)
(* under crates/evrel-middle/src/js/transform/).  A pass looks at the      *)
(* function, or at an analysis it made of it earlier, and plans a batch of *)
(* editor calls; the editor then makes them one at a time (FunctionEditor).*)
(* So every assertion of the editor meets every state a pass can bring the *)
(* function into, half-way through a batch included.                       *)
(*                                                                         *)
(* stage is the pass that plans next.  The two passes with a work queue    *)
(* keep it in work; values is the analysis that simplify_operations makes  *)
(* once and goes on using while it edits.                                  *)
(***************************************************************************)
EXTENDS FunctionEditor, FunctionPasses

-----------------------------------------------------------------------------
(* SSA form: whatever an operation reads was computed on every path that   *)
(* leads to it (crates/evrel-middle/src/js/analysis/dominators.rs, and what*)
(* the passes under js/transform/ rely on without asserting it).  A region *)
(* executes whenever the operation that has it does, so paths lead from the*)
(* entry of the region where a value is computed to the operations of that *)
(* region, and from these into the regions they have.                      *)

\* The operations of region r that execute on a path avoiding the blocks of A.
RunsIn(f, r, A) == OperationsOf(f, ReachableAvoiding(f, r, A))

\* The regions that may execute while an operation of O does.
OpenedBy(f, O) ==
  LET grow[n \in 0..Cardinality(DOMAIN f.regions)] ==
        IF n = 0 THEN RegionsOf(f, O)
        ELSE LET R == grow[n - 1] IN R \cup RegionsOf(f, UNION {RunsIn(f, r, {}) : r \in R})
  IN  grow[Cardinality(DOMAIN f.regions)]

\* The operations of O, and those that may execute while one of them does.
Running(f, O) == O \cup UNION {RunsIn(f, r, {}) : r \in OpenedBy(f, O)}

\* The operation o and those in front of it in its block.
UpTo(f, o) ==
  LET s == f.blocks[f.operations[o].block].contents
  IN  {s[i] : i \in {j \in DOMAIN s : \E k \in DOMAIN s : s[k] = o /\ j <= k}}

-----------------------------------------------------------------------------
(* Where a value can be read.                                              *)

RegionOf(f, v) == f.blocks[DefiningBlock(f, v)].region

\* The operations in front of v in its block, if control ever comes there.
AheadInBlock(f, v) ==
  IF /\ f.values[v].kind = "OperationResult"
     /\ DefiningBlock(f, v) \in Reachable(f, RegionOf(f, v))
  THEN UpTo(f, f.values[v].operation) ELSE {}

\* The operations that may execute before v is computed.
RunsWithout(f, v) ==
  Running(f, RunsIn(f, RegionOf(f, v), {DefiningBlock(f, v)}) \cup AheadInBlock(f, v))

\* The blocks of the region of v and of those inside it.
Scope(f, v) == WithNested(f, ToSet(f.regions[RegionOf(f, v)]))

IsAvailableAt(f, v, o) ==
  f.values[v].kind # "FunctionParameter" =>
    f.operations[o].block \in Scope(f, v) /\ o \notin RunsWithout(f, v)

ReadersOf(f, v) == {o \in DOMAIN f.operations : v \in ToSet(f.operations[o].operands)}

ReadsAreAvailable(f) ==
  \A v \in DOMAIN f.values : \A o \in ReadersOf(f, v) : IsAvailableAt(f, v, o)

\* A region is inside one operation, and no edge passes arguments to its entry.
RegionsHaveOneOwner(f) ==
  \A o, p \in DOMAIN f.operations : f.operations[o].regions \cap f.operations[p].regions # {} => o = p
EntriesTakeNothing(f) == \A r \in DOMAIN f.regions : ForwardedPositions(f, Entry(f, r)) = {}

IsSsa(f) == ReadsAreAvailable(f) /\ RegionsHaveOneOwner(f) /\ EntriesTakeNothing(f)

-----------------------------------------------------------------------------
(* What is optimised, and how far it is.                                   *)

CONSTANT Sources   \* the functions that the frontend and SSA promotion can leave

\* They build it through calls that keep use lists, enter what they allocate
\* where it belongs, and change the two ends of an edge together (builder.rs,
\* ssa_updater.rs, append_forwarded_block_parameters).
IsInOrder(f) ==
  /\ IsFunction(f) /\ IsLaidOut(f)
  /\ UsesAreExact(f) /\ DefinitionsAreExact(f) /\ PlacesAreExact(f)
  /\ HasSuccessors(f) /\ EdgesAreFit(f) /\ IsAnalysable(f)

ASSUME SourcesAreInOrder == \A f \in Sources : IsInOrder(f)
ASSUME SourcesAreSsa     == \A f \in Sources : IsSsa(f)

VARIABLES stage, work, values

optimizeVars == <<function, calls, removal, panicked, stage, work, values>>

Stages ==
  <<"propagate_constants", "start simplify_operations", "simplify_operations",
    "fold_constant_ifs", "simplify_control_flow", "prune_unreachable_blocks",
    "start simplify_block_parameters", "simplify_block_parameters",
    "fold_constant_ifs", "simplify_control_flow",
    "eliminate_common_subexpressions", "eliminate_dead_code", "done">>

\* The work that is left after a parameter of b is planned to go.
Revisited(f, queue, b, index) ==
  PushAll(PushAll(queue, {b}), AffectedBlocks(f, b, index))

\* MUTANT: what needs no work now waits to be looked at again.
PutBack(queue) == Append(Tail(queue), Head(queue))

\* The work that is left when nothing was found to do.
PassedOver(queue) == Tail(queue)

-----------------------------------------------------------------------------
Init ==
  /\ function \in Sources
  /\ calls = <<>> /\ removal = NoRemoval /\ panicked = FALSE
  /\ stage = 1 /\ work = <<>> /\ values = NoAnalysis

Done == stage = Len(Stages)

\* The editor has made all calls of the last batch.
IsIdle == ~ panicked /\ calls = <<>> /\ removal = NoRemoval

\* A pass that plans one batch.
RunPass(pass, batch) ==
  /\ IsIdle /\ Stages[stage] = pass
  /\ calls' = batch /\ stage' = stage + 1
  /\ UNCHANGED <<function, removal, panicked, work, values>>

PropagateConstants ==
  RunPass("propagate_constants", ConstantReplacements(function, Analyze(function)))
FoldConstantIfs ==
  RunPass("fold_constant_ifs", ConstantIfs(function, Analyze(function)))
PruneUnreachableBlocks == RunPass("prune_unreachable_blocks", PruneCalls(function))
EliminateCommonSubexpressions ==
  RunPass("eliminate_common_subexpressions", ExpressionCalls(function, Analyze(function)))
EliminateDeadCode ==
  RunPass("eliminate_dead_code", DeadCodeCalls(function, Analyze(function)))

\* Rewrites are looked for again after every one, until none is found.
SimplifyControlFlow ==
  /\ IsIdle /\ Stages[stage] = "simplify_control_flow"
  /\ calls' = NextRewrite(function)
  /\ stage' = IF calls' = <<>> THEN stage + 1 ELSE stage
  /\ UNCHANGED <<function, removal, panicked, work, values>>

StartSimplifyOperations ==
  /\ IsIdle /\ Stages[stage] = "start simplify_operations"
  /\ values' = Analyze(function) /\ work' = InOrder(DOMAIN function.operations)
  /\ stage' = stage + 1
  /\ UNCHANGED <<function, calls, removal, panicked>>

SimplifyOperation ==
  /\ IsIdle /\ Stages[stage] = "simplify_operations" /\ ~ IsEmpty(work)
  /\ calls' = SimplificationOf(function, values, Head(work))
  /\ work' = IF calls' = <<>> THEN PassedOver(work)
             ELSE PushAll(Tail(work), ResultUsers(function, Head(work)))
  /\ UNCHANGED <<function, removal, panicked, stage, values>>

StartSimplifyBlockParameters ==
  /\ IsIdle /\ Stages[stage] = "start simplify_block_parameters"
  /\ work' = BlockOrder(function) /\ stage' = stage + 1
  /\ UNCHANGED <<function, calls, removal, panicked, values>>

\* The first trivial parameter of the next block goes; the block and those
\* affected are looked at again.
SimplifyBlock ==
  /\ IsIdle /\ Stages[stage] = "simplify_block_parameters" /\ ~ IsEmpty(work)
  /\ LET b       == Head(work)
         trivial == TrivialParameters(function, b)
         index   == CHOOSE i \in trivial : \A j \in trivial : i <= j
     IN  IF trivial = {}
         THEN work' = PassedOver(work) /\ UNCHANGED calls
         ELSE /\ calls' = ParameterCalls(function, b, index)
              /\ work' = Revisited(function, Tail(work), b, index)
  /\ UNCHANGED <<function, removal, panicked, stage, values>>

FinishWork ==
  /\ IsIdle /\ Stages[stage] \in {"simplify_operations", "simplify_block_parameters"}
  /\ IsEmpty(work)
  /\ stage' = stage + 1 /\ values' = NoAnalysis
  /\ UNCHANGED <<function, calls, removal, panicked, work>>

MakeCall == Edit /\ UNCHANGED <<stage, work, values>>

\* Nothing is left to do.
HasEnded == Done \/ panicked
Rest     == HasEnded /\ UNCHANGED optimizeVars

Next ==
  \/ PropagateConstants \/ StartSimplifyOperations \/ SimplifyOperation
  \/ FoldConstantIfs \/ SimplifyControlFlow \/ PruneUnreachableBlocks
  \/ StartSimplifyBlockParameters \/ SimplifyBlock \/ FinishWork
  \/ EliminateCommonSubexpressions \/ EliminateDeadCode
  \/ MakeCall \/ Rest

Spec == Init /\ [][Next]_optimizeVars

-----------------------------------------------------------------------------
\* Types: operations are in blocks and these in regions, an operation has the
\* operands of its own, and the bookkeeping of passes and editor is in range:
\* what is left of a removal are edges that the function still has.
TypeOK ==
  /\ \A o \in DOMAIN function.operations :
       /\ function.operations[o].block \in DOMAIN function.blocks
       /\ function.operations[o].own <= Len(function.operations[o].operands)
  /\ \A b \in DOMAIN function.blocks : function.blocks[b].region \in DOMAIN function.regions
  /\ stage \in DOMAIN Stages /\ panicked \in BOOLEAN
  /\ removal.edges \in Seq(Edges(function))

\* Once the removal of a block parameter has begun, no assertion ends it half
\* way: every edge still has the argument that it is to lose, and every operand
\* that moves is on the use list of its value (remove_forwarded_block_parameter
\* checks only the parameter and that there are edges).
RemovalGoesThrough == [][IsSettled \/ UNCHANGED panicked]_optimizeVars

-----------------------------------------------------------------------------
(* SSA and the facts about values.                                         *)

\* SSA: whatever an operation reads was computed on every path that leads to
\* it.  Threading, merging, substitution and the sharing of expressions all move
\* reads away from where they were written, and call after call of a batch moves
\* a few of them at a time.
DefinitionsDominateUses == ReadsAreAvailable(function)

AnalysingStages ==
  {"propagate_constants", "start simplify_operations", "fold_constant_ifs",
   "eliminate_common_subexpressions", "eliminate_dead_code"}

\* The two worklists of the value analysis end with the least solution of the
\* equations, nothing weaker and nothing unproved, whichever of the users of a
\* value and which entry they take first: no fact that has changed is left
\* unpropagated when an operation is scheduled before, in or after the scan of
\* its block.
FactsExact ==
  IsIdle /\ Stages[stage] \in AnalysingStages =>
    \A order \in Orders : Solve(function, order) = LeastFacts(function)
=============================================================================
