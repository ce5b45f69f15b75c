# Evrel in TLA+

Evrel is an optimising JavaScript compiler. It lowers the modules a host hands
it into an SSA intermediate representation, links them into one program, prunes
what cannot be reached, optimises every function, and prints JavaScript again.
This directory holds TLA+ models of its decision-making parts, TLC
configurations that check them on small instances, and TLAPS proofs of what
matters most. `PROJECT.json` maps every definition to the lines it translates,
lists the runs with their properties, a mutant for every property, the
disagreements found, the hazards and the theorems.

Contents: [inventory](#inventory) · [models and code](#models-and-code) ·
[runs](#runs) · [disagreements](#disagreements) · [proofs](#proofs) ·
[what is only checked](#what-is-only-model-checked) ·
[what is not modelled](#what-is-not-modelled) · [plan](#plan)

## Inventory

`lower -> link -> reachability -> prune -> (per module: dead bindings,
promotion, passes over every function, unreachable functions) -> plan -> emit`:
the driver (`evrel-compiler/src/compile.rs`) calls the components one after the
other. They share one program in memory; there are no
messages and no persistent state. Functions of one module are optimised on
several threads when there is enough to do, each thread with exclusive access
to its function. What is hard in this code is therefore order and staleness,
not races: worklists that must reach one answer in any order, plans that are
made on one state of the IR and carried out on another, batches of edits with
assertions between them, and answers that must not depend on how a graph with
cycles is walked.

| Component | State | Operations | What makes it correct |
| --- | --- | --- | --- |
| Program and module graph (`evrel-js-ir` program, module) | modules, dependency edges with host-resolved targets, import and export entries, bindings, entries | build, remove modules, replace an interface, each guarded by assertions | entries, targets and names stay owned after every edit; no assertion fails |
| Linkage (`program_linkage`) | the resolution of each import binding | resolve an import through re-exports and `export *` | the answer of the listed exports, whatever their order and the cycles between them; never another binding than ECMAScript's |
| Reachability (`program_reachability.rs`) | fact queue, settled facts, demand queue, demanded exports, required bindings | settle a fact, meet a demand, go round again, give up | the least closed set, or everything as soon as one request is open |
| Work queue (`work_queue.rs`) | a queue without duplicates | push, pop | nothing lost, nothing queued twice |
| Module graph pruning (`prune_module_graph`) | the program | remove modules, rewrite interfaces | links and entry exports stay what they were; one run is final |
| Driver (`compile.rs`, `program.rs`) | input, stage, outcome | validate, lower, link, prune, generate | the outcome follows from the input |
| Function IR and editor (`evrel-js-ir/src/function`, `operation`) | regions, blocks, parameters, operations, edges, values with use lists, handlers, labels | eight editor calls, each with assertions | use lists, definitions, places and edges exact after each call |
| Value analysis (`function_value`, `operation_safety.rs`) | a fact per value, executable blocks and edges | two worklists with joins | the least solution of the equations; the facts hold in every run |
| Passes (`evrel-middle/src/js/transform`) | work queues, stale analyses | constants, operations, control flow, blocks, parameters, common subexpressions, dead code | the function does what it did; SSA holds; the passes end |
| Dominators and frontiers | a tree per region | compute rounds until nothing changes, climb from joins | dominance over paths |
| Binding promotion, SSA updater | candidates, merges, the value that reaches each block | drop dead bindings, promote local bindings one by one | every load sees what was stored last; what may throw still may |
| Function pointers, call graph, captures | points-to sets, worklist | solve | closed under the constraints |
| Function reachability and pruning (`module_function_reachability.rs`, `prune_unreachable_functions.rs`) | functions reached and waiting; the functions and bindings of a module | walk references and lexical parents, remove the rest | exactly what the entry needs stays; no assertion of the removal fails |
| Frontend lowering | the function under construction, the insertion point, control and cleanup frames | lower each statement and expression, jump through finally, resume | the structure of blocks means what the source means |
| Code generation: edge transfers | pending copies, schedule, scratch local | plan, schedule, break cycles | assignments in sequence have the effect of a simultaneous transfer |
| Code generation: control planning, emission | visited blocks, enclosing controls, locals | recognise every structure, emit statements, expressions and edge copies | the text does what the function did; no function is rejected |
| Command line, Node binding, printer, arena | none of their own | conversion | – |

Every hazard of these components, with its line and the properties that would
catch it, is listed under `hazards` in `PROJECT.json`.

## Models and code

The program graph, from the data up:

| Module | Models | Correspondence |
| --- | --- | --- |
| `JsProgram` | `evrel-js-ir/src/program.rs`, `module/` | a program is a record; a `Source` stands for a specifier with its attributes; the functions of a module are reduced to the bindings they load outside a `try` and inside one (where the load is wrapped in an `Invoke`, which some of the code looks into and some does not), those they assign, direct eval outside and inside a `try`, and dynamic imports |
| `ProgramLinkage` | `program_linkage/resolver.rs` | the depth-first walk with its one shared resolve set; every result carries the set as the walk leaves it |
| `ResolveImports` | `resolve_imports` | one import at a time, in any order; `ListedExport` is the answer of the export lists as a fixed point, without a walk. `Parsed` gives a program the export entries of ECMAScript's ParseModule, which makes an export of an imported name an indirect one, and `SpecifiedImport` is ECMAScript's answer |
| `WorkQueue` | `work_queue.rs` | a sequence without duplicates; a batch is pushed in an arbitrary fixed order |
| `ReachabilityRules` | `program_reachability.rs` | what follows from a fact, from a demand, and when to give up |
| `ProgramReachability` | `ProgramReachability::analyze` | the two nested worklists: `SeedEntries`, `SettleFact`, `SkipSettled`, `StartExports`, `MeetDemand`, `RequireBindings`, `RetainUnresolved*`, `Finish` |
| `ReachabilityAnswer` | – | the abstract specification: one step to the correct answer, whatever that is; `ReachabilityRules` says which it is, the least closed sets or everything |
| `PruneModuleGraph` | `prune_module_graph/`, the program and module editors | what goes, and the conditions under which the editors do not panic |
| `CompileProgram` | `compile_program`, `build_program` | one action per step of the driver, one per error exit, and `Panic` |
| `PruningCorrectness` | – | the properties of pruning and driver; those of the analysis stand in `ProgramReachability` |
| `ProgramTexts`, `MCProgramReachability`, `MCCompileProgram`, `MCResolveImports` | – | the programs and inputs that are checked |

One function:

| Module | Models | Correspondence |
| --- | --- | --- |
| `FunctionIr` | `JsFunctionIr`, `operation/` | regions, blocks, operations and values are functions on their live identities; an operation has its own operands followed by the arguments of its successors, as in the code |
| `FunctionEditor` | `FunctionEditor` and the methods behind it | `CanX` is what a call asserts, `X` what it then does. `calls` holds the calls a pass has planned, and one step makes one of them. The removal of a block parameter loops over edges and is one step for each. `UsesExact`, `DefinitionsExact`, `PlacesExact` and `EdgesFit` say what holds however it is used |
| `FunctionValues` | `function_value/`, `operation_safety.rs` | abstract values, their join and the transfer rules |
| `SparseValues` | `function_value/sparse.rs` | the solver: `blockWork` and `operationWork`, executable blocks and edges, visits of whole blocks and of single operations. `order` is the order in which users are listed, which the code leaves to a hash map. `Consequences` are the equations between the facts, `LeastFacts` their least solution by plain iteration |
| `FunctionPasses` | `transform/*.rs` | what every pass plans from a function and an analysis |
| `OptimizeFunction` | `optimize_function` | `stage` is the pass that plans next, `work` its queue, `values` the analysis `simplify_operations` made before it began to edit. `TypeOK`, `RemovalGoesThrough`, `DefinitionsDominateUses` and `FactsExact` are stated here, with what passes and analysis rely on: `IsInOrder`, and SSA form (`dominators.rs`), which asks which operations may execute before a value is computed: those on paths inside the region of the value that avoid its block, and in the regions that open on the way. `ReadsAreAvailable` is SSA; `IsSsa` adds that a region is inside one operation and that no edge passes arguments to the entry of one |
| `FunctionMeaning` | the documentation of the operations | an interpreter over symbolic terms, with an oracle for unknown conditions, iterations and throwing calls; it is the reference and shares no rule with a pass |
| `OptimizationCorrectness` | – | the other properties: assertions, meaning, termination |
| `MCOptimizeFunction` | `lower/statement/`, `lower/expression/` | the functions that `optimize_function` starts from: one shape per statement or expression that is lowered to several blocks |

From text to text:

| Module | Models | Correspondence |
| --- | --- | --- |
| `Syntax` | the oxc syntax tree, outside `src/` | the node kinds that the frontend tells apart; names are resolved symbols |
| `FunctionBuilder` | `function/builder.rs`, `lower/function.rs`, `lower/function/control.rs`, `completion.rs` | the insertion point, regions under construction, control and cleanup frames, `terminate_*` through finally, `resume_finally`; and the constructors of operations (`operation/`), with which functions are also written block by block |
| `LowerFunction` | `lower/statement/`, `lower/expression/`, `lower/function/body.rs` | one operator per `lower_*` function; a builder in, a builder out |
| `SourceMeaning` | ECMAScript | an evaluator of texts by completions; the reference for both ends of the pipeline |
| `DominatorTree` | `control_flow/region.rs`, `dominator_tree.rs`, `dominance_frontier.rs` | reverse postorder, rounds of `intersect`, frontiers and iterated frontiers |
| `PromoteBindings` | `eliminate_dead_bindings.rs`, `binding_promotion/`, `promote_bindings_to_ssa.rs`, `ssa_updater.rs` | candidates and their rejection, merges, reaching values on a stack down the tree, the edits in the order of the code |
| `PlanControl` | `plan/control/` | one operator per `plan_*` function, over the steps planned so far, the visited blocks and the enclosing controls |
| `EmitFunction` | `plan/function.rs`, `emit/` | which values become locals, and the text: steps to statements, operations to expressions, edges to assignments |
| `ModuleFunctions` | `module_function_reachability.rs`, `JsModuleIr::remove_functions` | the walk from the entry over references and lexical parents, and the removal with its assertions |
| `PruneFunctions`, `MCPruneFunctions` | `prune_unreachable_functions.rs` | the same one function a step, over modules of every shape; `NeededFunctions` is the reference |
| `CompileFunction` | `compile_module`, `generate.rs` | the phases one after the other; `OptimizeFunction`'s steps are one of them, one binding is promoted per step, and `PruneUnreachableFunctions` is one step on the module around the function: its entry, the function, and the functions it creates |
| `MCCompileFunction` | – | the texts that are compiled |

Code generation: `EdgeTransfers` models `plan/edge.rs` for one edge: the copies
it collects, the order it emits them in and the memory they leave.

Modules compose by extension along the calls of the code: `ProgramReachability`
uses the rules and the queue, `PruneModuleGraph` its answer, `CompileProgram`
both. `OptimizeFunction` uses the editor and the passes, `PromoteBindings` the
editor and the dominators, `CompileFunction` all of them between lowering and
emission. `CompileProgram` sees the compilation of a module as one step that may
succeed or fail: it is entered after linking and pruning, which it never asks
again, and the only thing it takes from them is the code that was kept.

## Runs

| Run | Question | Instance |
| --- | --- | --- |
| `reachability` | Do the nested worklists compute the least answer, and does pruning by it cut nothing used? | Some thousand programs of four modules: every entry text with chains, diamonds and cycles of renaming, star and namespace re-exports, direct eval, dynamic imports, `require`, and hosts that leave a request open, answer it twice or manage it themselves |
| `compile` | Does a whole compilation preserve meaning and end as its input calls for? | The same programs as a host would hand them over, modules that only assign an import or read one, or call eval, inside a `try`, and inputs with every error: duplicate keys, unknown entries and targets, modules that fail to lower or generate |
| `resolve_imports` | Does the walk answer what the export lists say, in any order of the exports, and never anything but what ECMAScript says? | The same with texts made for diamonds and conflicts of star exports, and for diamonds of exported imports |
| `edge_transfers` | Are sequential assignments a simultaneous transfer? | All edges with up to four parameters, which holds two disjoint cycles and a cycle with a tail |
| `optimize_function` | Do the passes keep the function well formed, meaning what it meant, and end? | 975 functions: conditionals, short circuits, nested forwarding, early returns, `while`, `for`, `break`, labels, `try`, nested expression regions, default values and templates, with constant and unknown conditions |
| `compile_function` | Does what is generated do what was written, and every function in between? | 220 texts: every statement and expression of `Syntax`, loops of seven kinds around nine bodies, `try` with and without `catch` and `finally` around returns, throws and jumps, `switch` with fall-through, references with side effects in object, key and value, optional chains, logical assignment, captured and eval-visible bindings, created functions, swaps that need a scratch local |
| `prune_functions` | Do exactly the functions stay that the entry needs, and can the others always be removed? | 12000 modules: the entry and three functions, nested in each of the six ways, each referring to any of the others in any order; every function declares a binding and refers to all in scope |
| `uncounted_import`, `dead_try`, `eval_in_try`, `finally_assigns`, `loop_header` | see [disagreements](#disagreements) | a few texts each; the first a few hundred programs |

**Bounds and why they are enough.** Four modules hold what the resolver and the
demand walk tell apart: a chain of two re-exports with a rename on each, a
diamond with a conflict, a cycle through the importer, and a module outside all
of these. For the pruning of functions, three functions besides the entry hold a
cycle that the entry does not reach, and a function that is referred to from
outside a parent that nothing else refers to. The frontend refers to a function
only from its parent; the tests of the analysis
(`retains_lexical_parents_of_referenced_functions`) and its code do not rely on
that, and neither does the run. Three names separate a rename, a default (which `export *` skips) and
a name nobody exports. For functions, `MaxChoices = 3` lets a loop be entered
twice and left, `MaxEvents = 5` is more than any shape produces before its
oracle ends, and `MaxBlocks = 60` is only a fuse for loops that decide nothing.
Constants are one representative of each kind the transfer rules tell apart,
operators one for each way a rule can go: never throws (`Not`, `StrictEqual`)
or throws unless its operands are numbers (`Plus`, `LessThan`). The passes are
deterministic, so the state space is the sum of their runs, and every state
between two editor calls is examined. For texts `MaxEvents = 6` leaves room for an
object, a key and a value around a call in a loop. Texts that a disagreement
below concerns are not among those of `compile_function`: its properties hold
for the others, and the runs of the disagreements show what happens to most of
these.

**What the properties say.** `AnswerIsClosed`, `ImplementsPromise`,
`ObservableExportsLive` and `UsedBindingsLinked` compare the analysis with its
least fixed point and with the independent export resolver: whatever it looks
up a name through must be live, and with `eval` outside a `try` every binding.
`ResolvedAsListed` compares the resolver with a fixed point over the same export
lists; `AgreesWithECMAScript` compares it with what ECMAScript resolves over its own
export entries: where no module exports what it imports the two agree, and
elsewhere the resolver may only give up. `LinksPreserved`,
`EntryViewsPreserved`, `RequestsPreserved` and `PruningIsFinal` compare the
program before and after pruning; `OutcomeFollowsInput` is the contract of the
driver, and `PanicsOnUncountedImports` says that the one way to a panic is an
import of an evaluated module that no counted load reads: the first
disagreement below. `UsesExact`, `DefinitionsExact`, `PlacesExact` and `EdgesFit`
are the invariants of the IR, required after every editor call;
`RemovalGoesThrough` says that the removal of a
parameter, once it has begun, is never stopped half way by an assertion;
`NoPanic` says that no assertion fails at all; `DefinitionsDominateUses` is SSA; and
`MeaningPreserved` requires, between any two batches of edits, that the
function makes the same calls with the same arguments, the same evaluations
that may throw, in the same order, and ends the same way. A move that keeps the
IR well formed and changes what the program does is caught by this one only.
`FactsExact` requires of the two worklists, whichever way they list users, the
least solution of the equations, which is computed there by plain iteration.
`SourcePreserved` holds the function to `SourceMeaning` of its text after
lowering and after every phase and pass, `OutputPreserved` the generated text.
`DominanceExact` compares tree and frontiers with the paths of the graph, and
`NothingRejected` says that the planner knows every shape the passes leave.
`InOrderForPasses` says that lowering and promotion leave every function in the
order that the passes and the proofs about them start from (`IsInOrder`) and in
SSA form (`IsSsa`). `OnlyNeededRemain` holds the pruning of functions to the
least set that contains the entry and, with a function, its parent and what it
refers to.

**Fairness.** Every component runs on one thread that nothing blocks, so a step
that can be taken is taken: weak fairness of the analysis (`WF_vars(Analyze)`),
of the driver (`WF_allVars(Work)`), of the edge planner (`WF_vars(Plan)`), of
the pruning of functions (`WF_vars(Next)`).
`OptimizationCorrectness` writes the same assumption out as `Fairness`, since a
step is possible in every state that has not ended; deadlock is checked to
confirm it. No property depends on fairness between two alternatives. The edge
planner may take any copy that is ready, the solver of the value analysis lists
users in any order, and imports are resolved in any order. The reachability
analysis is deterministic: its queues are first in, first out, and a batch of
items is pushed in an arbitrary but fixed order (`Listing`), where the code
follows its arenas and hash sets.

## Disagreements

1. **An import whose uses are not counted** (`uncounted_import`). Only
   operations that are loads themselves make a binding live. An import that is
   assigned and never read, or read only inside a `try`, where the frontend
   wraps the load in an `Invoke`, is removed by the interface rewrite while the
   `StoreBinding` or the `Invoke` stays; `remove_bindings`, which does look into
   an `Invoke`, panics. The run holds inputs of both kinds, and each panics by
   itself. `PanicsOnUncountedImports` shows, and `PanicsForOneReason` proves,
   that nothing but such an import makes pruning panic.
2. **A direct eval inside a `try`** (`eval_in_try`). Promotion and the removal
   of dead bindings look for the `eval` by the kind of the operation, too: a
   variable that the eval can see is promoted or removed.
3. **An unreachable `try` whose handler reads a local** (`dead_try`). Handlers
   and labels stay roots of `prune_unreachable_blocks`; the unreachable block
   that computes what they read goes, and `remove_blocks` panics. The blocks that
   a structured operation names stay as well, and can read what is removed: the
   update in `for (; c(); k(x)) { if (true) break; x = g() }`.
4. **An assignment in a finally clause that a jump leaves through**
   (`finally_assigns`). `var x = 1; while (c()) { try { break } finally { x = g() } }
   return x` compiles to code that returns 1. Blocks that a finally clause
   resumes are left out of the output, also when their jump passes a value on.
5. **An assignment in the header of a `for (let ...)`** (`loop_header`). Once
   the variable is promoted, the assignment to its local becomes a declaration
   in the header, which shadows the local for the whole loop.

Others were met while modelling and have no run of their own; the models follow
the code in each of them.

- A `for` statement whose test folds to false leaves the planner with a jump to
  the exit where it knows only jumps to the body (`planning/loops.rs:523`), and
  the compilation of `for (; false; ) g()` fails. `compile_function` has no such
  text.
- A module that calls `eval` only inside a `try` loses its imports: the
  analysis (`program_reachability.rs:87`) does not see the `eval`, which would
  keep all bindings of the module. The inputs of `compile` have such modules, and
  `EntryViewsPreserved` speaks of `eval` outside a `try` only.
- `import {x} from "a"; export {x}` is lowered as a local export of the import
  binding (`lower/module.rs:334`), where ECMAScript makes it an indirect export
  of `a`'s `x`. When two such modules meet in `export *`, the resolver sees two
  bindings and reports a conflict, and the analysis keeps the whole program. It
  never links to a wrong binding (`AgreesWithECMAScript`).
- `simplify_block_parameters` replaces a parameter by the parameter passed to it
  and does not look at the block of the latter again (line 53), which may have
  lost its last use. Its documentation (line 18) promises that no unused parameter
  is left, and after `var p = c() ? 0 : 1; while (c()) { p = p }` one is.
- A function that is created to be the object of a store of a promoted value,
  `(function () {}).p = x`, is planned as an expression at its use
  (`plan/function.rs:499`, whatever the operand), and emission has no such use
  (`emit/operation.rs`, `emit_value_expression`): the compilation fails.
- A function that is called or passed where it is written is first assigned to a
  generated local, whose name it takes: its `name` is no longer empty
  (`plan/value.rs:16` says it is called in place). The models do not look at what
  a function is called when nothing of the text names it.

`compile.rs:33` calls `ProgramReachability::compute`; the analysis is called
`analyze` (`program_reachability.rs:33`). The model takes it for a slip of
this commit.

## Proofs

Every theorem holds for all values of the constants that the named assumptions
of its modules allow: any finite number of modules, names, bindings and locals,
any programs, inputs, edges and functions. TLC evaluates each assumption on the
instance of a run:

| Assumption | Says | Why the code justifies it |
| --- | --- | --- |
| `FiniteIds`, `DefaultIsAName` (`JsProgram`) | finitely many identities | arenas of a program in memory |
| `ProgramsWellFormed` (`ReachabilityRules`), `ProgramsLinkable` (`ResolveImports`) | the programs asked about are built with the assertions of the IR; none of those linked exports a name twice | `WellFormedThroughout` proves the first of whatever the driver builds; a module that exports a name twice is rejected before it is lowered |
| `InputsLowerable` (`CompileProgram`) | there is a module ID for every module of an input, and lowering returns modules whose entries name their own bindings | the arena grows as modules come; the frontend declares before it refers |
| `PlacesDiffer`, `EdgesAreShaped` (`EdgeTransfers`) | the scratch local is none of the others; an edge has an argument for every parameter, and a parameter has a local of its own | `plan/function.rs` allocates them |
| `SourcesAreInOrder` (`OptimizeFunction`) | a function comes to the passes with its lists, uses, definitions, places and edges in order, an operation with the operands, results and successors of its kind, and a region younger than the one around it | the builder and the SSA updater enter what they allocate where it belongs, and pass an argument for every parameter they append; `InOrderForPasses` checks it of every function that `compile_function` lowers and promotes |
| `SourcesAreSsa` (`OptimizeFunction`) | a function comes to the passes in SSA form: reads are computed before on every path, a region is inside one operation, no edge passes arguments to the entry of a region | lowering writes an operand before the operation that reads it, and allocates regions for the operation it builds; the SSA updater places a parameter where two definitions of a binding meet; also checked by `InOrderForPasses` |

**Function editor** (`FunctionEditor_proofs`). Nothing is assumed of the passes:
the assertions of each call (`CanX`) must suffice, whatever batch is planned.
`UsesAlwaysExact` has the invariant `EditorInv`, which adds `RemovedIsUnread`:
that nothing reads a parameter is checked once, before the loop over its
incoming edges, and it is removed after the loop, so every step of the loop must
keep it unread. `RewiredIsExact` covers the calls that give an operation new
operands, `DroppedIsExact` those that remove operations with their results.
`PlacesAlwaysExact` and `DefinitionsAlwaysExact` share `OrderInv`: lists,
places and definitions are only inductive together, and with `EditorInv`, as
the assertions of a call look at all of them. The calls that rewire leave places
alone (`AlikeIsOrderly`). `remove_blocks` has to take every region that is
nested in the blocks, or a block would outlive its region: the loop that collects
them is bounded by the number of regions in the model, and `NestedIsClosed`
proves that this is far enough, since a round that is not the last opens another
region. `MergeBlockIsOrderly` goes through `Spliced`, the state in which the
operations have moved and the empty block is still there. When a parameter goes
(`RemoveParameterIsOrderly`), the definitions behind it move down with their
positions; that it is there to go when the loop over the edges has ended is
`RemovedIsParameter`, and that counting forwarded parameters finds it,
`PositionOfIndex`.

`EdgesAlwaysFit` is about two ends that different calls edit. `IsWired(f, Lost,
k)` says of every operation by itself that its operands are its own and the
arguments of its edges, and of every edge that it fits its target, where the
edges of `Lost` have already lost the argument for the `k`-th parameter;
`WiredIsFit` shows that with no such edge this is `EdgesAreFit`. `EdgeInv` adds
to `OrderInv` that a settled function is wired, and (`HalfRemoved`) that during a
removal those edges have lost theirs that the loop has met. So the proof needs
that the loop meets every edge once (`EdgesInOrderEnumerates`: the edges are
taken in the order of their numbers, by nested loops), that it does not change
which edges there are (`RemoveSuccessorArgumentKeepsEdges`), and that a target
without a forwarded parameter fits an edge without an argument
(`ParameterLost`, since produced parameters come first). Where the arguments of an
edge begin is a sum over the edges before it; `ArgumentsMove` says how it changes
with one of them. `TypesAlwaysHold` and `RemovalsGoThrough` follow from the same
invariant. The second is the one theorem on assertions of the editor: those in the loop hold
for every edge still to be met, because an edge passes as many arguments as its
target has forwarded parameters (`ForwardedCounted`), and use lists are exact
between two rounds.

**Value analysis** (`SparseValues_proofs`, concluded in `SsaForm_proofs`).
`FactsAlwaysExact`: whatever the passes have made of a function, and in whichever
order users and entries are listed, the two worklists end with the least
solution of the equations. There are four parts.
*The equations.* The transfer rules are monotone (`EvaluateRises`), so plain
iteration, as often as a fact can rise, gives the least saturated analysis
(`LeastFactsHold`).
*The loop.* `IsOnTrack` is its invariant: everything found lies within every
saturated analysis, and whatever is not yet consistent with what was found is on
a worklist, or belongs to the block being scanned and comes later in it. That
last clause is the hazard of the algorithm: a changed value schedules its users
in the block being scanned not at all, because the scan comes to them
(`ScheduledVisitKeeps`, `BlockVisitKeeps`, `StepKeeps`). When both worklists are
dry, what was found is saturated (`RestIsSaturated`).
*Termination.* The result is a recursive function over solver states, which has
a value only if every chain of steps ends: a step adds a fact or leaves the
facts alone and takes from a worklist (`SolveHolds`).
*Order.* The scan meets a user later only if definitions stand before uses in
their block. `BlocksReadBack` derives that from dominance, for which it needs
that what the solver takes for executable is reachable by paths
(`LeastIsReachable`) and that a region is younger than the one around it.
`FactsInv` carries what all this relies on (`IsAnalysable`) through every editor
call: a removed operation, a merged block or a lost argument must leave the
others with the operands of their kind, and no block may list an operation
twice. It is inductive only together with `EdgeInv` and with what the planned
batch asks for (`CallsInv`: a constant that is planned is a constant, which in
turn holds since the analysis, exact or not, gives facts).
The analysis relies on SSA, which is a theorem of its own.

**SSA** (`SsaForm_proofs`). `ReadsAlwaysAvailable`: at every step of the passes an
operation reads only what was computed on every path that leads to it. A value
may be read inside its scope by whatever is not in `RunsWithout`, the operations
that may execute before it is computed. That is a least set (the operations on
paths around its block, those in the regions they open, and so on), so two of
them are compared by leastness (`RunningIsClosed`, `RunningIsLeast`), never by
following a path. The calls of the editor fall into three kinds.
*Calls that take away.* Removing operations, blocks, edges or arguments leaves a
part of the function with fewer paths, so that no operation executes without a
value that did not before (`PartKeepsAvailable`, `PartIsSsa`). `merge_block` is
one of them only after the join has been shown to run what the two blocks ran,
in their order (`JoinRuns`, `JoinNotYet`).
*Calls that move reads.* `replace_all_uses` is safe when the new value
`Supersedes` the old one: whatever executes without the new value executes
without the old one. Every pass has its own reason for that, which it found when
it planned: a value of the same block in front of it, a parameter that is always
passed this value, a dominating expression (`ExpressionIsSafe`, with
`EvaluatedIsAvailable`: what was evaluated in a dominating block is computed), an
operand of the operation itself (`SimplificationIsSafe`).
*Calls that move edges.* A successor is led past a block that only hands on what
it is passed (`IsThreading`); the new edge adds a path, but whatever could be
skipped on it could be skipped before (`RedirectedPaths`,
`RedirectionKeepsAvailable`).
These reasons must survive the other calls of their batch, which are made
first: an expression that is to be replaced by another may have to wait until
other replacements have changed who reads what. `PendingInv` states them for all
calls still to be made (`IsSafeBatch`): each pending substitution supersedes in
the function as it is by now, each pending redirection still is one, and while a
parameter loses its arguments edge by edge, the head of the batch is that
removal. `SsaInv` is that together with `FactsInv` and SSA itself. It is why the
two properties, exact facts and dominated reads, are proved in one invariant's
company: what an analysis says is only used to plan, and planning is only safe
in a function in SSA form.

**Edge transfers** (`EdgeTransfers_proofs`). `SimultaneousTransfer` rests on
`TransferInv`: the values the pending copies will read, in the memory as it is,
are the values the edge was to pass, no two pending copies write the same local,
and the scratch local is pending for nobody when a cycle is broken. The last
needs `BlockedCopiesPermute`: when no copy is ready, the pending copies are a
permutation of their places, so a copy that reads the scratch local would leave
one of them ready. `ScratchOnlyWhereNeeded` adds `CostInv`, an account of the
assignments made: every emitted copy pays for itself and for half of the one
that broke a cycle, so the first two copies of a broken cycle are in debt, and a
cycle has two at least. `TransferTypes` is the type invariant.

**Linkage** (`ProgramLinkage_proofs`, `ResolveImports_proofs`). The resolver is a
depth-first walk that carries one resolve set through all branches.
`ResolveExportWalks` proves that the recursive functions that define it have a
value (the unvisited pairs are finite and every call visits one), `CallAgrees`
and `CallGrows` that the resolve set only grows and a call depends on the calls
with a larger one alone, and `WalkIsSound` that what it answers together with what was visited
before is what the reachable names say. `LinkageAsListed` and
`LinkageWithoutOrder` follow: the second since the reachable names of a program
whose export lists are turned round are the same sets.

**Reachability** (`ReachabilityCorrectness_proofs`).
`TypeCorrect` is the type invariant.
`ClosedAnswer` needs a stronger invariant, since nothing is closed while the
worklists run: `Accounting` says that what follows from a settled fact is
settled or queued, and what follows from a met demand is met or queued; when
both queues are dry this is closure. `LeastAnswer` is the converse: for every
closed pair of sets, everything settled and demanded so far lies within them.
`LeastClosedHolds` shows that iterating a monotone operator as often as there
are elements gives the least closed set, and with it `KeepsPromise` proves the
refinement: `Spec` implements `ReachabilityAnswer` under the mapping of its
`INSTANCE`, every step of the two nested worklists being a stutter but the last,
which gives the correct answer. `OwnedEntitiesOnly`, `UsesLinked` and
`ExportsLive` follow from the two halves; the last compares the demand walk,
which follows export lists, with the resolver, which follows names, through the
pairs that both of them reach.

**Pruning and driver** (`PruningCorrectness_proofs`). `PruningCutsNothingUsed`:
dependencies of an evaluated module are evaluated, and links of live imports
live. `DriverInv` describes the program in every stage of the driver relative to
the program that was linked: lowered up to the cursor, complete, the retained
modules with interfaces rewritten up to the cursor. What it needs of the
analysis while the driver goes on is that a given answer stays the answer
(`AnswerStays`). From it: `WellFormedThroughout`, `PanicsForOneReason`,
`LinksArePreserved` and `EntryViewsArePreserved`, which compare the walk over
the pruned interfaces with the walk over the full ones (`AnswerCarriesOver`: two
programs that agree on the demanded names answer alike), and
`RequestsArePreserved`. `OutcomesFollowInputs` adds `OutcomeInv`, what has been
delivered up to the cursor. `PruningIsFinalAlways` shows that the answer of the
first analysis is closed and least for the pruned program too
(`AnswerStaysLeast`), so that a second one would find the same.

Recursive functions are defined with CHOOSE in the logic, so that each needs a
proof that a function with that equation exists before anything is said of its
values. Those proofs (`OpeningExists`, `SieveExists`, `WalkExists`,
`ClosingExists`, ...) and the inductions over rounds go by a least
counterexample, from `WFMin` or by counting up an interval.

## What is only model-checked

- Liveness (`Terminates`, `PlanningEnds`, `PassesEnd`, `Ends`): it rests on
  ENABLED, which TLAPS does not reason about.
- That no assertion fails (`NoPanic`) rests on what the passes plan, and does not
  hold for every function: see the disagreements. Only those inside the removal
  of a parameter are proved.
- That functions come to the passes in order and in SSA form
  (`InOrderForPasses`), meaning
  (`MeaningPreserved`, `SourcePreserved`, `OutputPreserved`), the exactness of
  dominators (`DominanceExact`), and that the planner
  knows every shape (`NothingRejected`). Interpreter, lowering, planning and
  emission recur over trees and graphs with RECURSIVE operators, of which the
  provers know nothing; what they compute for every text is induction over data.

- The pruning of functions (`OnlyNeededRemain` and that its assertions hold); the
  modules checked are those with `ModulesAreScoped`: parents lead to the entry, and
  a function names bindings of its scope only.
- That the resolver agrees with ECMAScript (`AgreesWithECMAScript`). What is proved
  of it compares it with the export lists it was given.

## What is not modelled

- Parsing: an external crate. Names are resolved before lowering, so the texts
  have no two bindings of one name and blocks do not scope; a fresh binding per
  iteration is not told apart from one per loop.
- Object and array literals, arithmetic compound assignment, destructuring,
  spread, `super`, private members, `this`, `import()`, JSX, regular
  expressions, `for-in`, classes, generators and `await`; of `for-of`, the
  declared or assigned name is an identifier, and closing an iterator that is
  left early is no event. Static property names are one name.
- What a function does that is created: the passes treat each function alone,
  and pruning asks only which functions and bindings it names. References to a
  function by an object literal's method or by a class are references like that
  of `CreateFunction`.
- Value types other than those a rule asks for, source locations, spans.
- Algebraic identities of binary arithmetic, typeof and nullish tests: each is
  one more row of a table whose use is modelled.
- Default-value regions of parameters are optimised in the model but not run by
  the interpreter, and no text has one.
- Names of locals, minification, the layout of the output; module imports and
  exports in the output.
- Parallel optimisation: every thread has exclusive access to its function
  (`&mut`), so there is nothing to interleave.
- Function pointers and the call graph: no caller in the compile driver.
- The command line and the Node binding: conversion around one call. The
  printer of the IR: formatting for tests.

## Plan

In this order, the most important behaviour first; 1 to 10 are done.

1. `JsProgram`, `ProgramLinkage`, `WorkQueue`, `ReachabilityRules`,
   `ProgramReachability` with `ReachabilityAnswer`; proofs.
2. `PruneModuleGraph`, `CompileProgram`; `ResolveImports`.
3. `EdgeTransfers` with its proofs.
4. `FunctionIr`, `FunctionEditor`, `FunctionValues`, `FunctionPasses`,
   `OptimizeFunction` with `FunctionMeaning`.
5. Proof: the editor keeps use lists exact, for every function and every call.
6. `SparseValues`: the two worklists of the value solver against the least
   solution.
7. `DominatorTree`: the iterative algorithm against dominance over paths;
   frontiers.
8. `PromoteBindings`: dead bindings, and promotion against an interpreter with
   memory.
9. `FunctionBuilder`, `LowerFunction` against `SourceMeaning`: statements,
   expressions, and jumps through `finally`.
10. `PlanControl`, `EmitFunction`, `ModuleFunctions` with `PruneFunctions`,
    `CompileFunction`: the function back to text, and the whole way.
11. Arithmetic compound assignment, `for-in`, destructuring and the fresh
    bindings of a `for (let ...)` iteration in `LowerFunction` and
    `EmitFunction`.
12. `PointsTo`: the function pointer worklist; theorem: the solution is closed.
13. Proofs: the pruning of functions, and that the fixed point of the dominator
    tree is dominance over paths. Done: uses, places, definitions, edges and
    types under the editor, SSA under every pass, the value analysis, edge
    transfers, linkage, the refinement of the reachability promise, pruning and
    the driver's outcome.
