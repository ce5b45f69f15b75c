--------------------------- MODULE PromoteBindings ---------------------------
(***************************************************************************)
(* Bindings become values (crates/evrel-middle/src/js/transform/           *)
(* eliminate_dead_bindings.rs, promote_bindings_to_ssa.rs and              *)
(* ssa_updater.rs, analysis/binding_promotion/): a local var whose every   *)
(* reference is an ordinary load or store is replaced by the values stored *)
(* in it, with a block parameter where different values meet.              *)
(*                                                                         *)
(* What the rest of the module does with a binding is in the bindings of   *)
(* the function: it is captured when another function refers to it.        *)
(***************************************************************************)
EXTENDS FunctionEditor, DominatorTree

References == {"LoadBinding", "StoreBinding", "InitializeBinding"}

\* The operations that refer to a binding, those in an Invoke included.
ReferencesTo(f, name) ==
  {o \in DOMAIN f.operations :
     LET op == f.operations[o]
     IN  op.detail = name /\ (op.kind \in References \/ op.inner \in References)}

OfKind(f, O, kind) == {o \in O : f.operations[o].kind = kind}

MayEval(f) ==
  \E o \in DOMAIN f.operations :
    f.operations[o].kind = "LoadGlobal" /\ f.operations[o].detail = "eval"

-----------------------------------------------------------------------------
(* Dead bindings of a module.                                              *)

\* MUTANT: what another function refers to is not looked at.
IsDeadBindingHere(f, name) ==
  /\ f.entry
  /\ ReferencesTo(f, name) # {}
  /\ ReferencesTo(f, name) = OfKind(f, ReferencesTo(f, name), "InitializeBinding")

\* Nothing but initialization refers to it.
IsDeadBinding(f, name) ==
  /\ f.entry /\ ~ f.bindings[name].captured
  /\ ReferencesTo(f, name) # {}
  /\ ReferencesTo(f, name) = OfKind(f, ReferencesTo(f, name), "InitializeBinding")

DeadBindings(f) == IF MayEval(f) THEN {} ELSE {n \in DOMAIN f.bindings : IsDeadBinding(f, n)}

\* The values that initialized them are still computed.
WithoutBindings(f, names) ==
  LET removed == RemoveOperations(f, UNION {ReferencesTo(f, n) : n \in names})
  IN  [removed EXCEPT !.bindings = [n \in DOMAIN @ \ names |-> @[n]]]

-----------------------------------------------------------------------------
(* Which bindings can become values.                                       *)

\* An anonymous function takes the name of what it is written to.
RequiresNamedEvaluation(f, v) ==
  /\ f.values[v].kind = "OperationResult"
  /\ f.operations[f.values[v].operation].kind = "CreateFunction"

OperationDominates(f, tree, o, p) ==
  LET a == f.operations[o].block
      b == f.operations[p].block
  IN  IF a # b THEN IsAbove(tree, a, b)
      ELSE LET At(q) == CHOOSE i \in DOMAIN f.blocks[a].contents : f.blocks[a].contents[i] = q
           IN  At(o) < At(p)

\* Initialization comes before every load and store: the loads never fail.
InitializedFirst(f, graph, tree, init, rest) ==
  \A o \in rest : /\ f.operations[o].block \in graph.reachable
                  /\ OperationDominates(f, tree, init, o)

\* The lowered initialization is the first one.
IsInitialized(f, graph, tree, references, inits) ==
  \E init \in inits :
    /\ \A o \in inits : init <= o
    /\ f.operations[init].block \in graph.reachable
    /\ InitializedFirst(f, graph, tree, init, references \ inits)

IsPromotable(f, graph, tree, name) ==
  LET references == ReferencesTo(f, name)
  IN  /\ f.bindings[name].kind = "Var" /\ ~ f.entry /\ ~ f.bindings[name].captured
      /\ ~ MayEval(f)
      /\ \A o \in references : /\ f.blocks[f.operations[o].block].region = f.body
                               /\ f.operations[o].kind \in References
      /\ IsInitialized(f, graph, tree, references, OfKind(f, references, "InitializeBinding"))
      /\ \A o \in references \ OfKind(f, references, "LoadBinding") :
           ~ RequiresNamedEvaluation(f, f.operations[o].operands[1])

PromotableIn(f, graph, tree) == {n \in DOMAIN f.bindings : IsPromotable(f, graph, tree, n)}

InTree(f, graph) == PromotableIn(f, graph, ImmediateDominators(graph))

PromotableBindings(f) == InTree(f, RegionGraph(f, f.body))

-----------------------------------------------------------------------------
(* The update: which value reaches which load.  A reaching value is a      *)
(* value, or the parameter that a merge block is going to have.            *)

Existing(v)   == <<"Existing", v>>
Merge(b)      == <<"Merge", b>>
NoValue       == <<>>

\* One block: the loads in it read current, until a store replaces it.
RECURSIVE ThroughBlock(_, _, _, _, _), Walk(_, _, _, _, _, _)

ThroughBlock(f, name, operations, current, rewrites) ==
  IF operations = <<>> THEN <<current, rewrites>>
  ELSE LET o    == Head(operations)
           op   == f.operations[o]
           mine == o \in ReferencesTo(f, name)
       IN  IF mine /\ op.kind = "LoadBinding"
           THEN ThroughBlock(f, name, Tail(operations), current,
                             Append(rewrites, <<op.results[1], current>>))
           ELSE ThroughBlock(f, name, Tail(operations),
                             IF mine THEN Existing(op.operands[1]) ELSE current, rewrites)

\* MUTANT: what a block hands on is what it was handed.
HandsOnInherited(merges, block, inherited, after) ==
  IF block \in ToSet(merges) THEN Merge(block) ELSE inherited

\* What a block hands on to the blocks it dominates and to its successors.
HandsOn(merges, block, inherited, after) == after

\* Down the dominator tree from the stack of <<block, inherited value>>.
Walk(f, name, analyses, stack, outgoing, rewrites) ==
  IF stack = <<>> THEN [outgoing |-> outgoing, rewrites |-> rewrites]
  ELSE LET block    == Last(stack)[1]
           inherited == Last(stack)[2]
           current  == IF block \in ToSet(analyses.merges) THEN Merge(block) ELSE inherited
           through  == ThroughBlock(f, name, f.blocks[block].contents, current, rewrites)
           after    == HandsOn(analyses.merges, block, inherited, through[1])
           children == Reverse(ChildrenOf(analyses.graph, analyses.tree, block))
       IN  Walk(f, name, analyses,
                Front(stack) \o [i \in DOMAIN children |-> <<children[i], after>>],
                (block :> after) @@ outgoing, through[2])

\* The merge blocks, what flows out of every block, and what each load reads.
CompleteUpdate(graph, merges, walk) ==
  [merges |-> merges, outgoing |-> walk.outgoing, rewrites |-> walk.rewrites,
   complete |-> /\ \A i \in DOMAIN walk.rewrites : walk.rewrites[i][2] # NoValue
                /\ \A b \in ToSet(merges) : \A p \in ToSet(graph.predecessors[b]) :
                     walk.outgoing[p] # NoValue]

UpdateMerging(f, name, graph, tree, merges) ==
  CompleteUpdate(graph, merges,
    Walk(f, name, [graph |-> graph, tree |-> tree, merges |-> merges],
         <<<<graph.entry, NoValue>>>>, <<>>, <<>>))

UpdateIn(f, name, graph, tree) ==
  LET writes == ReferencesTo(f, name) \ OfKind(f, ReferencesTo(f, name), "LoadBinding")
      Defines(b) == \E o \in writes : f.operations[o].block = b
  IN  UpdateMerging(f, name, graph, tree,
        IteratedFrontier(Frontiers(graph, tree), SelectSeq(graph.order, Defines)))

UpdateInGraph(f, name, graph) == UpdateIn(f, name, graph, ImmediateDominators(graph))

UpdateFor(f, name) == UpdateInGraph(f, name, RegionGraph(f, f.body))

-----------------------------------------------------------------------------
(* The update is applied: parameters first, then the arguments of the      *)
(* edges into the merge blocks, then the loads.                            *)

Parameterized(f, b, v) ==
  [f EXCEPT !.blocks[b].parameters = Append(@, [source |-> Forwarded, value |-> v]),
            !.values = (v :> [kind |-> "BlockParameter", block |-> b,
                              index |-> Len(f.blocks[b].parameters) + 1]) @@ @,
            !.uses = (v :> {}) @@ @]

\* MUTANT: the new operand is on no use list.
UnlistedArgument(f, e, v) ==
  LET op    == f.operations[e[1]]
      after == FirstArgument(op, e[2]) + op.targets[e[2]].count
  IN  [f EXCEPT !.operations[e[1]] = [op EXCEPT !.operands = InsertAt(@, after + 1, v),
                                                !.targets[e[2]].count = @ + 1]]

\* One more argument for the successor e: the operands behind it move up.
AppendSuccessorArgument(f, e, v) ==
  LET op    == f.operations[e[1]]
      after == FirstArgument(op, e[2]) + op.targets[e[2]].count
  IN  Rewired(f, e[1], [op EXCEPT !.operands = InsertAt(@, after + 1, v),
                                  !.targets[e[2]].count = @ + 1])

Resolve(value, parameters) == IF value[1] = "Existing" THEN value[2] ELSE parameters[value[2]]

\* append_forwarded_block_parameters: an edge from a block that cannot execute
\* forwards the parameter to itself.
WithMergeParameters(f, update, parameters) ==
  LET blocks   == update.merges
      added    == FoldLeft(LAMBDA g, b : Parameterized(g, b, parameters[b]), f, blocks)
      Reaching(e) == IF Source(f, e) \in DOMAIN update.outgoing THEN update.outgoing[Source(f, e)]
                     ELSE Merge(Target(f, e))
      Extended(g, b) ==
        FoldLeft(LAMBDA h, e : AppendSuccessorArgument(h, e, Resolve(Reaching(e), parameters)),
                 g, EdgesInOrder(IncomingEdges(f, b)))
  IN  FoldLeft(Extended, added, blocks)

\* MUTANT: the loads found first are replaced first.
InOrderOfDiscovery(rewrites) == rewrites

\* What replaces a load may itself be a load that was found earlier.
ReplacementOrder(rewrites) == Reverse(rewrites)

\* The function before the loads and stores go.
Rewritten(f, update) ==
  LET last       == CHOOSE v \in DOMAIN f.values : \A w \in DOMAIN f.values : w <= v
      parameters == [b \in ToSet(update.merges) |->
                       last + (CHOOSE i \in DOMAIN update.merges : update.merges[i] = b)]
      Replaced(g, r) == ReplaceAllUses(g, r[1], Resolve(r[2], parameters))
  IN  FoldLeft(Replaced, WithMergeParameters(f, update, parameters),
               ReplacementOrder(update.rewrites))

Promoted(f, name, update) == RemoveOperations(Rewritten(f, update), ReferencesTo(f, name))

\* The assertions on the way: a value reaches every load and every edge into a
\* merge block, every merge block has such an edge, and what is removed is no
\* longer read.
CanPromote(f, name, update) ==
  /\ update.complete
  /\ \A b \in ToSet(update.merges) : IncomingEdges(f, b) # {}
  /\ CanRemoveOperations(Rewritten(f, update), ReferencesTo(f, name))
=============================================================================
