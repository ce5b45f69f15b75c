--------------------------- MODULE FunctionPasses ---------------------------
(***************************************************************************)
(* What the passes over one function plan                                  *)
(* (crates/evrel-middle/src/js/transform/): from a function, and from an   *)
(* analysis of it, the batch of editor calls that a pass makes next.  A    *)
(* call is a record, see FunctionEditor.                                   *)
(***************************************************************************)
EXTENDS FunctionIr, SparseValues

NoAnalysis == [values |-> <<>>, blocks |-> {}, edges |-> {}]

-----------------------------------------------------------------------------
(* FunctionValueAnalysis::analyze.                                         *)

Analyze(f) == Solve(f, "ascending")

-----------------------------------------------------------------------------
(* propagate_constants.                                                    *)

IsReplaceable(f, a, o) ==
  LET op == f.operations[o]
  IN  /\ op.kind # "Constant" /\ Len(op.results) = 1 /\ op.regions = {}
      /\ IsSafeToRemove(f, a, o)
      /\ IsConstant(a.values[op.results[1]])

ConstantReplacements(f, a) ==
  LET planned == InOrder({o \in DOMAIN f.operations : IsReplaceable(f, a, o)})
  IN  [i \in DOMAIN planned |->
         [call |-> "ReplaceWithConstant", operation |-> planned[i],
          constant |-> a.values[f.operations[planned[i]].results[1]].constant]]

-----------------------------------------------------------------------------
(* simplify_operations.                                                    *)

IsNumber(a, v) == IsDefinitely(a.values[v], {"number"})

\* The value that o computes anew.
SameValueAs(f, a, o) ==
  LET op    == f.operations[o]
      inner == f.values[op.operands[1]]
  IN  CASE op.kind = "Plus" /\ IsNumber(a, op.operands[1]) -> {op.operands[1]}
        [] op.kind = "Not" /\ inner.kind = "OperationResult" ->
             {v \in ToSet(f.operations[inner.operation].operands) :
                /\ f.operations[inner.operation].kind = "Not"
                /\ IsDefinitely(a.values[v], {"boolean"})}
        [] OTHER -> {}

\* The constant that comparing a value with itself gives.
ReflexiveConstant(f, a, o) ==
  LET op == f.operations[o]
      v  == op.operands[1]
  IN  IF op.kind \notin {"StrictEqual", "LessThan"} \/ op.operands[2] # v THEN {}
      ELSE IF op.kind = "StrictEqual" /\ ~ IsBottom(a.values[v]) /\ "number" \notin a.values[v].types
      THEN {"true"}
      ELSE IF op.kind = "LessThan" /\ IsNumber(a, v) THEN {"false"}
      ELSE {}

CanBeSimplified(f, a, o) ==
  /\ o \in DOMAIN f.operations
  /\ f.operations[o].kind \in {"Not", "Plus", "StrictEqual", "LessThan"}
  /\ IsSafeToRemove(f, a, o)

SimplificationOf(f, a, o) ==
  IF ~ CanBeSimplified(f, a, o) THEN <<>>
  ELSE LET result == f.operations[o].results[1]
       IN  Listing({[call |-> "ReplaceWithConstant", operation |-> o, constant |-> c] :
                      c \in ReflexiveConstant(f, a, o)})
           \o FlattenSeq(Listing({<<[call |-> "ReplaceAllUses", value |-> result, replacement |-> v],
                                    [call |-> "RemoveOperations", operations |-> {o}]>> :
                                    v \in SameValueAs(f, a, o)}))

ResultUsers(f, o) == {u[1] : u \in f.uses[f.operations[o].results[1]]}

-----------------------------------------------------------------------------
(* simplify_control_flow.                                                  *)

ConstantIfs(f, a) ==
  LET taken == EdgesInOrder({e \in Edges(f) : /\ f.operations[e[1]].kind = "If"
                                              /\ ExecutableOf(f, a, e[1]) = {e[2]}})
  IN  [i \in DOMAIN taken |->
         [call |-> "ReplaceIfWithJump", operation |-> taken[i][1], successor |-> taken[i][2]]]

\* A block that only forwards its parameters to another block.
IsForwardingBlock(f, b) ==
  /\ ~ HasBoundaryRole(f, b)
  /\ f.blocks[b].contents = <<>> /\ AllForwarded(f, b) /\ f.blocks[b].terminator # None
  /\ LET jump == f.operations[f.blocks[b].terminator]
     IN  /\ jump.kind = "Jump" /\ jump.targets[1].block # b
         /\ ToSet(Arguments(jump, 1)) \subseteq ParameterValues(f, b)
  /\ \A v \in ParameterValues(f, b) : \A u \in f.uses[v] : u[1] = f.blocks[b].terminator
  /\ IncomingEdges(f, b) # {}
  /\ \A e \in IncomingEdges(f, b) :
       ProducedCount(f, e) = 0 /\ Len(EdgeArguments(f, e)) = Len(f.blocks[b].parameters)

\* MUTANT: the arguments of e as they come, whatever b makes of them.
ArgumentsAsTheyCome(f, b, e) == EdgeArguments(f, e)

\* The arguments that edge e passes on to the target of forwarding block b.
ComposedArguments(f, b, e) ==
  LET outgoing   == Arguments(f.operations[f.blocks[b].terminator], 1)
      incoming   == EdgeArguments(f, e)
      indexOf(v) == CHOOSE k \in DOMAIN f.blocks[b].parameters : f.blocks[b].parameters[k].value = v
  IN  [i \in DOMAIN outgoing |-> incoming[indexOf(outgoing[i])]]

ThreadForwardingBlock(f, b) ==
  LET edges == EdgesInOrder(IncomingEdges(f, b))
  IN  [i \in DOMAIN edges |->
         [call |-> "ReplaceSuccessor", operation |-> edges[i][1], successor |-> edges[i][2],
          target |-> f.operations[f.blocks[b].terminator].targets[1].block,
          arguments |-> ComposedArguments(f, b, edges[i])]]
      \o <<[call |-> "RemoveBlocks", blocks |-> {b}]>>

\* A block that its only predecessor leads to and nowhere else.
IsLinearBlock(f, b) ==
  /\ ~ HasBoundaryRole(f, b) /\ f.blocks[b].terminator # None
  /\ \E e \in Edges(f) :
       /\ IncomingEdges(f, b) = {e} /\ f.operations[e[1]].kind = "Jump"
       /\ Source(f, e) # b /\ OutgoingEdges(f, Source(f, e)) = {e}
       /\ AllForwarded(f, b) /\ Len(EdgeArguments(f, e)) = Len(f.blocks[b].parameters)
       /\ \A k \in DOMAIN f.blocks[b].parameters :
            f.blocks[b].parameters[k].value # EdgeArguments(f, e)[k]

MergeLinearBlock(f, b) ==
  LET e == CHOOSE x \in Edges(f) : x \in IncomingEdges(f, b)
  IN  [k \in DOMAIN f.blocks[b].parameters |->
         [call |-> "ReplaceAllUses", value |-> f.blocks[b].parameters[k].value,
          replacement |-> EdgeArguments(f, e)[k]]]
      \o <<[call |-> "MergeBlock", predecessor |-> Source(f, e), block |-> b]>>

Rewritable(f, b) == IsForwardingBlock(f, b) \/ IsLinearBlock(f, b)

\* Blocks come region by region, in layout order.
BlockOrder(f) ==
  FlattenSeq([i \in 1..Cardinality(DOMAIN f.regions) |->
                f.regions[InOrder(DOMAIN f.regions)[i]]])

RewriteOf(f, b) ==
  IF IsForwardingBlock(f, b) THEN ThreadForwardingBlock(f, b) ELSE MergeLinearBlock(f, b)

NextRewrite(f) ==
  LET order      == BlockOrder(f)
      candidates == {i \in DOMAIN order : Rewritable(f, order[i])}
      first      == CHOOSE i \in candidates : \A j \in candidates : i <= j
  IN  IF candidates = {} THEN <<>> ELSE RewriteOf(f, order[first])

-----------------------------------------------------------------------------
(* prune_unreachable_blocks.                                               *)

\* What an operation keeps: its successors, its structural blocks and the
\* entries of its regions.
Keeps(f, o) ==
  {f.operations[o].targets[i].block : i \in DOMAIN f.operations[o].targets}
    \cup f.operations[o].structural \cup {Entry(f, r) : r \in f.operations[o].regions}

RetainedBlocks(f) ==
  LET roots == {Entry(f, r) : r \in {f.body} \cup f.roots} \cup f.handlers \cup f.labels
      grow[n \in 0..Cardinality(DOMAIN f.blocks)] ==
        IF n = 0 THEN roots
        ELSE LET B == grow[n - 1]
             IN  B \cup UNION {Keeps(f, o) : o \in OperationsOf(f, B)}
  IN  grow[Cardinality(DOMAIN f.blocks)]

UnreachableBlocks(f) == DOMAIN f.blocks \ RetainedBlocks(f)

PruneCalls(f) ==
  IF UnreachableBlocks(f) = {} THEN <<>>
  ELSE <<[call |-> "RemoveBlocks", blocks |-> UnreachableBlocks(f)]>>

-----------------------------------------------------------------------------
(* simplify_block_parameters.                                              *)

Parameter(f, b, index) == f.blocks[b].parameters[ForwardedPosition(f, b, index)].value

\* What the edges into b pass for a forwarded parameter, other than itself.
EffectiveInputs(f, b, index) ==
  {EdgeArguments(f, e)[index] : e \in IncomingEdges(f, b)} \ {Parameter(f, b, index)}

IsUnused(f, v) == f.uses[v] = {}

\* The forwarded parameters of b that are unused or have one effective input.
TrivialParameters(f, b) ==
  IF b \notin DOMAIN f.blocks \/ IncomingEdges(f, b) = {} THEN {}
  ELSE {i \in 1..Cardinality(ForwardedPositions(f, b)) :
          \/ IsUnused(f, Parameter(f, b, i))
          \/ Cardinality(EffectiveInputs(f, b, i)) = 1}

ParameterCalls(f, b, index) ==
  (IF IsUnused(f, Parameter(f, b, index)) THEN <<>>
   ELSE <<[call |-> "ReplaceAllUses", value |-> Parameter(f, b, index),
           replacement |-> CHOOSE v \in EffectiveInputs(f, b, index) : TRUE]>>)
  \o <<[call |-> "RemoveForwardedParameter", block |-> b, index |-> index]>>

\* The targets of the successors that a value is an argument of.
ArgumentTargets(f, v) ==
  {Target(f, e) : e \in {x \in Edges(f) : v \in ToSet(EdgeArguments(f, x))}}

\* The blocks whose parameters are the inputs of a parameter.
InputBlocks(f, b, index) ==
  {f.values[v].block : v \in {x \in {EdgeArguments(f, e)[index] : e \in IncomingEdges(f, b)} :
                                f.values[x].kind = "BlockParameter"}}

AffectedBlocks(f, b, index) ==
  IF IsUnused(f, Parameter(f, b, index)) THEN InputBlocks(f, b, index)
                                         ELSE ArgumentTargets(f, Parameter(f, b, index))

-----------------------------------------------------------------------------
(* eliminate_common_subexpressions.                                        *)

ExpressionKey(f, o) == <<f.operations[o].kind, f.operations[o].operands>>

IsShareable(f, a, o) ==
  /\ f.operations[o].kind \in {"Not", "Plus", "StrictEqual", "LessThan", "IsNullish"}
  /\ f.operations[o].block \in Reachable(f, f.blocks[f.operations[o].block].region)
  /\ IsSafeToRemove(f, a, o)

PositionInBlock(f, o) == CHOOSE k \in DOMAIN f.blocks[f.operations[o].block].contents :
                           f.blocks[f.operations[o].block].contents[k] = o

\* MUTANT: an operation in any block that was visited earlier is available.
EvaluatedSomewhere(f, o, p) == o < p

\* o is evaluated on every path to p.
EvaluatedBefore(f, o, p) ==
  LET b == f.operations[o].block
      c == f.operations[p].block
  IN  IF b = c THEN PositionInBlock(f, o) < PositionInBlock(f, p) ELSE Dominates(f, b, c)

\* The operations that have computed the value of o before.
Available(f, a, o) ==
  {p \in DOMAIN f.operations : /\ p # o /\ ExpressionKey(f, p) = ExpressionKey(f, o)
                               /\ IsShareable(f, a, p) /\ EvaluatedBefore(f, p, o)}

\* The first of them, which every later one is replaced by.
Leader(f, a, o) == CHOOSE p \in Available(f, a, o) : Available(f, a, p) = {}

ExpressionCalls(f, a) ==
  LET repeated == {o \in DOMAIN f.operations : IsShareable(f, a, o) /\ Available(f, a, o) # {}}
      inOrder  == InOrder(repeated)
  IN  [i \in DOMAIN inOrder |->
         [call |-> "ReplaceAllUses", value |-> f.operations[inOrder[i]].results[1],
          replacement |-> f.operations[Leader(f, a, inOrder[i])].results[1]]]
      \o <<[call |-> "RemoveOperations", operations |-> repeated]>>

-----------------------------------------------------------------------------
(* eliminate_dead_code.                                                    *)

IsDead(f, a, o, planned) ==
  /\ ~ IsTerminator(f, o) /\ f.operations[o].regions = {}
  /\ \A v \in ToSet(f.operations[o].results) : \A u \in f.uses[v] : u[1] \in planned
  /\ IsSafeToRemove(f, a, o)

DeadOperations(f, a) ==
  LET planned[n \in 0..Cardinality(DOMAIN f.operations)] ==
        IF n = 0 THEN {}
        ELSE LET before == planned[n - 1] IN {o \in DOMAIN f.operations : IsDead(f, a, o, before)}
  IN  planned[Cardinality(DOMAIN f.operations)]

DeadCodeCalls(f, a) == <<[call |-> "RemoveOperations", operations |-> DeadOperations(f, a)]>>
=============================================================================
