--------------------------- MODULE FunctionEditor ---------------------------
(***************************************************************************)
(* The mutations of a function (crates/evrel-js-ir/src/function/editor.rs  *)
(* and the methods of function.rs behind it).  Every call asserts what it  *)
(* relies on, and then changes operations and use lists together.          *)
(*                                                                         *)
(* calls holds the editor calls still to be made, the next one first.  The *)
(* removal of a block parameter loops over the edges of its block, one step*)
(* for each, with the edges still to come in removal; so the use lists can *)
(* be examined between any two.  A failed assertion ends the program:      *)
(* panicked.                                                               *)
(***************************************************************************)
EXTENDS FunctionIr

VARIABLES
  function,   \* the function being edited
  calls,      \* the editor calls still to be made
  removal,    \* the removal of a block parameter that is under way
  panicked    \* an assertion has failed

editorVars == <<function, calls, removal, panicked>>

-----------------------------------------------------------------------------
(* Use lists.                                                              *)

\* The operands of o from position first on are taken off their use lists.
Detached(uses, o, operands, first) ==
  [v \in DOMAIN uses |-> uses[v] \ {<<o, i>> : i \in {j \in first..Len(operands) : operands[j] = v}}]

Attached(uses, o, operands, first) ==
  [v \in DOMAIN uses |-> uses[v] \cup {<<o, i>> : i \in {j \in first..Len(operands) : operands[j] = v}}]

\* remove_use insists on finding the use it is to remove.
IsAttached(uses, o, operands, first) ==
  \A i \in first..Len(operands) : operands[i] \in DOMAIN uses /\ <<o, i>> \in uses[operands[i]]

\* The same for all operands of a set of operations.
DetachedAll(f, O) ==
  [v \in DOMAIN f.uses |->
     {u \in f.uses[v] : ~ (/\ u[1] \in O
                           /\ u[2] \in DOMAIN f.operations[u[1]].operands
                           /\ f.operations[u[1]].operands[u[2]] = v)}]

AreAttached(f, O) == \A o \in O : IsAttached(f.uses, o, f.operations[o].operands, 1)

UsedOnlyBy(f, V, O) == \A v \in V : v \in DOMAIN f.uses /\ \A u \in f.uses[v] : u[1] \in O

\* Gives o the operands and the changes of update, every use moved along.
Rewired(f, o, update) ==
  [f EXCEPT !.operations[o] = update,
            !.uses = Attached(Detached(f.uses, o, f.operations[o].operands, 1), o, update.operands, 1)]

\* s without the members of S, in the order of s.
Without(s, S) ==
  LET kept[i \in 0..Len(s)] ==
        IF i = 0 THEN <<>> ELSE IF s[i] \in S THEN kept[i - 1] ELSE Append(kept[i - 1], s[i])
  IN  kept[Len(s)]

-----------------------------------------------------------------------------
(* Operands and single operations.                                         *)

CanReplaceAllUses(f, v, w) ==
  /\ {v, w} \subseteq DOMAIN f.uses
  /\ \A u \in f.uses[v] : /\ u[1] \in DOMAIN f.operations
                          /\ u[2] \in DOMAIN f.operations[u[1]].operands
                          /\ f.operations[u[1]].operands[u[2]] = v

\* The operands of o that are among the uses read w.
Rereading(op, o, uses, w) ==
  [op EXCEPT !.operands = [i \in DOMAIN @ |-> IF <<o, i>> \in uses THEN w ELSE @[i]]]

\* MUTANT: the old value keeps its use list.
UsesLeftBehind(f, v, w) ==
  IF v = w THEN f ELSE
  [f EXCEPT !.operations = [o \in DOMAIN @ |-> Rereading(@[o], o, f.uses[v], w)],
            !.uses[w] = @ \cup f.uses[v]]

ReplaceAllUses(f, v, w) ==
  IF v = w THEN f ELSE
  [f EXCEPT !.operations = [o \in DOMAIN @ |-> Rereading(@[o], o, f.uses[v], w)],
            !.uses[w] = @ \cup f.uses[v], !.uses[v] = {}]

CanRemoveOperations(f, O) ==
  /\ O \subseteq DOMAIN f.operations
  /\ \A o \in O : ~ IsTerminator(f, o) /\ f.operations[o].regions = {}
                  /\ o \in ToSet(f.blocks[f.operations[o].block].contents)
  /\ UsedOnlyBy(f, ResultValues(f, O), O)
  /\ AreAttached(f, O)

\* MUTANT: the blocks go on listing what was removed.
RemoveFromArenaOnly(f, O) ==
  LET live == DOMAIN f.values \ ResultValues(f, O)
  IN  [f EXCEPT !.operations = Restrict(@, DOMAIN @ \ O),
                !.values = Restrict(@, live),
                !.uses   = Restrict(DetachedAll(f, O), live)]

Unlisted(block, O) == [block EXCEPT !.contents = Without(@, O)]

RemoveOperations(f, O) ==
  LET live == DOMAIN f.values \ ResultValues(f, O)
  IN  [f EXCEPT !.operations = Restrict(@, DOMAIN @ \ O),
                !.blocks = [b \in DOMAIN @ |-> Unlisted(@[b], O)],
                !.values = Restrict(@, live),
                !.uses   = Restrict(DetachedAll(f, O), live)]

CanReplaceWithConstant(f, o) ==
  /\ o \in DOMAIN f.operations
  /\ ~ IsTerminator(f, o) /\ f.operations[o].regions = {} /\ Len(f.operations[o].results) = 1
  /\ AreAttached(f, {o})

ReplaceWithConstant(f, o, constant) ==
  Rewired(f, o, [f.operations[o] EXCEPT !.kind = "Constant", !.detail = constant,
                                        !.own = 0, !.operands = <<>>])

-----------------------------------------------------------------------------
(* Terminators.                                                            *)

\* The arguments and parameters at the two ends of a successor agree.
FitsTarget(f, op, i, target, count) ==
  LET parameters == f.blocks[target].parameters
      produced   == op.targets[i].produced
  IN  /\ Len(parameters) = produced + count
      /\ \A k \in 1..Len(parameters) :
           parameters[k].source = IF k <= produced THEN ProducedSource(op, i) ELSE Forwarded

RangeIsValid(op, i) ==
  /\ FirstArgument(op, i) \in Nat /\ op.targets[i].count \in Nat
  /\ FirstArgument(op, i) + op.targets[i].count <= Len(op.operands)

CanReplaceIfWithJump(f, o, i) ==
  /\ o \in DOMAIN f.operations /\ f.operations[o].kind = "If"
  /\ f.operations[o].results = <<>>
  /\ f.blocks[f.operations[o].block].terminator = o
  /\ i \in DOMAIN f.operations[o].targets /\ f.operations[o].targets[i].produced = 0
  /\ RangeIsValid(f.operations[o], i)
  /\ AreAttached(f, {o})

\* MUTANT: the jump always takes the first successor.
JumpToTheFirst(f, o, i) ==
  LET op == f.operations[o]
  IN  Rewired(f, o, [op EXCEPT !.kind = "Jump", !.own = 0, !.structural = {},
                               !.operands = Arguments(op, i), !.targets = <<op.targets[1]>>])

ReplaceIfWithJump(f, o, i) ==
  LET op == f.operations[o]
  IN  Rewired(f, o, [op EXCEPT !.kind = "Jump", !.own = 0, !.structural = {},
                               !.operands = Arguments(op, i), !.targets = <<op.targets[i]>>])

CanReplaceSuccessor(f, o, i, target, arguments) ==
  /\ o \in DOMAIN f.operations /\ i \in DOMAIN f.operations[o].targets
  /\ target \in DOMAIN f.blocks
  /\ f.blocks[f.operations[o].block].region = f.blocks[target].region
  /\ FitsTarget(f, f.operations[o], i, target, Len(arguments))
  /\ arguments \in Seq(DOMAIN f.values)
  /\ RangeIsValid(f.operations[o], i)
  /\ AreAttached(f, {o})

ReplaceSuccessor(f, o, i, target, arguments) ==
  LET op    == f.operations[o]
      first == FirstArgument(op, i)
      after == first + op.targets[i].count
  IN  Rewired(f, o, [op EXCEPT
        !.operands = SubSeq(@, 1, first) \o arguments \o SubSeq(@, after + 1, Len(@)),
        !.targets[i].block = target, !.targets[i].count = Len(arguments)])

\* One argument of one successor is removed, and the operands behind it move
\* down by one.
CanRemoveSuccessorArgument(f, o, i, index) ==
  /\ o \in DOMAIN f.operations /\ i \in DOMAIN f.operations[o].targets
  /\ index \in 1..f.operations[o].targets[i].count
  /\ FirstArgument(f.operations[o], i) + index \in DOMAIN f.operations[o].operands
  /\ IsAttached(f.uses, o, f.operations[o].operands, FirstArgument(f.operations[o], i) + index)

\* MUTANT: the operands behind it keep the uses of their old positions.
ShiftedUsesLeft(f, o, i, index) ==
  LET op == f.operations[o]
      at == FirstArgument(op, i) + index
  IN  [f EXCEPT !.operations[o] = [op EXCEPT !.operands = RemoveAt(@, at), !.targets[i].count = @ - 1],
                !.uses[op.operands[at]] = @ \ {<<o, at>>}]

RemoveSuccessorArgument(f, o, i, index) ==
  LET op        == f.operations[o]
      at        == FirstArgument(op, i) + index
      remaining == RemoveAt(op.operands, at)
  IN  [f EXCEPT !.operations[o] = [op EXCEPT !.operands = remaining, !.targets[i].count = @ - 1],
                !.uses = Attached(Detached(f.uses, o, op.operands, at), o, remaining, at)]

-----------------------------------------------------------------------------
(* Block parameters.                                                       *)

CanRemoveForwardedParameter(f, b, index) ==
  /\ b \in DOMAIN f.blocks /\ HasForwarded(f, b, index)
  /\ LET v == f.blocks[b].parameters[ForwardedPosition(f, b, index)].value
     IN  v \in DOMAIN f.uses /\ f.uses[v] = {}
  /\ IncomingEdges(f, b) # {}

\* MUTANT: the parameters behind the removed one keep their positions.
KeepParameterIndices(f, b, k) ==
  LET live == DOMAIN f.values \ {f.blocks[b].parameters[k].value}
  IN  [f EXCEPT !.blocks[b].parameters = RemoveAt(@, k),
                !.values = Restrict(@, live), !.uses = Restrict(@, live)]

MovedDown(definition) == [definition EXCEPT !.index = @ - 1]

RemoveParameter(f, b, k) ==
  LET live    == DOMAIN f.values \ {f.blocks[b].parameters[k].value}
      shifted == {f.blocks[b].parameters[j].value : j \in (k + 1)..Len(f.blocks[b].parameters)}
  IN  [f EXCEPT !.blocks[b].parameters = RemoveAt(@, k),
                !.values = [v \in live |-> IF v \in shifted THEN MovedDown(@[v]) ELSE @[v]],
                !.uses = Restrict(@, live)]

-----------------------------------------------------------------------------
(* Blocks.                                                                 *)

\* B and the blocks of all regions owned, directly or not, by its operations.
WithNested(f, B) ==
  LET grow[n \in 0..Cardinality(DOMAIN f.regions)] ==
        IF n = 0 THEN B
        ELSE LET C == grow[n - 1]
             IN  C \cup UNION {ToSet(f.regions[r]) : r \in RegionsOf(f, OperationsOf(f, C))}
  IN  grow[Cardinality(DOMAIN f.regions)]

\* The live operations refer to no block or region that is to be removed.
NothingRefersTo(f, B, O, R) ==
  /\ \A o \in DOMAIN f.operations \ O :
       /\ \A i \in DOMAIN f.operations[o].targets : f.operations[o].targets[i].block \notin B
       /\ f.operations[o].structural \cap B = {}
       /\ f.operations[o].regions \cap R = {}
  /\ (f.handlers \cup f.labels) \cap B = {}

\* Every removed operation is where it says it is.
InRecordedBlocks(f, O) ==
  \A o \in O : LET b == f.operations[o].block
              IN  /\ b \in DOMAIN f.blocks
                  /\ IF IsTerminator(f, o) THEN f.blocks[b].terminator = o
                                           ELSE o \in ToSet(f.blocks[b].contents)

CanRemoveBlocks(f, B) ==
  LET blocks     == WithNested(f, B)
      operations == OperationsOf(f, blocks)
      regions    == RegionsOf(f, operations)
  IN  /\ B \subseteq DOMAIN f.blocks
      /\ \A r \in DOMAIN f.regions \ regions : Entry(f, r) \notin blocks
      /\ regions \cap ({f.body} \cup f.roots) = {}
      /\ NothingRefersTo(f, blocks, operations, regions)
      /\ UsedOnlyBy(f, (UNION {ParameterValues(f, b) : b \in blocks}) \cup ResultValues(f, operations),
                    operations)
      /\ InRecordedBlocks(f, operations)
      /\ AreAttached(f, operations)

RemoveBlocks(f, B) ==
  LET blocks     == WithNested(f, B)
      operations == OperationsOf(f, blocks)
      regions    == RegionsOf(f, operations)
      live       == DOMAIN f.values \ ((UNION {ParameterValues(f, b) : b \in blocks})
                                          \cup ResultValues(f, operations))
  IN  [f EXCEPT !.regions = [r \in DOMAIN @ \ regions |-> Without(@[r], blocks)],
                !.blocks = Restrict(@, DOMAIN @ \ blocks),
                !.operations = Restrict(@, DOMAIN @ \ operations),
                !.values = Restrict(@, live),
                !.uses = Restrict(DetachedAll(f, operations), live)]

\* MUTANT: the operations that move keep naming their old block.
SplicedButNotTold(f, p, b) ==
  LET jump == f.blocks[p].terminator
  IN  [f EXCEPT !.blocks[p].contents = @ \o f.blocks[b].contents,
                !.blocks[p].terminator = f.blocks[b].terminator,
                !.blocks[b].contents = <<>>, !.blocks[b].terminator = None,
                !.operations = Restrict(@, DOMAIN @ \ {jump}),
                !.uses = Detached(@, jump, f.operations[jump].operands, 1)]

\* The operations of b move to the end of its predecessor p, whose jump goes;
\* b is then an empty block, and removed.
Spliced(f, p, b) ==
  LET jump  == f.blocks[p].terminator
      moved == BlockOperations(f, b)
  IN  [f EXCEPT !.blocks[p].contents = @ \o f.blocks[b].contents,
                !.blocks[p].terminator = f.blocks[b].terminator,
                !.blocks[b].contents = <<>>, !.blocks[b].terminator = None,
                !.operations = [o \in DOMAIN @ \ {jump} |->
                   IF o \in moved THEN [f.operations[o] EXCEPT !.block = p] ELSE f.operations[o]],
                !.uses = Detached(@, jump, f.operations[jump].operands, 1)]

CanMergeBlock(f, p, b) ==
  /\ p # b /\ {p, b} \subseteq DOMAIN f.blocks
  /\ f.blocks[p].terminator # None
  /\ LET jump == f.operations[f.blocks[p].terminator]
     IN  /\ jump.kind = "Jump" /\ jump.targets[1].block = b
         /\ jump.regions = {} /\ jump.results = <<>>
  /\ f.blocks[p].region = f.blocks[b].region
  /\ \A v \in ParameterValues(f, b) : v \in DOMAIN f.uses /\ f.uses[v] = {}
  /\ AreAttached(f, {f.blocks[p].terminator})
  /\ BlockOperations(f, b) \subseteq DOMAIN f.operations \ {f.blocks[p].terminator}
  /\ CanRemoveBlocks(Spliced(f, p, b), {b})

MergeBlock(f, p, b) == RemoveBlocks(Spliced(f, p, b), {b})

-----------------------------------------------------------------------------
(* The editor at work.                                                     *)

NoRemoval == [block |-> None, index |-> 0, position |-> 0, edges |-> <<>>]

\* The next call is made: it either fails its assertions or edits the function.
Perform(call, asserts, result) ==
  /\ ~ panicked /\ calls # <<>> /\ removal = NoRemoval
  /\ Head(calls).call = call
  /\ IF asserts
     THEN function' = result /\ calls' = Tail(calls) /\ UNCHANGED <<removal, panicked>>
     ELSE panicked' = TRUE /\ UNCHANGED <<function, calls, removal>>

Call == Head(calls)

PerformReplaceAllUses ==
  Perform("ReplaceAllUses", CanReplaceAllUses(function, Call.value, Call.replacement),
          ReplaceAllUses(function, Call.value, Call.replacement))

PerformRemoveOperations ==
  Perform("RemoveOperations", CanRemoveOperations(function, Call.operations),
          RemoveOperations(function, Call.operations))

PerformReplaceWithConstant ==
  Perform("ReplaceWithConstant", CanReplaceWithConstant(function, Call.operation),
          ReplaceWithConstant(function, Call.operation, Call.constant))

PerformReplaceIfWithJump ==
  Perform("ReplaceIfWithJump", CanReplaceIfWithJump(function, Call.operation, Call.successor),
          ReplaceIfWithJump(function, Call.operation, Call.successor))

PerformReplaceSuccessor ==
  Perform("ReplaceSuccessor",
          CanReplaceSuccessor(function, Call.operation, Call.successor, Call.target, Call.arguments),
          ReplaceSuccessor(function, Call.operation, Call.successor, Call.target, Call.arguments))

PerformRemoveBlocks ==
  Perform("RemoveBlocks", CanRemoveBlocks(function, Call.blocks),
          RemoveBlocks(function, Call.blocks))

PerformMergeBlock ==
  Perform("MergeBlock", CanMergeBlock(function, Call.predecessor, Call.block),
          MergeBlock(function, Call.predecessor, Call.block))

\* remove_forwarded_block_parameter: its checks, then one argument on every
\* incoming edge, then the parameter.
BeginRemoval ==
  /\ ~ panicked /\ calls # <<>> /\ removal = NoRemoval
  /\ Call.call = "RemoveForwardedParameter"
  /\ IF CanRemoveForwardedParameter(function, Call.block, Call.index)
     THEN /\ removal' = [block |-> Call.block, index |-> Call.index,
                         position |-> ForwardedPosition(function, Call.block, Call.index),
                         edges |-> EdgesInOrder(IncomingEdges(function, Call.block))]
          /\ UNCHANGED <<function, calls, panicked>>
     ELSE panicked' = TRUE /\ UNCHANGED <<function, calls, removal>>

RemoveArgument ==
  /\ ~ panicked /\ removal # NoRemoval /\ removal.edges # <<>>
  /\ LET e == Head(removal.edges)
     IN  IF CanRemoveSuccessorArgument(function, e[1], e[2], removal.index)
         THEN /\ function' = RemoveSuccessorArgument(function, e[1], e[2], removal.index)
              /\ removal' = [removal EXCEPT !.edges = Tail(@)]
              /\ UNCHANGED <<calls, panicked>>
         ELSE panicked' = TRUE /\ UNCHANGED <<function, calls, removal>>

EndRemoval ==
  /\ ~ panicked /\ removal # NoRemoval /\ removal.edges = <<>>
  /\ function' = RemoveParameter(function, removal.block, removal.position)
  /\ removal' = NoRemoval /\ calls' = Tail(calls)
  /\ UNCHANGED panicked

Edit ==
  \/ PerformReplaceAllUses \/ PerformRemoveOperations \/ PerformReplaceWithConstant
  \/ PerformReplaceIfWithJump \/ PerformReplaceSuccessor
  \/ PerformRemoveBlocks \/ PerformMergeBlock
  \/ BeginRemoval \/ RemoveArgument \/ EndRemoval

-----------------------------------------------------------------------------
(* What holds of a function however its editor is used: the bookkeeping of *)
(* values, uses, operations and blocks agrees with itself after every call.*)

\* A function has its arenas, and its operations read values that it has.
IsFunction(f) ==
  /\ {"regions", "blocks", "operations", "values", "uses"} \subseteq DOMAIN f
  /\ \A o \in DOMAIN f.operations :
       /\ {"block", "kind", "operands", "targets", "results"} \subseteq DOMAIN f.operations[o]
       /\ f.operations[o].operands \in Seq(DOMAIN f.values)

\* Blocks and regions are lists, and a function has finitely many regions.
IsLaidOut(f) ==
  /\ \A b \in DOMAIN f.blocks :
       /\ {"region", "parameters", "contents", "terminator"} \subseteq DOMAIN f.blocks[b]
       /\ f.blocks[b].contents \in Seq(DOMAIN f.operations)
       /\ f.blocks[b].parameters \in Seq(ToSet(f.blocks[b].parameters))
  /\ IsFiniteSet(DOMAIN f.regions)
  /\ \A r \in DOMAIN f.regions : f.regions[r] \in Seq(DOMAIN f.blocks)
  /\ \A o \in DOMAIN f.operations : {"structural", "regions"} \subseteq DOMAIN f.operations[o]

\* Operations are numbered, a successor says how many arguments it is passed and
\* how many values are produced for it, and only terminators have successors.
HasSuccessors(f) ==
  /\ DOMAIN f.operations \subseteq Nat /\ IsFiniteSet(DOMAIN f.operations)
  /\ \A o \in DOMAIN f.operations :
       /\ "own" \in DOMAIN f.operations[o] /\ f.operations[o].own \in Nat
       /\ f.operations[o].targets \in Seq(ToSet(f.operations[o].targets))
       /\ \A i \in DOMAIN f.operations[o].targets :
            /\ {"block", "count", "produced"} \subseteq DOMAIN f.operations[o].targets[i]
            /\ f.operations[o].targets[i].count \in Nat
            /\ f.operations[o].targets[i].produced \in Nat
       /\ IsTerminator(f, o) \/ f.operations[o].targets = <<>>

\* A value lists precisely the operands that read it, and no operand reads a
\* value that is gone.
UsesAreExact(f) ==
  /\ DOMAIN f.uses = DOMAIN f.values
  /\ \A o \in DOMAIN f.operations : ToSet(f.operations[o].operands) \subseteq DOMAIN f.values
  /\ \A v \in DOMAIN f.values :
       f.uses[v] = UNION {{<<o, i>> : i \in {j \in DOMAIN f.operations[o].operands :
                                               f.operations[o].operands[j] = v}} :
                            o \in DOMAIN f.operations}

\* The value v is in the place that its definition names.
IsWhereDefined(f, v) ==
  LET d == f.values[v]
  IN  /\ d.kind \in {"BlockParameter", "OperationResult", "FunctionParameter"}
      /\ d.kind = "BlockParameter" =>
           /\ d.block \in DOMAIN f.blocks
           /\ d.index \in DOMAIN f.blocks[d.block].parameters
           /\ f.blocks[d.block].parameters[d.index].value = v
      /\ d.kind = "OperationResult" =>
           /\ d.operation \in DOMAIN f.operations
           /\ d.index \in DOMAIN f.operations[d.operation].results
           /\ f.operations[d.operation].results[d.index] = v

IsDefinedAs(f, v, d) == v \in DOMAIN f.values /\ f.values[v] = d

\* Every value is where its definition says, and the definition of what is in a
\* place says that it is there.
DefinitionsAreExact(f) ==
  /\ \A v \in DOMAIN f.values : IsWhereDefined(f, v)
  /\ \A b \in DOMAIN f.blocks : \A k \in DOMAIN f.blocks[b].parameters :
       IsDefinedAs(f, f.blocks[b].parameters[k].value,
                   [kind |-> "BlockParameter", block |-> b, index |-> k])
  /\ \A o \in DOMAIN f.operations : \A k \in DOMAIN f.operations[o].results :
       IsDefinedAs(f, f.operations[o].results[k],
                   [kind |-> "OperationResult", operation |-> o, index |-> k])

\* Every operation is in the block it names and in no other, the terminator
\* behind the others, and every block in its region; structures name blocks
\* and regions that exist.
PlacesAreExact(f) ==
  /\ \A b \in DOMAIN f.blocks :
       /\ f.blocks[b].region \in DOMAIN f.regions
       /\ BlockOperations(f, b) = {o \in DOMAIN f.operations : f.operations[o].block = b}
       /\ \A o \in ToSet(f.blocks[b].contents) : ~ IsTerminator(f, o)
       /\ f.blocks[b].terminator # None => IsTerminator(f, f.blocks[b].terminator)
  /\ \A r \in DOMAIN f.regions :
       ToSet(f.regions[r]) = {b \in DOMAIN f.blocks : f.blocks[b].region = r}
  /\ \A o \in DOMAIN f.operations :
       /\ f.operations[o].block \in DOMAIN f.blocks
       /\ f.operations[o].structural \subseteq DOMAIN f.blocks
       /\ f.operations[o].regions \subseteq DOMAIN f.regions

\* An edge passes its target one argument for every forwarded parameter and
\* produces the others, and stays inside its region; an operation has its own
\* operands and the arguments of its edges and no more.
EdgesAreFit(f) ==
  /\ \A o \in DOMAIN f.operations :
       Len(f.operations[o].operands)
         = FirstArgument(f.operations[o], Len(f.operations[o].targets) + 1)
  /\ \A e \in Edges(f) :
       /\ Target(f, e) \in DOMAIN f.blocks
       /\ f.blocks[Source(f, e)].region = f.blocks[Target(f, e)].region
       /\ FitsTarget(f, f.operations[e[1]], e[2], Target(f, e), Len(EdgeArguments(f, e)))

\* Use lists are exact after every editor call, and inside the removal of a
\* block parameter too (value.rs add_use, remove_use, and every method of
\* function.rs that calls them).
UsesExact == UsesAreExact(function)

\* A value is the parameter at that position of that block, or the result of
\* that operation, which its definition says it is.  The removal of a
\* parameter has to move the definitions of those behind it.
DefinitionsExact == DefinitionsAreExact(function)

\* Nothing removed is still listed, nothing listed is removed, and what moves
\* to another block knows that it has.
PlacesExact == PlacesAreExact(function)

\* Nothing of the removal of a block parameter is half done.
IsSettled == removal = NoRemoval

\* The two ends of every edge agree after every editor call, though a call
\* checks no more than the edges it touches, and the removal of a parameter
\* goes from edge to edge before it comes to the parameter.
EdgesFit == IsSettled => EdgesAreFit(function)
=============================================================================
