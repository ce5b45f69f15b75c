----------------------------- MODULE FunctionIr -----------------------------
(***************************************************************************)
(* The intermediate representation of one function                         *)
(* (crates/evrel-js-ir/src/function/function.rs, block.rs, value.rs,       *)
(* region.rs and operation/): regions of blocks, blocks of operations,     *)
(* values in SSA form that a block receives as parameters, and for every   *)
(* value the list of the operands that read it.                            *)
(*                                                                         *)
(* A function is a record of finite functions, one for each arena:         *)
(*   regions     region    -> its blocks in layout order, the entry first  *)
(*   blocks      block     -> [region, parameters, contents, terminator]   *)
(*   operations  operation -> [block, kind, inner, detail, own, operands,  *)
(*                             targets, cases, structural, regions, unwind,*)
(*                             results]                                    *)
(*   values      value     -> its definition                               *)
(*   uses        value     -> the set of <<operation, operand>> reading it *)
(* and the sets body (the root region), roots (the regions of default      *)
(* parameters), handlers and labels (the blocks named by exception         *)
(* handlers and labelled statements), statements (the labelled statements  *)
(* with their blocks and label), and bindings, which says of every binding *)
(* the function declares how, whether another function refers to it, and   *)
(* whether a direct eval may.  entry says that it is the body of a module. *)
(* Identities are positive numbers in the order of allocation, and         *)
(* positions count from 1.                                                 *)
(*                                                                         *)
(* An operation keeps the operands of its own first and then, target after *)
(* target, the arguments it forwards; targets[i] says how many.  detail is *)
(* the constant, the operator, the name of a binding or property, or how a *)
(* call is made (plain, as a Method, on a Receiver); locations, types      *)
(* of compiler-only values and the fields of kinds that no pass looks at   *)
(* are left out.  inner is the kind of the operation that an Invoke        *)
(* executes.  cases says what the successors of a Switch, an EnterFinally  *)
(* or a ResumeCompletion, or the blocks of a For or a Try, are for.        *)
(* unwind is no field of the code: it is the handler that encloses a       *)
(* terminator which may throw and yet has no exceptional successor, for    *)
(* FunctionMeaning to know.                                                *)
(***************************************************************************)
EXTENDS Naturals, SequencesExt

None == 0      \* the terminator of a block that has none

Forwarded == "Forwarded"
Produced  == "Produced"
Exception == "Exception"

\* The kinds that end a block, among those modelled.
Terminators ==
  {"Jump", "If", "While", "DoWhile", "For", "ForIn", "ForOf", "Switch", "Try", "Invoke",
   "EnterFinally", "ResumeCompletion", "Throw", "Return", "RegionYield"}
Loops       == {"While", "DoWhile", "For", "ForIn", "ForOf"}

\* Identities in the order of allocation, which is the order of an arena.
InOrder(S) == [i \in 1..Cardinality(S) |-> CHOOSE x \in S : Cardinality({y \in S : y <= x}) = i]

\* The kind of operation that is executed.
ExecutedKind(op) == IF op.kind = "Invoke" THEN op.inner ELSE op.kind

IsTerminator(f, o) == f.operations[o].kind \in Terminators

-----------------------------------------------------------------------------
(* Operands, successors and edges.                                         *)

\* How many operands precede the arguments of the i-th successor.
FirstArgument(op, i) ==
  LET before[k \in 0..Len(op.targets)] ==
        IF k = 0 THEN op.own ELSE before[k - 1] + op.targets[k].count
  IN  before[i - 1]

ArgumentRange(op, i) == (FirstArgument(op, i) + 1)..(FirstArgument(op, i) + op.targets[i].count)

Arguments(op, i) ==
  SubSeq(op.operands, FirstArgument(op, i) + 1, FirstArgument(op, i) + op.targets[i].count)

\* Where the values come from that the operation itself hands to a successor.
ProducedSource(op, i) ==
  IF (op.kind = "Invoke" /\ i = 2) \/ op.kind = "Throw" THEN Exception ELSE Produced

\* The edges of the function, as <<terminator, position of the successor>>.
EdgesOf(f, o) == {o} \X DOMAIN f.operations[o].targets
Edges(f) == UNION {EdgesOf(f, o) : o \in DOMAIN f.operations}

Target(f, e) == f.operations[e[1]].targets[e[2]].block
Source(f, e) == f.operations[e[1]].block

IncomingEdges(f, b) == {e \in Edges(f) : Target(f, e) = b}
OutgoingEdges(f, b) == {e \in Edges(f) : Source(f, e) = b}

EdgesInOrder(E) ==
  FlattenSeq([k \in 1..Cardinality({e[1] : e \in E}) |->
    LET o == InOrder({e[1] : e \in E})[k]
        positions == InOrder({e[2] : e \in {x \in E : x[1] = o}})
    IN  [i \in DOMAIN positions |-> <<o, positions[i]>>]])

EdgeArguments(f, e) == Arguments(f.operations[e[1]], e[2])
ProducedCount(f, e) == f.operations[e[1]].targets[e[2]].produced

-----------------------------------------------------------------------------
(* Blocks, regions and the values they define.                             *)

Entry(f, r) == Head(f.regions[r])

BlockOperations(f, b) ==
  ToSet(f.blocks[b].contents) \cup ({f.blocks[b].terminator} \ {None})

OperationsOf(f, B) == UNION {BlockOperations(f, b) : b \in B}
RegionsOf(f, O)    == UNION {f.operations[o].regions : o \in O}

ParameterValues(f, b) == {f.blocks[b].parameters[i].value : i \in DOMAIN f.blocks[b].parameters}
ResultValues(f, O)    == UNION {ToSet(f.operations[o].results) : o \in O}

AllForwarded(f, b) ==
  \A i \in DOMAIN f.blocks[b].parameters : f.blocks[b].parameters[i].source = Forwarded

\* The position of the index-th forwarded parameter among all parameters.
ForwardedPositions(f, b) ==
  {k \in DOMAIN f.blocks[b].parameters : f.blocks[b].parameters[k].source = Forwarded}

HasForwarded(f, b, index) == index \in 1..Cardinality(ForwardedPositions(f, b))

ForwardedPosition(f, b, index) ==
  CHOOSE k \in ForwardedPositions(f, b) :
    Cardinality({j \in ForwardedPositions(f, b) : j <= k}) = index

\* The blocks whose identity is part of a loop.
LoopBlocks(op) ==
  IF op.kind \in Loops
  THEN op.structural \cup {op.block} \cup {op.targets[i].block : i \in DOMAIN op.targets}
  ELSE {}

\* MUTANT: the blocks that structured operations name are forgotten.
RoleWithoutStructure(f, b) ==
  \/ b = Entry(f, f.blocks[b].region)
  \/ b \in f.handlers \cup f.labels
  \/ \E o \in DOMAIN f.operations : b \in LoopBlocks(f.operations[o])

\* A block with such a role cannot be merged away or jumped over.
HasBoundaryRole(f, b) ==
  \/ b = Entry(f, f.blocks[b].region)
  \/ b \in f.handlers \cup f.labels
  \/ \E o \in DOMAIN f.operations : b \in LoopBlocks(f.operations[o]) \cup f.operations[o].structural

-----------------------------------------------------------------------------
(* What executes: reachability and dominance over edges.                   *)

\* The blocks of a region that its entry reaches without passing through any
\* block of Avoided.
ReachableAvoiding(f, r, Avoided) ==
  LET grow[n \in 0..Len(f.regions[r])] ==
        IF n = 0 THEN {Entry(f, r)} \ Avoided
        ELSE LET B == grow[n - 1]
             IN  (B \cup {Target(f, e) : e \in {x \in Edges(f) : Source(f, x) \in B}}) \ Avoided
  IN  grow[Len(f.regions[r])]

Reachable(f, r) == ReachableAvoiding(f, r, {})

Dominates(f, a, b) ==
  LET r == f.blocks[b].region
  IN  /\ f.blocks[a].region = r
      /\ b \in Reachable(f, r)
      /\ b \notin ReachableAvoiding(f, r, {a})
=============================================================================
