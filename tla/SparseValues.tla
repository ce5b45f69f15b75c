---------------------------- MODULE SparseValues ----------------------------
(***************************************************************************)
(* The solver behind the value analysis                                    *)
(* (crates/evrel-middle/src/js/analysis/function_value/sparse.rs): a queue *)
(* of blocks that were found executable and wait to be scanned as a whole, *)
(* and a queue of operations of scanned blocks whose operands have changed *)
(* since.  A fact only grows: what comes in is joined to it.               *)
(*                                                                         *)
(* The state s of the solver is the analysis so far and                    *)
(*   visited   the blocks that have been scanned,                          *)
(*   scanning  the block that is being scanned, or None,                   *)
(*   blockWork, operationWork   the queues,                                *)
(*   order     how the users of a value and the entries of the regions are *)
(*             listed: the code takes them as they come from use lists and *)
(*             from a hash map.                                            *)
(***************************************************************************)
EXTENDS FunctionValues, WorkQueue

Orders == {"ascending", "descending"}

Listed(order, S) == IF order = "ascending" THEN InOrder(S) ELSE Reverse(InOrder(S))

SolverStates(f) ==
  [values: [DOMAIN f.values -> AbstractValue], blocks: SUBSET DOMAIN f.blocks, edges: SUBSET Edges(f),
   visited: SUBSET DOMAIN f.blocks, scanning: DOMAIN f.blocks \cup {None},
   blockWork: Seq(DOMAIN f.blocks), operationWork: Seq(DOMAIN f.operations), order: Orders]

-----------------------------------------------------------------------------
(* What a visit finds out.                                                 *)

MarkBlockExecutable(s, b) ==
  IF b \in s.blocks THEN s
  ELSE [s EXCEPT !.blocks = @ \cup {b}, !.blockWork = Append(@, b)]

\* Users in the block that is being scanned come later in the scan, and those in
\* a block that was not scanned yet come with its scan.
ScheduleOperations(f, s, users) ==
  LET due == {o \in users : f.operations[o].block \in s.visited \ {s.scanning}}
  IN  [s EXCEPT !.operationWork = @ \o Listed(s.order, due \ ToSet(@))]

UpdateValue(f, s, v, incoming) ==
  LET next == Join(s.values[v], incoming)
  IN  IF next = s.values[v] THEN s
      ELSE ScheduleOperations(f, [s EXCEPT !.values[v] = next], {use[1] : use \in f.uses[v]})

\* All parameters are computed before the first of them is updated.
RecomputeBlockParameters(f, s, b) ==
  LET parameters == f.blocks[b].parameters
      incoming   == [k \in DOMAIN parameters |->
                       JoinAll({Incoming(f, s, e, k) : e \in IncomingEdges(f, b) \cap s.edges})]
      Update(t, k) == UpdateValue(f, t, parameters[k].value, incoming[k])
  IN  FoldLeft(Update, s, [k \in DOMAIN parameters |-> k])

MarkEdgeExecutable(f, s, e) ==
  RecomputeBlockParameters(f, MarkBlockExecutable([s EXCEPT !.edges = @ \cup {e}], Target(f, e)),
                           Target(f, e))

-----------------------------------------------------------------------------
(* Visits.                                                                 *)

VisitValueOperation(f, s, o) ==
  LET Update(t, v) == UpdateValue(f, t, v, ResultFact(f, s, o))
  IN  FoldLeft(Update, s, f.operations[o].results)

VisitTerminator(f, s, o) ==
  LET Mark(t, i) == MarkEdgeExecutable(f, t, <<o, i>>)
  IN  FoldLeft(Mark, s, InOrder(ExecutableSuccessors(f, s, o)))

\* The operations of the block in turn, and then its terminator.
VisitBlock(f, s, b) ==
  LET Visit(t, o) == VisitValueOperation(f, t, o)
      scanned     == FoldLeft(Visit, [s EXCEPT !.visited = @ \cup {b}, !.scanning = b],
                              f.blocks[b].contents)
      o           == f.blocks[b].terminator
  IN  IF o = None THEN [scanned EXCEPT !.scanning = None]
      ELSE VisitTerminator(f, [scanned EXCEPT !.scanning = None], o)

\* MUTANT: an operation is visited for its results only.
VisitForResults(f, s, o) == VisitValueOperation(f, s, o)

VisitScheduledOperation(f, s, o) ==
  IF f.blocks[f.operations[o].block].terminator = o
  THEN VisitTerminator(f, s, o) ELSE VisitValueOperation(f, s, o)

-----------------------------------------------------------------------------
(* The analysis.                                                           *)

\* What comes into the function and into its regions from outside is unknown,
\* and the entry of every region executes.
BoundaryValues(f) ==
  {v \in DOMAIN f.values : f.values[v].kind = "FunctionParameter"}
  \cup UNION {ParameterValues(f, Entry(f, r)) : r \in DOMAIN f.regions}

InitializeBoundaries(f, order) ==
  LET entries == {Entry(f, r) : r \in DOMAIN f.regions}
  IN  [values  |-> [v \in DOMAIN f.values |-> IF v \in BoundaryValues(f) THEN Unknown ELSE Bottom],
       blocks  |-> entries, edges |-> {}, visited |-> {}, scanning |-> None,
       blockWork |-> Listed(order, entries), operationWork |-> <<>>, order |-> order]

\* Operations go before blocks.
TakeWork(f, s) ==
  IF ~ IsEmpty(s.operationWork)
  THEN VisitScheduledOperation(f, [s EXCEPT !.operationWork = Tail(@)], Head(s.operationWork))
  ELSE VisitBlock(f, [s EXCEPT !.blockWork = Tail(@)], Head(s.blockWork))

Solve(f, order) ==
  LET solved[s \in SolverStates(f)] ==
        IF IsEmpty(s.operationWork) /\ IsEmpty(s.blockWork) THEN s ELSE solved[TakeWork(f, s)]
      final == solved[InitializeBoundaries(f, order)]
  IN  [values |-> final.values, blocks |-> final.blocks, edges |-> final.edges]

-----------------------------------------------------------------------------
(* The equations between the facts that the value analysis finds out.      *)

\* The block that defines v.
DefiningBlock(f, v) ==
  IF f.values[v].kind = "BlockParameter" THEN f.values[v].block
  ELSE f.operations[f.values[v].operation].block

Analyses(f) ==
  [values: [DOMAIN f.values -> AbstractValue], blocks: SUBSET DOMAIN f.blocks, edges: SUBSET Edges(f)]

ParameterFact(f, a, b, k) ==
  Join(IF b = Entry(f, f.blocks[b].region) THEN Unknown ELSE Bottom,
       JoinAll({Incoming(f, a, e, k) : e \in IncomingEdges(f, b) \cap a.edges}))

ValueFact(f, a, v) ==
  LET d == f.values[v]
      b == IF d.kind = "FunctionParameter" THEN None ELSE DefiningBlock(f, v)
  IN  IF d.kind = "FunctionParameter" THEN Unknown
      ELSE IF b \notin a.blocks THEN Bottom
      ELSE IF d.kind = "BlockParameter" THEN ParameterFact(f, a, b, d.index)
      ELSE ResultFact(f, a, d.operation)

\* One application of all equations: every region is entered, an edge of a
\* block that executes leads to a block that executes, and values follow.
Consequences(f, a) ==
  [blocks |-> {Entry(f, r) : r \in DOMAIN f.regions} \cup {Target(f, e) : e \in a.edges},
   edges  |-> UNION {{o} \X ExecutableSuccessors(f, a, o) :
                       o \in {f.blocks[b].terminator : b \in a.blocks} \ {None}},
   values |-> [v \in DOMAIN f.values |-> ValueFact(f, a, v)]]

LeastFacts(f) ==
  LET solution[a \in Analyses(f)] ==
        LET b == Consequences(f, a) IN IF a = b THEN a ELSE solution[b]
  IN  solution[[values |-> [v \in DOMAIN f.values |-> Bottom], blocks |-> {}, edges |-> {}]]
=============================================================================
