---------------------------- MODULE DominatorTree ----------------------------
(***************************************************************************)
(* Dominators and dominance frontiers of one region                        *)
(* (crates/evrel-middle/src/js/analysis/control_flow/region.rs,            *)
(* dominator_tree.rs and dominance_frontier.rs): the iterative algorithm   *)
(* over the blocks in reverse postorder, and the climb from the two sides  *)
(* of every join.  FunctionIr!Dominates says what they have to compute.    *)
(***************************************************************************)
EXTENDS FunctionIr

-----------------------------------------------------------------------------
(* The control flow graph.                                                 *)

Successors(f, b) ==
  LET end == f.blocks[b].terminator
  IN  IF end = None THEN <<>>
      ELSE [i \in DOMAIN f.operations[end].targets |-> f.operations[end].targets[i].block]

\* Depth first from the stack of <<block, next successor>>.
RECURSIVE Visit(_, _, _, _)
Visit(f, stack, reached, postorder) ==
  IF stack = <<>> THEN postorder
  ELSE LET top  == Last(stack)
           next == Successors(f, top[1])
           rest == Append(Front(stack), <<top[1], top[2] + 1>>)
       IN  IF top[2] > Len(next) THEN Visit(f, Front(stack), reached, Append(postorder, top[1]))
           ELSE IF next[top[2]] \in reached THEN Visit(f, rest, reached, postorder)
           ELSE Visit(f, Append(rest, <<next[top[2]], 1>>), reached \cup {next[top[2]]}, postorder)

ReversePostorder(f, r) == Reverse(Visit(f, <<<<Entry(f, r), 1>>>>, {Entry(f, r)}, <<>>))

\* The sources of the edges into b, in the order of the edges.
Predecessors(f, r, b) ==
  FlattenSeq([k \in DOMAIN f.regions[r] |->
    LET source == f.regions[r][k]
        into   == SelectSeq(Successors(f, source), LAMBDA t : t = b)
    IN  [i \in DOMAIN into |-> source]])

\* The graph of a region: its entry, the order and the reachable predecessors.
RegionGraph(f, r) ==
  LET order     == ReversePostorder(f, r)
      reachable == ToSet(order)
  IN  [region |-> r, entry |-> Entry(f, r), order |-> order, reachable |-> reachable,
       predecessors |-> [b \in reachable |->
                           SelectSeq(Predecessors(f, r, b), LAMBDA p : p \in reachable)]]

-----------------------------------------------------------------------------
(* The dominator tree.                                                     *)

RECURSIVE Intersect(_, _, _, _), Settle(_, _)

\* Up from two blocks, the later one first, until they meet.
Intersect(tree, place, a, b) ==
  IF a = b THEN a
  ELSE IF place[a] > place[b] THEN Intersect(tree, place, tree[a], b)
  ELSE Intersect(tree, place, a, tree[b])

\* One round over the blocks: tree has the immediate dominators known so far,
\* the entry its own.
Improved(graph, tree) ==
  LET place == [b \in graph.reachable |-> CHOOSE i \in DOMAIN graph.order : graph.order[i] = b]
      Better(known, b) ==
        LET from == SelectSeq(graph.predecessors[b], LAMBDA p : p \in DOMAIN known)
            meet == FoldLeft(LAMBDA d, p : Intersect(known, place, p, d), Head(from), Tail(from))
        IN  IF from = <<>> THEN known ELSE (b :> meet) @@ known
  IN  FoldLeft(Better, tree, Tail(graph.order))

Settle(graph, tree) ==
  LET next == Improved(graph, tree) IN IF next = tree THEN tree ELSE Settle(graph, next)

ImmediateDominators(graph) == Settle(graph, graph.entry :> graph.entry)

ChildrenOf(graph, tree, b) ==
  SelectSeq(graph.order, LAMBDA c : c # graph.entry /\ tree[c] = b)

RECURSIVE IsAbove(_, _, _)
IsAbove(tree, a, b) == a = b \/ (tree[b] # b /\ IsAbove(tree, a, tree[b]))

-----------------------------------------------------------------------------
(* Dominance frontiers.                                                    *)

RECURSIVE ClimbTo(_, _, _, _, _), Spread(_, _, _, _)

\* MUTANT: a join is no part of the frontier of the block that ends in it.
ClimbPastEnd(frontiers, tree, runner, stop, join) ==
  IF runner = stop THEN frontiers ELSE ClimbTo(frontiers, tree, tree[runner], stop, join)

\* join is in the frontier of every block from runner up to stop.
ClimbTo(frontiers, tree, runner, stop, join) ==
  IF runner = stop THEN frontiers
  ELSE LET known == frontiers[runner]
           added == IF join \in ToSet(known) THEN known ELSE Append(known, join)
       IN  ClimbTo([frontiers EXCEPT ![runner] = added], tree, tree[runner], stop, join)

Frontiers(graph, tree) ==
  LET Joining(frontiers, b) ==
        IF Len(graph.predecessors[b]) < 2 THEN frontiers
        ELSE FoldLeft(LAMBDA known, p : ClimbTo(known, tree, p, tree[b], b),
                      frontiers, graph.predecessors[b])
  IN  FoldLeft(Joining, [b \in graph.reachable |-> <<>>], graph.order)

\* The blocks where definitions in the given blocks meet, in the order found.
Spread(frontiers, definitions, queue, merges) ==
  IF queue = <<>> THEN merges
  ELSE LET new == SelectSeq(frontiers[Head(queue)], LAMBDA b : b \notin ToSet(merges))
       IN  Spread(frontiers, definitions,
                  Tail(queue) \o SelectSeq(new, LAMBDA b : b \notin definitions),
                  merges \o new)

IteratedFrontier(frontiers, definitions) ==
  Spread(frontiers, ToSet(definitions), definitions, <<>>)
=============================================================================
