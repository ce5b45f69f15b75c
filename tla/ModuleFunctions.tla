--------------------------- MODULE ModuleFunctions ---------------------------
(***************************************************************************)
(* The functions a module owns, which of them its entry can still reach,   *)
(* and their removal                                                       *)
(* (crates/evrel-middle/src/js/analysis/module_function_reachability.rs,   *)
(* crates/evrel-js-ir/src/module/module.rs remove_functions).              *)
(*                                                                         *)
(* A module is a record of                                                 *)
(*   entry      the function that runs when the module is evaluated        *)
(*   parent     function -> the set of its lexical parent, {} for entry    *)
(*   creates    function -> the functions its operations refer to, in the  *)
(*              order of the operations (visit_referenced_functions)       *)
(*   names      function -> the bindings its operations, its parameters    *)
(*              and its name refer to                                      *)
(*   declarer   binding -> the function that declares it                   *)
(*   interface  the bindings of the module's imports and exports           *)
(* and a walk over it is the functions reached and those waiting for their *)
(* operations to be looked at.                                             *)
(***************************************************************************)
EXTENDS Naturals, SequencesExt

FunctionsOf(m) == DOMAIN m.parent

\* From a function outwards to the entry.
Lineage(m, f) ==
  LET outwards[g \in FunctionsOf(m)] ==
        <<g>> \o IF m.parent[g] = {} THEN <<>> ELSE outwards[CHOOSE p \in m.parent[g] : TRUE]
  IN  outwards[f]

NothingReached == [reached |-> {}, waiting |-> <<>>]

\* MUTANT: a function is looked at again whenever it is met and does not wait.
RetainAgain(walk, list) ==
  [reached |-> walk.reached \cup ToSet(list),
   waiting |-> walk.waiting \o SelectSeq(list, LAMBDA f : f \notin ToSet(walk.waiting))]

Retain(walk, list) ==
  [reached |-> walk.reached \cup ToSet(list),
   waiting |-> walk.waiting \o SelectSeq(list, LAMBDA f : f \notin walk.reached)]

\* A parent is looked for also when the function has been reached before.
RetainWithParents(m, walk, f) == Retain(walk, Lineage(m, f))

\* MUTANT: what the module declares at its top level is kept with the entry.
StartWithTopLevel(m) ==
  [reached |-> {f \in FunctionsOf(m) : m.parent[f] \subseteq {m.entry}},
   waiting |-> SetToSeq({f \in FunctionsOf(m) : m.parent[f] \subseteq {m.entry}})]

StartWalk(m) == RetainWithParents(m, NothingReached, m.entry)

\* MUTANT: one reference out of a function is followed.
LookAtFirst(m, walk) ==
  LET f == Head(walk.waiting)
      w == [walk EXCEPT !.waiting = Tail(@)]
  IN  IF m.creates[f] = <<>> THEN w ELSE RetainWithParents(m, w, Head(m.creates[f]))

\* The function that waited longest has its operations visited.
LookAtNext(m, walk) ==
  FoldLeft(LAMBDA w, f : RetainWithParents(m, w, f),
           [walk EXCEPT !.waiting = Tail(@)], m.creates[Head(walk.waiting)])

RefersToOwned(m, f) == ToSet(m.creates[f]) \subseteq FunctionsOf(m)

\* The whole walk: no function waits twice, so there is a step for each.
CompleteWalk(m) ==
  LET after[n \in Nat] ==
        IF n = 0 THEN StartWalk(m)
        ELSE IF after[n - 1].waiting = <<>> THEN after[n - 1]
        ELSE LookAtNext(m, after[n - 1])
  IN  after[Cardinality(FunctionsOf(m))]

-----------------------------------------------------------------------------
(* remove_functions                                                        *)

BindingsDeclaredIn(m, F) == {b \in DOMAIN m.declarer : m.declarer[b] \in F}

\* What the editor asserts before it removes anything.
MayRemoveFunctions(m, removed) ==
  LET bindings == BindingsDeclaredIn(m, removed)
  IN  /\ m.entry \notin removed
      /\ removed \subseteq FunctionsOf(m)
      /\ \A f \in FunctionsOf(m) \ removed :
           /\ m.parent[f] \cap removed = {}
           /\ ToSet(m.creates[f]) \cap removed = {}
           /\ m.names[f] \cap bindings = {}
      /\ m.interface \cap bindings = {}

RemoveFunctions(m, removed) ==
  LET left == FunctionsOf(m) \ removed
  IN  [m EXCEPT !.parent   = [f \in left |-> @[f]],
                !.creates  = [f \in left |-> @[f]],
                !.names    = [f \in left |-> @[f]],
                !.declarer = [b \in DOMAIN @ \ BindingsDeclaredIn(m, removed) |-> @[b]]]
=============================================================================
