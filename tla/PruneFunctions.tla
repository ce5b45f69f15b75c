--------------------------- MODULE PruneFunctions ---------------------------
(***************************************************************************)
(* Functions that can no longer be created leave their module              *)
(* (crates/evrel-middle/src/js/transform/prune_unreachable_functions.rs):  *)
(* once the passes have removed operations, the functions that are left    *)
(* without anything that refers to them go, with the bindings they         *)
(* declare.  The walk and the removal are those of ModuleFunctions, here   *)
(* one function a step.                                                    *)
(***************************************************************************)
EXTENDS ModuleFunctions

CONSTANT Modules   \* the modules that may be pruned

\* Scopes nest in the entry, and a function names what its scope offers.
IsScoped(m) ==
  /\ \A f \in FunctionsOf(m) : m.parent[f] = {} <=> f = m.entry
  /\ \A f \in FunctionsOf(m) : m.entry \in ToSet(Lineage(m, f))
  /\ \A f \in FunctionsOf(m) : /\ RefersToOwned(m, f)
                               /\ \A b \in m.names[f] : m.declarer[b] \in ToSet(Lineage(m, f))
  /\ \A b \in m.interface : m.declarer[b] = m.entry

ASSUME ModulesAreScoped == \A m \in Modules : IsScoped(m)

VARIABLES
  module,     \* the module being pruned
  original,   \* as it was
  walk,       \* the functions reached and waiting
  phase,      \* what happens next
  panicked    \* an assertion has failed

vars == <<module, original, walk, phase, panicked>>

-----------------------------------------------------------------------------
Init ==
  /\ module \in Modules /\ original = module
  /\ walk = NothingReached /\ phase = "start" /\ panicked = FALSE

Start ==
  /\ phase = "start"
  /\ walk' = StartWalk(module) /\ phase' = "walk"
  /\ UNCHANGED <<module, original, panicked>>

LookAtFunction ==
  /\ phase = "walk" /\ ~ panicked /\ walk.waiting # <<>>
  /\ IF RefersToOwned(module, Head(walk.waiting))
     THEN walk' = LookAtNext(module, walk) /\ UNCHANGED panicked
     ELSE panicked' = TRUE /\ UNCHANGED walk
  /\ UNCHANGED <<module, original, phase>>

Unreachable == FunctionsOf(module) \ walk.reached

\* The editor is not called when there is nothing to remove.
Prune ==
  /\ phase = "walk" /\ ~ panicked /\ walk.waiting = <<>>
  /\ IF Unreachable = {} THEN UNCHANGED <<module, panicked>>
     ELSE IF MayRemoveFunctions(module, Unreachable)
     THEN module' = RemoveFunctions(module, Unreachable) /\ UNCHANGED panicked
     ELSE panicked' = TRUE /\ UNCHANGED module
  /\ phase' = "done"
  /\ UNCHANGED <<original, walk>>

Finished == (phase = "done" \/ panicked) /\ UNCHANGED vars

Next == Start \/ LookAtFunction \/ Prune \/ Finished

\* The code is sequential: it goes on until it returns.
Spec == Init /\ [][Next]_vars /\ WF_vars(Next)

-----------------------------------------------------------------------------
\* The least set with the entry that holds with a function its parent and
\* whatever its operations refer to, with no order and no worklist.
NeededFunctions(m) ==
  LET Keeps(F) == /\ m.entry \in F
                  /\ \A f \in F : m.parent[f] \cup ToSet(m.creates[f]) \subseteq F
  IN  {f \in FunctionsOf(m) : \A F \in SUBSET FunctionsOf(m) : Keeps(F) => f \in F}

\* No assertion of the analysis or of the module editor fails, whatever the
\* passes have removed: what is left names no function and no binding of a
\* scope that goes, although a function may be referred to from outside its
\* parent and then outlives everything else that refers to that parent.
NoPanic == ~ panicked

\* The functions that remain are those the entry needs, and the bindings those
\* that such functions declare: none is lost, none is kept for nothing, cycles
\* of functions that only refer to each other included.
OnlyNeededRemain ==
  phase = "done" =>
    /\ FunctionsOf(module) = NeededFunctions(original)
    /\ DOMAIN module.declarer = BindingsDeclaredIn(original, NeededFunctions(original))

\* Pruning ends, also when functions refer to each other in a cycle.
Ends == <>(phase = "done")
=============================================================================
