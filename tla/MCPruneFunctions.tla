-------------------------- MODULE MCPruneFunctions --------------------------
(***************************************************************************)
(* The modules on which function pruning is model checked: the entry and   *)
(* three functions, nested in every way, each referring to any of the      *)
(* nested ones but itself in any order.  The frontend lets the parent      *)
(* create a function; tests of the analysis refer to one from elsewhere.   *)
(* Every function declares one binding, which carries its name, and refers *)
(* to every binding in scope; the module exports that of its entry.        *)
(***************************************************************************)
EXTENDS PruneFunctions

Entry  == 1
Nested == 2..4

References(f) == SetToAllKPermutations(Nested \ {f})

Nestings ==
  {parent \in [{Entry} \cup Nested -> SUBSET (1..3)] :
     /\ parent[Entry] = {}
     /\ \A f \in Nested : \E p \in 1..(f - 1) : parent[f] = {p}}

Unnamed(parent, creates) ==
  [entry |-> Entry, parent |-> parent, creates |-> creates, interface |-> {Entry},
   declarer |-> [b \in {Entry} \cup Nested |-> b]]

Named(m) ==
  [entry |-> m.entry, parent |-> m.parent, creates |-> m.creates, interface |-> m.interface,
   declarer |-> m.declarer, names |-> [f \in FunctionsOf(m) |-> ToSet(Lineage(m, f))]]

MCModules ==
  {Named(Unnamed(parent, <<a, b, c, d>>)) :
     parent \in Nestings, a \in References(Entry), b \in References(2), c \in References(3),
     d \in References(4)}
=============================================================================
