--------------------------- MODULE FunctionValues ---------------------------
(***************************************************************************)
(* What is known statically about the values of a function                 *)
(* (crates/evrel-middle/src/js/analysis/function_value/ and                *)
(* operation_safety.rs): an abstract value for every SSA value, and the    *)
(* blocks and edges that can execute.                                      *)
(*                                                                         *)
(* The constants are one representative of each kind the transfer rules    *)
(* tell apart; "other" stands for the types that no rule asks for.  Of the *)
(* operators there is one for each way a rule can go: Not (never throws),  *)
(* Plus (a number, throws unless given one), StrictEqual (a boolean, never *)
(* throws) and LessThan (a boolean, throws unless given numbers).          *)
(***************************************************************************)
EXTENDS FunctionIr

Constants  == {"true", "false", "undefined", "zero", "one", "nan"}
Numbers    == {"zero", "one", "nan"}
ValueTypes == {"boolean", "undefined", "number", "other"}
NoConstant == "none"

ConstantType(c) ==
  CASE c \in {"true", "false"} -> "boolean"
    [] c \in Numbers           -> "number"
    [] c = "undefined"         -> "undefined"

IsTruthy(c)         == c \in {"true", "one"}
BooleanConstant(b)  == IF b THEN "true" ELSE "false"
StrictlyEqual(c, d) == c = d /\ c # "nan"
IsLess(c, d)        == <<c, d>> = <<"zero", "one">>

-----------------------------------------------------------------------------
(* Abstract values.                                                        *)

Bottom     == [types |-> {}, constant |-> NoConstant]
Unknown    == [types |-> ValueTypes, constant |-> NoConstant]
OfTypes(T) == [types |-> T, constant |-> NoConstant]
Exactly(c) == [types |-> {ConstantType(c)}, constant |-> c]

AbstractValue == {OfTypes(T) : T \in SUBSET ValueTypes} \cup {Exactly(c) : c \in Constants}

IsBottom(a)        == a.types = {}
IsConstant(a)      == a.constant # NoConstant
IsDefinitely(a, T) == a.types # {} /\ a.types \subseteq T

Join(a, b) ==
  IF IsBottom(a) THEN b ELSE IF IsBottom(b) THEN a
  ELSE [types |-> a.types \cup b.types,
        constant |-> IF a.constant = b.constant THEN a.constant ELSE NoConstant]

JoinAll(S) == FoldSet(Join, Bottom, S)

\* The value of a result, from the values of the operands.
EvaluateResult(op, operands) ==
  LET a == operands[1]
      b == operands[2]
  IN  IF \E i \in DOMAIN operands : IsBottom(operands[i]) THEN Bottom
      ELSE CASE op.kind = "Constant" -> Exactly(op.detail)
             [] op.kind = "Not" ->
                  IF IsConstant(a) THEN Exactly(BooleanConstant(~ IsTruthy(a.constant)))
                                   ELSE OfTypes({"boolean"})
             [] op.kind = "Plus" ->
                  IF a.constant \in Numbers THEN a ELSE OfTypes({"number"})
             [] op.kind = "StrictEqual" ->
                  IF IsConstant(a) /\ IsConstant(b)
                  THEN Exactly(BooleanConstant(StrictlyEqual(a.constant, b.constant)))
                  ELSE OfTypes({"boolean"})
             [] op.kind = "LessThan" ->
                  IF {a.constant, b.constant} \subseteq Numbers
                  THEN Exactly(BooleanConstant(IsLess(a.constant, b.constant)))
                  ELSE OfTypes({"boolean"})
             [] op.kind = "IsNullish" ->
                  IF IsConstant(a) THEN Exactly(BooleanConstant(a.constant = "undefined"))
                  ELSE IF a.types \subseteq {"undefined"} THEN Exactly("true")
                  ELSE IF a.types \cap {"undefined", "other"} = {} THEN Exactly("false")
                  ELSE OfTypes({"boolean"})
             [] OTHER -> Unknown

-----------------------------------------------------------------------------
(* What follows from the facts.  An analysis is a record of                *)
(*   values: value -> abstract value,  blocks and edges: what can execute. *)

ConditionalBranch == {"If", "While", "DoWhile"}

\* How many operands of an operation the rules look at.
Arity(kind) ==
  IF kind \in {"StrictEqual", "LessThan"} THEN 2
  ELSE IF kind \in {"Not", "Plus", "IsNullish"} \cup ConditionalBranch THEN 1 ELSE 0

\* What computes one value from its operands and does nothing else.
Operators == {"Not", "Plus", "StrictEqual", "LessThan", "IsNullish"}

\* What the analysis relies on: arenas are finite, a region has an entry and is
\* younger than the one around it, a block lists an operation once, and an
\* operation has the operands, the constant, the results and the successors of
\* its kind.
IsAnalysable(f) ==
  /\ (DOMAIN f.blocks) \cup (DOMAIN f.operations) \subseteq Nat \ {None}
  /\ DOMAIN f.regions \subseteq Nat
  /\ IsFiniteSet(DOMAIN f.values)
  /\ \A r \in DOMAIN f.regions : f.regions[r] # <<>>
  /\ \A b \in DOMAIN f.blocks : IsInjective(f.blocks[b].contents)
  /\ \A o \in DOMAIN f.operations :
       LET op == f.operations[o]
       IN  /\ {"own", "detail"} \subseteq DOMAIN op
           /\ Arity(op.kind) <= op.own
           /\ op.kind \in Operators => op.own = Arity(op.kind) /\ Len(op.results) = 1
           /\ op.kind = "Constant" => op.detail \in Constants
           /\ op.kind \in ConditionalBranch => Len(op.targets) = 2
           /\ op.kind = "Jump" => Len(op.targets) = 1
           /\ op.results \in Seq(DOMAIN f.values)
           /\ IsTerminator(f, o) => op.results = <<>>
           /\ \A r \in op.regions : f.blocks[op.block].region < r

\* The successors a terminator can take, from what is known of its condition.
ExecutableSuccessors(f, a, o) ==
  LET op        == f.operations[o]
      condition == a.values[op.operands[1]]
  IN  IF op.kind \notin ConditionalBranch THEN DOMAIN op.targets
      ELSE IF IsBottom(condition)   THEN {}
      ELSE IF IsConstant(condition) THEN {IF IsTruthy(condition.constant) THEN 1 ELSE 2}
      ELSE DOMAIN op.targets

\* What an edge hands to the k-th parameter of its target.
Incoming(f, a, e, k) ==
  IF k <= ProducedCount(f, e) THEN Unknown
  ELSE a.values[EdgeArguments(f, e)[k - ProducedCount(f, e)]]

ResultFact(f, a, o) ==
  EvaluateResult(f.operations[o],
                 [i \in DOMAIN f.operations[o].operands |-> a.values[f.operations[o].operands[i]]])

\* The successors of o that the analysis found executable.
ExecutableOf(f, a, o) ==
  {i \in DOMAIN f.operations[o].targets : <<o, i>> \in a.edges}

-----------------------------------------------------------------------------
(* Which operations may be dropped or replaced.                            *)

EffectFree  == {"Constant", "Not", "StrictEqual", "IsNullish", "CreateFunction"}
MayOnlyThrow == {"Plus", "LessThan"}

IsSafeToRemove(f, a, o) ==
  \/ f.operations[o].kind \in EffectFree
  \/ /\ f.operations[o].kind \in MayOnlyThrow
     /\ \A i \in DOMAIN f.operations[o].operands :
          IsDefinitely(a.values[f.operations[o].operands[i]], {"number"})
=============================================================================
