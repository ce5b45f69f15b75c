-------------------------- MODULE FunctionMeaning --------------------------
(***************************************************************************)
(* What a function does when it runs: the calls it makes, the evaluations  *)
(* that may throw, and how it ends.  This is the reference the passes are  *)
(* held to, written from the documentation of the operations in            *)
(* crates/evrel-js-ir/src/operation/, and not from any pass.               *)
(*                                                                         *)
(* A value at run time is a term: <<c>> for a constant c, <<"result", n>>  *)
(* for what the n-th observable event returned, <<"Not", t>> and so on for *)
(* what is computed from it.  Terms are kept in a normal form, so that     *)
(* x === x and true are the same boolean when x cannot be NaN.  Which way  *)
(* an unknown condition goes, whether an iteration has another element and *)
(* whether an evaluation inside a try throws, is read off an oracle; a run *)
(* ends when the oracle is used up, after MaxEvents events, or after       *)
(* MaxBlocks blocks.                                                       *)
(***************************************************************************)
EXTENDS FunctionValues

CONSTANTS MaxChoices, MaxEvents, MaxBlocks

-----------------------------------------------------------------------------
(* Terms.                                                                  *)

Exact(c)    == <<c>>
IsExact(t)  == Len(t) = 1

RECURSIVE TypesOf(_)

TypesOf(t) ==
  IF IsExact(t) THEN {ConstantType(t[1])}
  ELSE CASE t[1] \in {"Not", "StrictEqual", "LessThan", "IsNullish"} -> {"boolean"}
         [] t[1] = "Plus" -> {"number"}
         [] t[1] = "Incremented" -> TypesOf(t[2])
         [] OTHER -> ValueTypes

IsANumber(t) == TypesOf(t) = {"number"}

Negation(t) ==
  IF IsExact(t) THEN Exact(BooleanConstant(~ IsTruthy(t[1])))
  ELSE IF t[1] = "Not" /\ TypesOf(t[2]) = {"boolean"} THEN t[2]
  ELSE <<"Not", t>>

Equality(s, t) ==
  IF IsExact(s) /\ IsExact(t) THEN Exact(BooleanConstant(StrictlyEqual(s[1], t[1])))
  ELSE IF s = t /\ "number" \notin TypesOf(s) THEN Exact("true")
  ELSE <<"StrictEqual", s, t>>

Comparison(s, t) ==
  IF IsExact(s) /\ IsExact(t) /\ IsANumber(s) /\ IsANumber(t)
  THEN Exact(BooleanConstant(IsLess(s[1], t[1])))
  ELSE IF s = t /\ IsANumber(s) THEN Exact("false")
  ELSE <<"LessThan", s, t>>

Nullishness(t) ==
  IF TypesOf(t) \cap {"undefined", "other"} = {} THEN Exact("false")
  ELSE IF IsExact(t) THEN Exact("true")
  ELSE <<"IsNullish", t>>

Computed(kind, a) ==
  CASE kind = "Not"         -> Negation(a[1])
    [] kind = "Plus"        -> IF IsANumber(a[1]) THEN a[1] ELSE <<"Plus", a[1]>>
    [] kind = "StrictEqual" -> Equality(a[1], a[2])
    [] kind = "LessThan"    -> Comparison(a[1], a[2])
    [] kind = "IsNullish"   -> Nullishness(a[1])

MayThrow(kind, a) == kind \in MayOnlyThrow /\ \E i \in DOMAIN a : ~ IsANumber(a[i])

-----------------------------------------------------------------------------
(* A run: the terms of the values computed so far, the bindings that are   *)
(* initialised, the events, the choices of the oracle still to come and    *)
(* the blocks still allowed; yielded is what was evaluated last, thrown    *)
(* the exception under way, if any, and catching says that exceptions are  *)
(* caught.                                                                 *)

NewRun(parameters, bindings, choices) ==
  [terms |-> parameters, bindings |-> bindings, events |-> <<>>, choices |-> choices,
   blocks |-> MaxBlocks, yielded |-> <<>>, thrown |-> <<>>, catching |-> FALSE, ended |-> FALSE]

Observe(run, event) ==
  [run EXCEPT !.events = Append(@, event), !.ended = @ \/ Len(run.events) + 1 >= MaxEvents]

End(run, event) == [Observe(run, event) EXCEPT !.ended = TRUE]

Throwing(run, t) == [run EXCEPT !.thrown = <<t>>]
Yielding(run, t) == [run EXCEPT !.yielded = <<t>>]

IsStopped(run) == run.ended \/ run.thrown # <<>>

TermOf(run, v) == IF v \in DOMAIN run.terms THEN run.terms[v] ELSE <<"no value", v>>

Terms(run, operands) == [i \in DOMAIN operands |-> TermOf(run, operands[i])]

Updated(g, pairs) ==
  [x \in DOMAIN g \cup {p[1] : p \in pairs} |->
     IF \E p \in pairs : p[1] = x THEN (CHOOSE p \in pairs : p[1] = x)[2] ELSE g[x]]

WithTerms(run, pairs)     == [run EXCEPT !.terms = Updated(@, pairs)]
SetBinding(run, name, t)  == [run EXCEPT !.bindings = Updated(@, {<<name, t>>})]

Result(run)      == <<"result", Len(run.events)>>
Choose(run)      == [run EXCEPT !.choices = Tail(@)]
IsUndecided(run) == run.choices = <<>>
Undecided(run)   == End(run, <<"undecided", <<>>, {}>>)

\* The bindings that code outside the function can see.
Shared(bindings, run) == {n \in DOMAIN run.bindings : n \in DOMAIN bindings /\ bindings[n].visible}

\* They have changed since the last event, and that event has a result.
Changed(shared, run) ==
  [run EXCEPT !.yielded = <<Result(run)>>,
     !.bindings = [n \in DOMAIN @ |-> IF n \in shared THEN <<"written", Result(run), n>> ELSE @[n]]]

\* Inside a try, the last event may have ended in an exception.
MayHaveThrown(run) ==
  IF ~ run.catching \/ run.ended THEN run
  ELSE IF IsUndecided(run) THEN Undecided(run)
  ELSE IF run.choices[1] THEN Choose(run)
  ELSE Throwing(Choose(run), Result(run))

\* Code outside the function runs: it sees the shared bindings and may change
\* them.
RunOutside(bindings, run, kind, terms) ==
  LET shared == Shared(bindings, run)
  IN  MayHaveThrown(Changed(shared,
        Observe(run, <<kind, terms, {<<n, run.bindings[n]>> : n \in shared}>>)))

\* What the code outside is asked for by these does not show in the operands
\* alone.
OutsideKinds == {"Call", "Construct", "Template", "LoadProperty", "StoreProperty", "StoreGlobal"}

EventKind(kind, detail) ==
  CASE kind = "StoreGlobal"            -> kind \o " " \o detail
    [] kind = "Call" /\ detail # ""   -> "CallOn"
    [] OTHER                           -> kind

\* An update yields the number it is given, which may take code outside to find,
\* and the one after it.
Updating(run) == IF IsStopped(run) THEN run ELSE [run EXCEPT !.yielded = @ \o <<<<"Incremented", @[1]>>>>]

ToNumber(bindings, run, t) ==
  IF IsANumber(t) THEN Yielding(run, t) ELSE RunOutside(bindings, run, "Update", <<t>>)

\* The method that is called, and the object it is called on.
FoundMethod(object, run) == IF IsStopped(run) THEN run ELSE [run EXCEPT !.yielded = Append(@, object)]
ReadMethod(bindings, run) ==
  IF IsStopped(run) THEN run
  ELSE FoundMethod(run.yielded[1], RunOutside(bindings, run, "LoadProperty", run.yielded))

\* An operation, after its operands and its regions were evaluated.
Evaluate(bindings, run, kind, detail, terms) ==
  LET Computing(after) == IF IsStopped(after) THEN after ELSE Yielding(after, Computed(kind, terms))
  IN  CASE kind = "Constant"   -> Yielding(run, Exact(detail))
        [] kind = "LoadGlobal" -> Yielding(run, <<"global", detail, Len(run.events)>>)
        [] kind = "CreateFunction" -> Yielding(run, <<"function", detail, Len(run.events)>>)
        [] kind \in {"LoadBinding", "StoreBinding"} /\ detail \notin DOMAIN run.bindings ->
             Throwing(run, <<"ReferenceError", detail>>)
        [] kind = "LoadBinding" -> Yielding(run, run.bindings[detail])
        [] kind \in {"StoreBinding", "InitializeBinding"} -> SetBinding(run, detail, terms[1])
        [] kind = "Update"        -> Updating(ToNumber(bindings, run, terms[1]))
        [] kind \in OutsideKinds -> RunOutside(bindings, run, EventKind(kind, detail), terms)
        [] OTHER -> Computing(IF MayThrow(kind, terms) THEN RunOutside(bindings, run, kind, terms) ELSE run)

\* Whether a condition holds, as <<boolean, run>>.
Decide(run, t) ==
  IF IsExact(t) THEN <<IsTruthy(t[1]), run>> ELSE <<run.choices[1], Choose(run)>>

NeedsOracle(run, t) == ~ IsExact(t) /\ IsUndecided(run)

-----------------------------------------------------------------------------
(* The intermediate representation.                                        *)

\* A function takes the name of the binding it is written to.
DetailOf(f, o) ==
  LET op     == f.operations[o]
      writes == {u[1] : u \in {x \in f.uses[op.results[1]] :
                    ExecutedKind(f.operations[x[1]]) \in {"StoreBinding", "InitializeBinding"}}}
  IN  IF op.kind # "CreateFunction" \/ writes = {} THEN op.detail
      ELSE f.operations[CHOOSE w \in writes : \A x \in writes : w <= x].detail

RECURSIVE RunBlock(_, _, _, _), RunOperations(_, _, _), RunRegions(_, _, _, _), RunCases(_, _, _, _, _)

\* The regions of an operation in their order; terms collects what they yield.
RunRegions(f, regions, terms, run) ==
  IF regions = <<>> \/ IsStopped(run) THEN [run EXCEPT !.yielded = terms]
  ELSE LET inner == RunBlock(f, Entry(f, Head(regions)), <<>>, run)
       IN  RunRegions(f, Tail(regions), terms \o inner.yielded, inner)

Execute(f, o, run) ==
  LET op    == f.operations[o]
      given == [run EXCEPT !.yielded = Terms(run, SubSeq(op.operands, 1, op.own))]
      called == IF op.detail = "Method" THEN ReadMethod(f.bindings, given) ELSE given
      inner == RunRegions(f, InOrder(op.regions), called.yielded, called)
  IN  IF IsStopped(inner) THEN inner
      ELSE Evaluate(f.bindings, inner, ExecutedKind(op), DetailOf(f, o), inner.yielded)

RunOperations(f, operations, run) ==
  IF operations = <<>> \/ IsStopped(run) THEN run
  ELSE LET o     == Head(operations)
           after == Execute(f, o, run)
       IN  RunOperations(f, Tail(operations),
             WithTerms(after, {<<f.operations[o].results[k], after.yielded[k]>> :
                              k \in DOMAIN f.operations[o].results \cap DOMAIN after.yielded}))

\* Control goes to the i-th successor, which is handed the produced terms.
GoTo(f, op, i, produced, run) ==
  RunBlock(f, op.targets[i].block, produced \o Terms(run, Arguments(op, i)), run)

\* An exception that no successor of op takes.
Unwind(f, op, run) ==
  IF run.ended THEN run
  ELSE IF op.unwind # None
  THEN RunBlock(f, op.unwind, run.thrown, [run EXCEPT !.thrown = <<>>, !.catching = FALSE])
  ELSE IF f.blocks[op.block].region # f.body THEN run
  ELSE End(run, <<"Throw", run.thrown, {}>>)

\* The cases of a Switch from the i-th on; d is the discriminant.
RunCases(f, op, i, d, run) ==
  LET default == {k \in DOMAIN op.cases : op.cases[k][1] # "test"}
      tested  == IF op.cases[i][1] = "test" THEN RunRegions(f, <<op.cases[i][2]>>, <<>>, run) ELSE run
      equal   == Equality(d, tested.yielded[1])
      choice  == Decide(tested, equal)
  IN  IF i > Len(op.cases)
      THEN GoTo(f, op, CHOOSE k \in default : TRUE, <<>>, [run EXCEPT !.catching = FALSE])
      ELSE IF op.cases[i][1] # "test" THEN RunCases(f, op, i + 1, d, run)
      ELSE IF IsStopped(tested) THEN Unwind(f, op, tested)
      ELSE IF NeedsOracle(tested, equal) THEN Undecided(tested)
      ELSE IF choice[1] THEN GoTo(f, op, i, <<>>, [choice[2] EXCEPT !.catching = FALSE])
      ELSE RunCases(f, op, i + 1, d, choice[2])

\* The next element of an iteration, or its end.
Iterate(f, op, own, run) ==
  LET next == RunOutside(f.bindings, [run EXCEPT !.catching = op.unwind # None], op.kind, own)
      rest == [next EXCEPT !.catching = FALSE]
  IN  IF IsStopped(next) THEN Unwind(f, op, next)
      ELSE IF IsUndecided(rest) THEN Undecided(rest)
      ELSE IF rest.choices[1] THEN GoTo(f, op, 1, rest.yielded, Choose(rest))
      ELSE GoTo(f, op, 2, <<>>, Choose(rest))

Resume(f, op, completion, run) ==
  LET i == CHOOSE k \in DOMAIN op.cases : op.cases[k] = completion[2]
  IN  GoTo(f, op, i, completion[3], run)

InvokeOperation(f, o, run) ==
  LET op    == f.operations[o]
      after == Execute(f, o, [run EXCEPT !.catching = TRUE])
      rest  == [after EXCEPT !.catching = FALSE]
  IN  IF after.ended THEN after
      ELSE IF after.thrown # <<>> THEN GoTo(f, op, 2, after.thrown, [rest EXCEPT !.thrown = <<>>])
      ELSE GoTo(f, op, 1, SubSeq(rest.yielded, 1, op.targets[1].produced), rest)

Leave(f, o, run) ==
  LET op  == f.operations[o]
      own == Terms(run, SubSeq(op.operands, 1, op.own))
  IN  CASE op.kind = "RegionYield" -> [run EXCEPT !.yielded = own]
        [] op.kind = "Return"      -> End(run, <<"Return", own, {}>>)
        [] op.kind = "Throw" /\ op.targets = <<>> -> Unwind(f, op, Throwing(run, own[1]))
        [] op.kind = "Throw" /\ op.targets # <<>> -> GoTo(f, op, 1, own, run)
        [] op.kind = "Invoke"      -> InvokeOperation(f, o, run)
        [] op.kind \in {"ForIn", "ForOf"} -> Iterate(f, op, own, run)
        [] op.kind = "Switch" ->
             RunCases(f, op, 1, own[1], [run EXCEPT !.catching = @ \/ op.unwind # None])
        [] op.kind = "EnterFinally" ->
             GoTo(f, op, 1, <<<<"completion", op.cases[1], own>>>>, run)
        [] op.kind = "ResumeCompletion" -> Resume(f, op, own[1], run)
        [] op.kind \in ConditionalBranch ->
             IF NeedsOracle(run, own[1]) THEN Undecided(run)
             ELSE LET choice == Decide(run, own[1])
                  IN  GoTo(f, op, IF choice[1] THEN 1 ELSE 2, <<>>, choice[2])
        [] OTHER -> GoTo(f, op, 1, <<>>, run)

RunBlock(f, b, arguments, run) ==
  IF run.ended THEN run
  ELSE IF run.blocks = 0 THEN End(run, <<"goes on", <<>>, {}>>)
  ELSE LET entered == WithTerms([run EXCEPT !.blocks = @ - 1],
                             {<<f.blocks[b].parameters[k].value, arguments[k]>> :
                                k \in DOMAIN f.blocks[b].parameters})
           reached == RunOperations(f, f.blocks[b].contents, entered)
           end     == f.blocks[b].terminator
       IN  IF IsStopped(reached) THEN Unwind(f, [f.operations[end] EXCEPT !.unwind = None], reached)
           ELSE Leave(f, end, reached)

Oracles == [1..MaxChoices -> BOOLEAN]

Parameters(bindings) == {n \in DOMAIN bindings : bindings[n].kind = "Parameter"}

EventsOf(f, choices) ==
  RunBlock(f, Entry(f, f.body), <<>>,
           NewRun([v \in {w \in DOMAIN f.values : f.values[w].kind = "FunctionParameter"} |->
                     <<"parameter", v>>],
                  [n \in Parameters(f.bindings) |-> <<"argument", n>>], choices)).events

Meaning(f) == [choices \in Oracles |-> EventsOf(f, choices)]
=============================================================================
