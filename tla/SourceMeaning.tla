---------------------------- MODULE SourceMeaning ----------------------------
(***************************************************************************)
(* What a text does when it runs, by the rules of the language and not by  *)
(* any code of the compiler: the reference that lowering and printing are  *)
(* held to.  Events and terms are those of FunctionMeaning.                *)
(*                                                                         *)
(* A run also has leaving: how the statement just executed completed, if   *)
(* not normally and not by an exception, as <<"Return", t>>,               *)
(* <<"Break", label>> or <<"Continue", label>>.                            *)
(***************************************************************************)
EXTENDS FunctionMeaning, Syntax

\* The run goes no further in the statements that follow.
IsLeaving(run) == IsStopped(run) \/ run.leaving # <<>>

\* The run after the value just evaluated was found to hold, or not to hold.
Tested(run) ==
  IF IsStopped(run) THEN run
  ELSE IF NeedsOracle(run, run.yielded[1]) THEN Undecided(run)
  ELSE LET choice == Decide(run, run.yielded[1])
       IN  Yielding(choice[2], Exact(BooleanConstant(choice[1])))

Holds(tested) == tested.yielded[1] = Exact("true")

-----------------------------------------------------------------------------
(* Expressions.                                                            *)

RECURSIVE Eval(_, _, _, _), EvalAll(_, _, _, _)

\* From left to right; terms collects what they evaluate to.
EvalAll(B, list, terms, run) ==
  LET Rest(one) == EvalAll(B, Tail(list), terms \o one.yielded, one)
  IN  IF list = <<>> \/ IsStopped(run) THEN [run EXCEPT !.yielded = terms]
      ELSE Rest(Eval(B, Head(list), "", run))

\* What an operation is given; what it is and what it is about.
Given(e) ==
  CASE e.node \in {"Operator", "FirstOf"} -> e.operands
    [] e.node = "New"      -> <<e.callee>> \o e.arguments
    [] e.node = "CallOn"   -> <<e.callee, e.receiver>> \o e.arguments
    [] e.node = "Template" -> <<e.substitution>>
    [] OTHER               -> <<>>

KindOf(B, e) ==
  CASE e.node = "Operator"           -> e.kind
    [] e.node = "New"                -> "Construct"
    [] e.node = "CallOn"             -> "Call"
    [] e.node = "FunctionExpression" -> "CreateFunction"
    [] e.node = "Identifier"         -> IF e.name \in DOMAIN B THEN "LoadBinding" ELSE "LoadGlobal"
    [] OTHER                         -> e.node

\* An anonymous function takes the name it is assigned to.
About(e, name) ==
  CASE e.node = "Constant"           -> e.detail
    [] e.node = "Identifier"         -> e.name
    [] e.node = "FunctionExpression" -> name
    [] e.node = "CallOn"             -> "Receiver"
    [] OTHER                         -> ""

Performed(B, e, name, run) ==
  IF IsStopped(run) THEN run
  ELSE IF e.node = "FirstOf" THEN Yielding(run, run.yielded[1])
  ELSE Evaluate(B, run, KindOf(B, e), About(e, name), run.yielded)

\* The value written is the value of the write.
Write(B, kind, name, run) ==
  IF IsStopped(run) THEN run
  ELSE [Evaluate(B, run, kind, name, run.yielded) EXCEPT !.yielded = run.yielded]

\* An optional chain ends where an object or a function it goes on from is
\* nullish: nothing is yielded then.
IsCut(run) == IsStopped(run) \/ run.yielded = <<>>

CutIf(terms, tested) ==
  IF IsStopped(tested) THEN tested ELSE [tested EXCEPT !.yielded = IF Holds(tested) THEN <<>> ELSE terms]

CutIfNullish(optional, run) ==
  IF ~ optional \/ IsCut(run) THEN run
  ELSE CutIf(run.yielded, Tested(Yielding(run, Nullishness(run.yielded[1]))))

Completed(run) == IF IsStopped(run) \/ run.yielded # <<>> THEN run ELSE Yielding(run, Exact("undefined"))

\* A member is its object and its key, if that is computed.
Keyed(B, m, run) == IF IsCut(run) THEN run ELSE EvalAll(B, m.key, run.yielded, run)

Reference(B, target, run) ==
  IF target.node # "Member" THEN [run EXCEPT !.yielded = <<>>]
  ELSE Keyed(B, target, CutIfNullish(target.optional, Eval(B, target.object, "", run)))

ReadMember(B, run) == IF IsCut(run) THEN run ELSE RunOutside(B, run, "LoadProperty", run.yielded)

\* A call: what is called, on what, and then the arguments.
Callee(B, e, run) ==
  CutIfNullish(e.optional,
    IF e.callee.node # "Member" THEN Eval(B, e.callee, "", run)
    ELSE LET Found(r) == IF IsCut(r) THEN r ELSE ReadMethod(B, r) IN Found(Reference(B, e.callee, run)))

CallIt(B, e, run) ==
  IF IsStopped(run) THEN run
  ELSE RunOutside(B, run, IF e.callee.node = "Member" THEN "CallOn" ELSE "Call", run.yielded)

Invoked(B, e, run) ==
  IF IsCut(run) THEN run ELSE CallIt(B, e, EvalAll(B, e.arguments, run.yielded, run))

\* reference has the terms that an assignment target came to.
ReadTarget(B, target, run) ==
  IF target.node = "Member" THEN ReadMember(B, run) ELSE Eval(B, target, "", run)

WriteTarget(B, target, reference, run) ==
  IF IsStopped(run) THEN run
  ELSE IF target.node # "Member"
  THEN Write(B, IF target.name \in DOMAIN B THEN "StoreBinding" ELSE "StoreGlobal", target.name, run)
  ELSE [RunOutside(B, run, "StoreProperty", reference \o run.yielded) EXCEPT !.yielded = run.yielded]

\* What is written to a target is evaluated after it.
NameOf(target) == IF target.node = "Identifier" THEN target.name ELSE ""

AssignedTo(B, e, reference, run) ==
  IF IsStopped(run) THEN run
  ELSE WriteTarget(B, e.target, reference, Eval(B, e.right, NameOf(e.target), run))

\* Which of the two numbers is stored, and which is the value.
UpdatedAt(B, e, reference, run) ==
  IF IsStopped(run) THEN run
  ELSE [WriteTarget(B, e.target, reference, Yielding(run, run.yielded[2]))
          EXCEPT !.yielded = <<run.yielded[IF e.prefix THEN 2 ELSE 1]>>]

UpdateIt(B, e, reference, run) ==
  IF IsStopped(run) THEN run
  ELSE UpdatedAt(B, e, reference, Evaluate(B, run, "Update", "", run.yielded))

\* What it is asked: whether it holds, or whether there is no value.
Asked(e, run) ==
  IF IsStopped(run) \/ e.node = "Conditional" THEN run
  ELSE IF e.operator # "Coalesce" THEN run
  ELSE Yielding(run, Nullishness(run.yielded[1]))

\* current is what the operand evaluated to, tested says whether it holds.
Decided(B, e, reference, current, tested) ==
  IF IsStopped(tested) THEN tested
  ELSE IF e.node = "Conditional"
  THEN Eval(B, IF Holds(tested) THEN e.consequent ELSE e.alternate, "", tested)
  ELSE IF Holds(tested) = (e.operator = "Or") THEN [tested EXCEPT !.yielded = current]
  ELSE IF e.node = "Logical" THEN Eval(B, e.right, "", tested)
  ELSE AssignedTo(B, e, reference, tested)

Eval(B, e, name, run) ==
  LET Second(first) == IF IsStopped(first) THEN first ELSE Eval(B, e.right, "", first)
      Rest(reference, first) == Decided(B, e, reference, first.yielded, Tested(Asked(e, first)))
      Through(r) == IF IsStopped(r) THEN r
                ELSE CASE e.node = "Update"       -> UpdateIt(B, e, r.yielded, ReadTarget(B, e.target, r))
                       [] e.operator = "Assign"   -> AssignedTo(B, e, r.yielded, r)
                       [] OTHER                   -> Rest(r.yielded, ReadTarget(B, e.target, r))
  IN  CASE e.node \in {"Constant", "Identifier", "Operator", "New", "CallOn", "Template",
                       "FunctionExpression", "FirstOf"} ->
             Performed(B, e, name, EvalAll(B, Given(e), <<>>, run))
        [] e.node = "Member"      -> ReadMember(B, Reference(B, e, run))
        [] e.node = "Call"        -> Invoked(B, e, Callee(B, e, run))
        [] e.node = "Chain"       -> Completed(Eval(B, e.expression, "", run))
        [] e.node = "Sequence"    -> Second(Eval(B, e.left, "", run))
        [] e.node = "Logical"     -> Rest(<<>>, Eval(B, e.left, "", run))
        [] e.node = "Conditional" -> Rest(<<>>, Eval(B, e.test, "", run))
        [] e.node \in {"Assignment", "Update"} -> Through(Reference(B, e.target, run))
        [] OTHER -> End(run, <<e.node, <<>>, {}>>)

-----------------------------------------------------------------------------
(* Statements.                                                             *)

RECURSIVE Exec(_, _, _, _), ExecAll(_, _, _), Loop(_, _, _, _, _), Cases(_, _, _, _, _),
          Fall(_, _, _, _)

\* An expression where there may be declarations stands for a statement.
ExecAll(B, list, run) ==
  IF list = <<>> \/ IsLeaving(run) THEN run
  ELSE ExecAll(B, Tail(list), Exec(B, Head(list), <<>>, run))

Header(list) == [i \in DOMAIN list |-> IF list[i].node = "Variable" THEN list[i] ELSE Do(list[i])]

\* A declaration inside a statement hides the binding of that name which the
\* function declares in another way; it comes back with the value it had.
Hidden(B, kind, names) == {n \in names : kind # "" /\ n \in DOMAIN B /\ B[n].kind \notin {kind, "Catch"}}

WithHidden(run, names) == [run EXCEPT !.bindings = [n \in DOMAIN @ \ names |-> @[n]]]
Restored(before, names, run) ==
  [run EXCEPT !.bindings = Updated([n \in DOMAIN @ \ names |-> @[n]],
                {<<n, before.bindings[n]>> : n \in names \cap DOMAIN before.bindings})]

DeclaredBy(list) == {list[i].name : i \in {j \in DOMAIN list : list[j].node = "Variable"}}
HeaderHides(B, list) ==
  IF DeclaredBy(list) = {} \/ list[1].kind = "Var" THEN {} ELSE Hidden(B, list[1].kind, DeclaredBy(list))

\* break ends the statement that has one of the labels.
EndBreak(labels, run) ==
  IF run.leaving # <<>> /\ run.leaving[1] = "Break" /\ run.leaving[2] \in labels
  THEN [run EXCEPT !.leaving = <<>>] ELSE run

EndContinue(labels, run) ==
  IF run.leaving # <<>> /\ run.leaving[1] = "Continue" /\ run.leaving[2] \in labels
  THEN [run EXCEPT !.leaving = <<>>] ELSE run

\* Whether the loop goes on: its test holds, or there is another element of the
\* iteration over t, which is bound.
TestsOf(s) ==
  CASE s.node = "For" -> s.test
    [] s.node \in {"While", "DoWhile"} -> <<s.test>>

Bound(B, s, run) ==
  IF IsStopped(run) \/ ~ Holds(run) THEN run
  ELSE [Write(B, IF s.kind \in {"Let", "Const"} THEN "InitializeBinding" ELSE "StoreBinding", s.name,
              Yielding(run, Result(run))) EXCEPT !.yielded = <<Exact("true")>>]

GoesOn(B, s, t, run) ==
  CASE s.node = "ForOf"                -> Bound(B, s, Tested(RunOutside(B, run, "ForOf", <<t>>)))
    [] s.node = "For" /\ s.test = <<>> -> Yielding(run, Exact("true"))
    [] OTHER                           -> Tested(Eval(B, TestsOf(s)[1], "", run))

\* The body of a loop once, and what follows: the update and the next round.
Body(B, s, labels, run) ==
  IF run.blocks = 0 THEN End(run, <<"goes on", <<>>, {}>>)
  ELSE EndContinue(labels \cup {""}, Exec(B, s.body, <<>>, [run EXCEPT !.blocks = @ - 1]))

Round(B, s, labels, t, tested) ==
  LET AfterUpdate(r) == IF s.node = "For" /\ ~ IsLeaving(r) THEN ExecAll(B, Header(s.update), r) ELSE r
  IN  IF IsStopped(tested) \/ ~ Holds(tested) THEN tested
      ELSE Loop(B, s, labels, t, AfterUpdate(Body(B, s, labels, tested)))

Loop(B, s, labels, t, run) ==
  IF IsLeaving(run) THEN EndBreak(labels \cup {""}, run)
  ELSE Round(B, s, labels, t, GoesOn(B, s, t, run))

\* The bodies of the cases from the i-th on.
Fall(B, cases, i, run) ==
  IF i > Len(cases) \/ IsLeaving(run) THEN run
  ELSE Fall(B, cases, i + 1, ExecAll(B, cases[i].body, run))

\* The tests of the cases from the i-th on; t is the discriminant.
Compared(t, run) == IF IsStopped(run) THEN run ELSE Yielding(run, Equality(t, run.yielded[1]))

Cases(B, cases, i, t, run) ==
  LET default == {k \in DOMAIN cases : cases[k].test = <<>>}
      Following(tested) == IF IsStopped(tested) THEN tested
                       ELSE IF Holds(tested) THEN Fall(B, cases, i, tested)
                       ELSE Cases(B, cases, i + 1, t, tested)
  IN  IF i > Len(cases)
      THEN IF default = {} THEN run ELSE Fall(B, cases, CHOOSE k \in default : TRUE, run)
      ELSE IF cases[i].test = <<>> THEN Cases(B, cases, i + 1, t, run)
      ELSE Following(Tested(Compared(t, Eval(B, cases[i].test[1], "", run))))

\* The catch clause takes what the block throws.
Caught(B, s, tried) ==
  LET name  == s.handler[1].name
      taken == [tried EXCEPT !.thrown = <<>>]
  IN  IF s.handler = <<>> \/ tried.thrown = <<>> \/ tried.ended THEN tried
      ELSE Restored(taken, Hidden(B, "Catch", {name}),
             ExecAll(B, s.handler[1].body,
                     IF name = "" THEN taken ELSE SetBinding(taken, name, tried.thrown[1])))

\* The finally clause runs however the rest went; it may complete in a way of
\* its own.
Finalized(B, s, left) ==
  LET Resumed(final) ==
        IF IsLeaving(final) THEN final
        ELSE [final EXCEPT !.thrown = left.thrown, !.leaving = left.leaving]
  IN  IF s.finalizer = <<>> \/ left.ended THEN left
      ELSE Resumed(ExecAll(B, s.finalizer[1], [left EXCEPT !.thrown = <<>>, !.leaving = <<>>]))

\* Code outside may throw where a clause of this try, or of one around it, is
\* going to see it.
Seeing(catching, run) == [run EXCEPT !.catching = catching]

ExecTry(B, s, run) ==
  Finalized(B, s,
    Seeing(run.catching,
      Caught(B, s, Seeing(run.catching \/ s.finalizer # <<>>,
                          ExecAll(B, s.block, Seeing(TRUE, run))))))

\* The expression that a statement evaluates first, if there is one.
HeadOf(s) ==
  CASE s.node = "Expression"          -> <<s.expression>>
    [] s.node = "Variable"            -> s.init
    [] s.node = "If"                  -> <<s.test>>
    [] s.node = "ForOf"               -> <<s.right>>
    [] s.node = "Switch"              -> <<s.discriminant>>
    [] s.node \in {"Throw", "Return"} -> <<s.argument>>
    [] OTHER                          -> <<>>

ExecIf(B, s, tested) ==
  IF IsStopped(tested) THEN tested
  ELSE ExecAll(B, IF Holds(tested) THEN <<s.consequent>> ELSE s.alternate, tested)

\* The statement after that.
AfterHead(B, s, labels, run) ==
  IF IsStopped(run) THEN run
  ELSE CASE s.node = "Expression" -> run
         [] s.node = "Variable"   -> Write(B, IF s.kind = "Var" THEN "StoreBinding" ELSE "InitializeBinding",
                                           s.name, run)
         [] s.node = "If"         -> ExecIf(B, s, Tested(run))
         [] s.node = "ForOf"      -> Restored(run, Hidden(B, s.kind, {s.name}),
                                              Loop(B, s, labels, run.yielded[1], run))
         [] s.node = "Switch"     -> EndBreak({""}, Cases(B, s.cases, 1, run.yielded[1], run))
         [] s.node = "Throw"      -> Throwing(run, run.yielded[1])
         [] s.node = "Return"     -> [run EXCEPT !.leaving = <<"Return", run.yielded[1]>>]

ExecFor(B, s, labels, run) ==
  LET names == HeaderHides(B, s.init)
  IN  Restored(run, names, Loop(B, s, labels, <<>>, ExecAll(B, Header(s.init), WithHidden(run, names))))

Exec(B, s, labels, run) ==
  CASE HeadOf(s) # <<>>  -> AfterHead(B, s, ToSet(labels),
                              Eval(B, HeadOf(s)[1], IF s.node = "Variable" THEN s.name ELSE "", run))
    [] s.node = "Variable" /\ s.init = <<>> ->
         IF s.kind = "Var" THEN run ELSE SetBinding(run, s.name, Exact("undefined"))
    [] s.node = "Block"    -> ExecAll(B, s.body, run)
    [] s.node = "While"    -> Loop(B, s, ToSet(labels), <<>>, run)
    [] s.node = "DoWhile"  -> Round(B, s, ToSet(labels), <<>>, Yielding(run, Exact("true")))
    [] s.node = "For"      -> ExecFor(B, s, ToSet(labels), run)
    [] s.node = "Labeled"  -> EndBreak(ToSet(LabelsOf(s)), Exec(B, Unlabelled(s), LabelsOf(s), run))
    [] s.node = "Try"      -> ExecTry(B, s, run)
    [] s.node \in {"Break", "Continue"} -> [run EXCEPT !.leaving = <<s.node, s.label>>]

-----------------------------------------------------------------------------
(* Texts.                                                                  *)

InitialBindings(B) ==
  [n \in {m \in DOMAIN B : B[m].kind \in {"Var", "Local", "Parameter"}} |->
     IF B[n].kind = "Parameter" THEN <<"argument", n>> ELSE Exact("undefined")]

\* The end of a run that has not ended.
Outcome(run) ==
  IF run.ended THEN run
  ELSE End(run, IF run.thrown # <<>> THEN <<"Throw", run.thrown, {}>>
                ELSE <<"Return", <<IF run.leaving # <<>> THEN run.leaving[2] ELSE Exact("undefined")>>, {}>>)

TextEvents(text, choices) ==
  Outcome(ExecAll(text.bindings, text.body,
                  [leaving |-> <<>>] @@ NewRun(<<>>, InitialBindings(text.bindings), choices))).events

MeaningOfText(text) == [choices \in Oracles |-> TextEvents(text, choices)]
=============================================================================
