----------------------------- MODULE PlanControl -----------------------------
(***************************************************************************)
(* From the blocks of a function back to structured statements             *)
(* (crates/evrel-codegen-web/src/js/plan/control/): the planner walks the  *)
(* blocks in the order in which they are to be printed, and turns every    *)
(* jump into the end of an arm, a break or a continue.                     *)
(*                                                                         *)
(* A plan in the making has the steps of the sequence being planned, the   *)
(* blocks visited, how many flags were made up, and whether the planner    *)
(* gave up; what it goes on to do after that does not matter.              *)
(* A scope has the controls that are entered, the outermost first, and the *)
(* block that takes exceptions.                                            *)
(***************************************************************************)
EXTENDS FunctionIr

Kind(f, b)      == f.operations[f.blocks[b].terminator].kind
Structural(op)  == CHOOSE b \in op.structural : TRUE
Role(op, name)  == (CHOOSE c \in ToSet(op.cases) : c[1] = name)[2]
HasRole(op, name) == \E c \in ToSet(op.cases) : c[1] = name

-----------------------------------------------------------------------------
(* What stands where.                                                      *)

\* The block that executes first.
LoopEntry(op) ==
  CASE op.kind = "While"   -> Structural(op)
    [] op.kind = "DoWhile" -> op.targets[1].block
    [] op.kind = "For"     -> Role(op, "initializer")
    [] OTHER               -> op.block

LoopsAt(f, b)      == {o \in DOMAIN f.operations :
                         f.operations[o].kind \in Loops /\ LoopEntry(f.operations[o]) = b}
StatementsAt(f, b) == {s \in f.statements : s.body = b}

TargetsOf(f, kind, i) ==
  {f.operations[o].targets[i].block : o \in {p \in DOMAIN f.operations : f.operations[p].kind = kind}}

InvokeEntries(f)     == TargetsOf(f, "Invoke", 1)
CompletionEntries(f) == TargetsOf(f, "EnterFinally", 1)

\* MUTANT: what a finally clause resumes is not one of them.
LandingBlocks(f) ==
  {Role(f.operations[o], "exception") :
     o \in {p \in DOMAIN f.operations : f.operations[p].kind = "Try" /\ HasRole(f.operations[p], "exception")}}

\* The blocks that go on after a finally clause are what JavaScript does anyway.
NativeCompletionBlocks(f) ==
  UNION {LET op == f.operations[o]
         IN  IF op.kind = "Try" /\ HasRole(op, "exception") THEN {Role(op, "exception")}
             ELSE IF op.kind # "ResumeCompletion" THEN {}
             ELSE {op.targets[i].block : i \in {j \in DOMAIN op.cases : op.cases[j][1] # "Normal"}} :
         o \in DOMAIN f.operations}

IsOmittable(f, b) ==
  /\ b \in NativeCompletionBlocks(f)
  /\ f.blocks[b].contents = <<>>
  /\ Kind(f, b) \in {"EnterFinally", "Jump", "Return", "Throw"}

IsUnambiguous(f) ==
  \A b \in DOMAIN f.blocks : Cardinality(LoopsAt(f, b)) <= 1 /\ Cardinality(StatementsAt(f, b)) <= 1

-----------------------------------------------------------------------------
(* Plans and scopes.                                                       *)

Reject(p, condition) == [p EXCEPT !.rejected = @ \/ condition]
MarkPlanned(p, B)    == [Reject(p, B \cap p.visited # {}) EXCEPT !.visited = @ \cup B]
AddStep(p, step)  == [p EXCEPT !.steps = Append(@, step)]

Operations(list) == [step |-> "Operations", operations |-> list]
Edge(o, i)       == [step |-> "Edge", edge |-> <<o, i>>]

\* continueTo is None where there is nothing to continue, flag is 0 where none
\* says whether the loop ended by itself.
Control(entry, produced, continueTo, breakTo, label, flag) ==
  [entry |-> entry, produced |-> produced, continueTo |-> continueTo, breakTo |-> breakTo,
   label |-> label, flag |-> flag]

Within(scope, control) == [scope EXCEPT !.controls = Append(@, control)]
IsActive(scope, b)     == \E i \in DOMAIN scope.controls : scope.controls[i].entry = b

HasTransfer(scope, b) ==
  \E i \in DOMAIN scope.controls : b \in {scope.controls[i].breakTo, scope.controls[i].continueTo}

BreakOf(control)    == [step |-> "Break", label |-> control.label, flag |-> control.flag]
ContinueOf(control) == [step |-> "Continue", label |-> control.label]

\* The jump to b, as a break out of or a continue of the innermost control that
\* it can be.
Transfer(scope, b) ==
  LET Leads(control) == b \in {control.breakTo, control.continueTo}
      control == scope.controls[SelectLastInSeq(scope.controls, Leads)]
  IN  IF b = control.breakTo THEN BreakOf(control) ELSE ContinueOf(control)

-----------------------------------------------------------------------------
(* Conditions that take several blocks to evaluate, without a cycle, as    *)
(* one expression.                                                         *)

SupportedParameters(f, b) ==
  \A i \in DOMAIN f.blocks[b].parameters :
    \/ f.blocks[b].parameters[i].source = Forwarded
    \/ f.blocks[b].parameters[i].source = Produced /\ b \in InvokeEntries(f)

Complete == [flow |-> "Complete", blocks |-> {}, supported |-> TRUE]

RECURSIVE ValueFlow(_, _, _, _, _)

\* active are the blocks on the way here.
ValueFlow(f, b, completion, exception, active) ==
  LET o       == f.blocks[b].terminator
      op      == f.operations[o]
      Go(i)   == ValueFlow(f, op.targets[i].block, completion, exception, active \cup {b})
      next    == [i \in DOMAIN op.targets \ (IF op.kind = "Invoke" THEN {2} ELSE {}) |-> Go(i)]
      goesOn  == /\ b \notin active /\ SupportedParameters(f, b)
                 /\ \/ op.kind \in {"Jump", "If"}
                    \/ op.kind = "Invoke" /\ op.targets[2].block = exception
  IN  IF b = completion THEN Complete
      ELSE IF ~ goesOn THEN [Complete EXCEPT !.supported = FALSE]
      ELSE [flow |-> IF op.kind = "If" THEN "Branch" ELSE "Jump",
            terminator |-> o, next |-> next,
            operations |-> f.blocks[b].contents \o (IF op.kind = "Invoke" THEN <<o>> ELSE <<>>),
            blocks |-> {b} \cup UNION {next[i].blocks : i \in DOMAIN next},
            supported |-> \A i \in DOMAIN next : next[i].supported]

\* A test that ends in the terminator of block b with two successors.
FlowTest(f, entry, b, exception) ==
  [test |-> "Flow", flow |-> ValueFlow(f, entry, b, exception, {}), block |-> b]

BlockTest(b) == [test |-> "Block", block |-> b]

-----------------------------------------------------------------------------
(* Sequences.                                                              *)

RECURSIVE PlanSequence(_, _, _, _, _)

\* The steps from start up to stop, alone.
Nested(f, start, stop, scope, p) ==
  PlanSequence(f, start, stop, scope, [p EXCEPT !.steps = <<>>])

\* The plan p goes on with a step made from n.
Resumed(p, n, step) == AddStep([n EXCEPT !.steps = p.steps], step)

PlanWhile(f, o, entry, scope, p) ==
  LET op      == f.operations[o]
      control == Control(entry, None, entry, op.targets[2].block, op.detail, 0)
      flow    == FlowTest(f, entry, op.block, scope.exception)
      tested  == IF op.block = entry THEN Reject(MarkPlanned(p, {entry}), ~ AllForwarded(f, entry))
                 ELSE Reject(MarkPlanned(p, flow.flow.blocks \cup {entry, op.block}), ~ flow.flow.supported)
      body    == Nested(f, op.targets[1].block, entry, Within(scope, control), tested)
  IN  Resumed(p, body, [step |-> "While", label |-> op.detail, body |-> body.steps,
                        test |-> IF op.block = entry THEN BlockTest(entry) ELSE flow])

PlanDoWhile(f, o, entry, scope, p) ==
  LET op      == f.operations[o]
      test    == Structural(op)
      control == Control(entry, None, test, op.targets[2].block, op.detail, 0)
      body    == Nested(f, entry, test, Within(scope, control), p)
      flow    == FlowTest(f, test, op.block, scope.exception)
      tested  == Reject(MarkPlanned(body, flow.flow.blocks \cup {op.block}),
                        ~ flow.flow.supported \/ ~ SupportedParameters(f, op.block))
  IN  Resumed(p, tested, [step |-> "DoWhile", label |-> op.detail, body |-> body.steps, test |-> flow])

RECURSIVE DeclaresBinding(_, _)

\* Also in a branch.
DeclaresBinding(f, steps) ==
  \E i \in DOMAIN steps :
    CASE steps[i].step = "Operations" ->
           \E o \in ToSet(steps[i].operations) : f.operations[o].kind = "InitializeBinding"
      [] steps[i].step = "If" -> DeclaresBinding(f, steps[i].then) \/ DeclaresBinding(f, steps[i].else)
      [] OTHER -> FALSE

\* The block that decides between the body and the exit of a for loop, found
\* from its test block; the set is empty if there is not just one.
ForDecisions(f, entry, body, exit) ==
  LET Decides(b) == Kind(f, b) = "If" /\ LET op == f.operations[f.blocks[b].terminator]
                                         IN  op.targets[1].block = body /\ op.targets[2].block = exit
      Next(b)    == LET op == f.operations[f.blocks[b].terminator]
                    IN  IF Decides(b) THEN {}
                        ELSE {op.targets[i].block : i \in DOMAIN op.targets \
                                                           (IF op.kind = "Invoke" THEN {2} ELSE {})}
      grow[n \in 0..Len(f.regions[f.body])] ==
        IF n = 0 THEN {entry}
        ELSE LET B == grow[n - 1] IN B \cup (UNION {Next(b) : b \in B} \ {body, exit})
      seen       == grow[Len(f.regions[f.body])]
      found      == {b \in seen : Decides(b)}
  IN  IF (\A b \in seen : Kind(f, b) \in {"Jump", "If", "Invoke"}) /\ Cardinality(found) = 1
      THEN found ELSE {}

\* No test, a test in one block, or a test in several.
ForTest(f, test, body, exit, scope) ==
  LET op    == f.operations[f.blocks[test].terminator]
      found == ForDecisions(f, test, body, exit)
      b     == CHOOSE x \in found : TRUE
  IN  IF op.kind = "Jump" /\ op.targets[1].block = body THEN [test |-> "Always", block |-> test]
      ELSE IF op.kind = "If" /\ op.targets[1].block = body /\ op.targets[2].block = exit
      THEN BlockTest(test)
      ELSE IF found \subseteq {test} \/ ~ SupportedParameters(f, b)
      THEN [test |-> "Flow", flow |-> [Complete EXCEPT !.supported = FALSE], block |-> test]
      ELSE FlowTest(f, test, b, scope.exception)

PlanFor(f, o, entry, scope, p) ==
  LET op       == f.operations[o]
      test     == op.targets[1].block
      body     == Role(op, "body")
      update   == Role(op, "update")
      exit     == Role(op, "exit")
      In(next) == Within(scope, Control(entry, None, next, exit, op.detail, 0))
      first    == Nested(f, entry, op.block, In(None), p)
      control  == \E i \in DOMAIN first.steps : first.steps[i].step \notin {"Operations", "Edge"}
      looped   == Nested(f, body, update, In(update), MarkPlanned(first, {op.block}))
      updated  == Nested(f, update, op.block, In(update), looped)
      decided  == ForTest(f, test, body, exit, scope)
      tested   == IF decided.test # "Flow"
                  THEN Reject(MarkPlanned(updated, {test}), ~ AllForwarded(f, test))
                  ELSE Reject(MarkPlanned(updated, decided.flow.blocks \cup {test, decided.block}),
                              ~ decided.flow.supported \/ ~ AllForwarded(f, test))
  IN  Resumed(p, tested,
        [step |-> "For", label |-> op.detail, initializer |-> first.steps,
         prelude |-> control /\ ~ DeclaresBinding(f, first.steps),
         enter |-> <<o, 1>>, test |-> decided, body |-> looped.steps, update |-> updated.steps])

\* The first parameter of the body is the element.
PlanIterator(f, o, header, scope, p) ==
  LET op      == f.operations[o]
      body    == op.targets[1].block
      takes   == f.blocks[body].parameters
      flag    == p.flags + 1
      control == Control(header, body, header, op.targets[2].block, op.detail, flag)
      fits    == /\ AllForwarded(f, header) /\ takes # <<>>
                 /\ \A i \in DOMAIN takes : takes[i].source = IF i = 1 THEN Produced ELSE Forwarded
      looped  == Nested(f, body, header, Within(scope, control),
                        [Reject(MarkPlanned(p, {header}), ~ fits) EXCEPT !.flags = flag])
  IN  Resumed(p, looped,
        [step |-> "Iterator", label |-> op.detail, iterated |-> op.operands[1], flag |-> flag,
         element |-> takes[1].value, body |-> <<Edge(o, 1)>> \o looped.steps, exit |-> <<o, 2>>])

\* A case ends where the next one begins.
PlanSwitch(f, o, scope, p) ==
  LET op      == f.operations[o]
      n       == Cardinality({i \in DOMAIN op.cases : op.cases[i][1] # "no match"})
      end     == Structural(op)
      inner   == Within(scope, Control(op.block, None, None, end, op.detail, 0))
      matched == IF \E i \in DOMAIN op.targets : op.targets[i].count > 0 THEN p.flags + 1 ELSE 0
      After(i) == IF i = n THEN end ELSE op.targets[i + 1].block
      Body(i, q) == IF HasTransfer(inner, op.targets[i].block)
                    THEN [q EXCEPT !.steps = <<Transfer(inner, op.targets[i].block)>>]
                    ELSE Nested(f, op.targets[i].block, After(i), inner, q)
      body[i \in 0..n] == IF i = 0 THEN [p EXCEPT !.flags = IF matched = 0 THEN @ ELSE matched]
                                   ELSE Body(i, body[i - 1])
  IN  Resumed(p, body[n],
        [step |-> "Switch", label |-> op.detail, discriminant |-> op.operands[1], matched |-> matched,
         terminator |-> o, cases |-> [i \in 1..n |-> [test |-> op.cases[i], body |-> body[i].steps]],
         noMatch |-> n < Len(op.targets)])

PlanTry(f, o, scope, p) ==
  LET op      == f.operations[o]
      hasCatch   == HasRole(op, "catch")
      hasFinally == HasRole(op, "finally")
      end     == Role(op, "completion")
      normal  == IF hasFinally THEN Role(op, "finally") ELSE end
      outer   == IF hasFinally THEN Role(op, "exception") ELSE scope.exception
      caught  == Role(op, "catch")
      In(handler) == [scope EXCEPT !.exception = handler]
      tried   == Nested(f, op.targets[1].block, normal, In(IF hasCatch THEN caught ELSE outer), p)
      exception == f.blocks[caught].parameters[1]
      catch   == IF hasCatch
                 THEN Nested(f, caught, normal, In(outer), Reject(tried, exception.source # Exception))
                 ELSE tried
      finally == IF hasFinally THEN Nested(f, normal, end, scope, catch) ELSE catch
  IN  Resumed(p, finally,
        [step |-> "Try", body |-> <<Edge(o, 1)>> \o tried.steps,
         catch |-> IF hasCatch THEN <<[exception |-> exception.value, body |-> catch.steps]>> ELSE <<>>,
         finally |-> IF hasFinally THEN <<finally.steps>> ELSE <<>>])

PlanLoop(f, o, entry, scope, p) ==
  CASE f.operations[o].kind = "While"   -> PlanWhile(f, o, entry, scope, p)
    [] f.operations[o].kind = "DoWhile" -> PlanDoWhile(f, o, entry, scope, p)
    [] f.operations[o].kind = "For"     -> PlanFor(f, o, entry, scope, p)
    [] OTHER                            -> PlanIterator(f, o, entry, scope, p)

LoopExit(op) == IF op.kind = "For" THEN Role(op, "exit") ELSE op.targets[2].block

PlanLabeled(f, s, scope, p) ==
  LET control == Control(s.body, None, None, s.completion, Last(s.labels), 0)
      body    == Nested(f, s.body, s.completion, Within(scope, control), p)
  IN  Resumed(p, body, [step |-> "Labeled", label |-> Last(s.labels), body |-> body.steps])

-----------------------------------------------------------------------------
(* One block and its terminator.                                           *)

ParametersFit(f, b, scope) ==
  \A i \in DOMAIN f.blocks[b].parameters :
    CASE f.blocks[b].parameters[i].source = Forwarded -> TRUE
      [] f.blocks[b].parameters[i].source = Produced ->
           \/ b \in InvokeEntries(f) \cup CompletionEntries(f)
           \/ \E k \in DOMAIN scope.controls : scope.controls[k].produced = b
      [] f.blocks[b].parameters[i].source = Exception -> b \in f.handlers

\* On to block b, or out of what is being planned.
GoOn(f, b, stop, scope, p) ==
  IF b # stop /\ HasTransfer(scope, b) THEN AddStep(p, Transfer(scope, b))
  ELSE PlanSequence(f, b, stop, scope, p)

\* A branch of an If.
PlanArm(f, o, i, stop, scope, p) ==
  LET b   == f.operations[o].targets[i].block
      arm == Nested(f, b, stop, scope, p)
  IN  IF HasTransfer(scope, b) THEN [p EXCEPT !.steps = <<Edge(o, i), Transfer(scope, b)>>]
      ELSE [arm EXCEPT !.steps = <<Edge(o, i)>> \o @]

PlanIf(f, o, scope, p) ==
  LET end  == Structural(f.operations[o])
      then == PlanArm(f, o, 1, end, scope, p)
      else == PlanArm(f, o, 2, end, scope, then)
  IN  Resumed(p, else, [step |-> "If", condition |-> f.operations[o].operands[1],
                        then |-> then.steps, else |-> else.steps])

\* Into a finally clause: JavaScript runs it when the statement that crosses it
\* is executed.
PlanEnterFinally(f, o, scope, p) ==
  LET op     == f.operations[o]
      kind   == op.cases[1][1]
      target == op.cases[1][2]
      known  == Reject(p, op.targets[1].count > 0)
      crosses == HasTransfer(scope, target) /\ Transfer(scope, target).step = kind
  IN  CASE kind = "Normal" -> known
        [] kind \in {"Return", "Throw"} -> AddStep(known, [step |-> kind, value |-> op.operands[1]])
        [] OTHER -> IF crosses THEN AddStep(known, Transfer(scope, target)) ELSE Reject(known, TRUE)

\* What the finally clause resumes is implied.
PlanResume(op, stop, p) ==
  LET normal == {i \in DOMAIN op.cases : op.cases[i][1] = "Normal"}
  IN  Reject(p, \/ stop = None \/ normal = {}
                \/ \E i \in normal : op.targets[i].block # stop)

PlanBlock(f, b, stop, scope, p) ==
  LET o  == f.blocks[b].terminator
      op == f.operations[o]
      q  == AddStep(Reject(MarkPlanned(p, {b}), ~ ParametersFit(f, b, scope)),
                 Operations(f.blocks[b].contents))
      On(next, r) == PlanSequence(f, next, stop, scope, r)
  IN  CASE op.kind = "Invoke" ->
             GoOn(f, op.targets[1].block, stop, scope,
                  AddStep(AddStep(Reject(q, op.targets[2].block # scope.exception), Operations(<<o>>)),
                       Edge(o, 1)))
        [] op.kind = "Jump"   -> GoOn(f, op.targets[1].block, stop, scope, AddStep(q, Edge(o, 1)))
        [] op.kind = "If"     -> On(Structural(op), PlanIf(f, o, scope, q))
        [] op.kind = "Switch" -> On(Structural(op), PlanSwitch(f, o, scope, q))
        [] op.kind = "Try"    -> On(Role(op, "completion"), PlanTry(f, o, scope, q))
        [] op.kind = "EnterFinally"     -> PlanEnterFinally(f, o, scope, q)
        [] op.kind = "ResumeCompletion" -> PlanResume(op, stop, q)
        [] op.kind = "Throw"  ->
             AddStep(Reject(q, op.targets # <<>> /\ op.targets[1].block # scope.exception),
                  Operations(<<o>>))
        [] op.kind = "Return" -> IF f.entry THEN q ELSE AddStep(q, Operations(<<o>>))
        [] OTHER              -> Reject(q, TRUE)

\* A labelled statement or a loop is planned as a whole where it is entered.
PlanSequence(f, b, stop, scope, p) ==
  LET s == CHOOSE x \in StatementsAt(f, b) : TRUE
      o == CHOOSE x \in LoopsAt(f, b) : TRUE
  IN  IF p.rejected \/ b = stop THEN p
      ELSE IF ~ IsActive(scope, b) /\ StatementsAt(f, b) # {}
      THEN PlanSequence(f, s.completion, stop, scope, PlanLabeled(f, s, scope, p))
      ELSE IF ~ IsActive(scope, b) /\ LoopsAt(f, b) # {}
      THEN PlanSequence(f, LoopExit(f.operations[o]), stop, scope, PlanLoop(f, o, b, scope, p))
      ELSE PlanBlock(f, b, stop, scope, p)

-----------------------------------------------------------------------------
(* JsControlPlan::build.                                                   *)

NewPlan  == [steps |-> <<>>, visited |-> {}, flags |-> 0, rejected |-> FALSE]
NewScope == [controls |-> <<>>, exception |-> None]

\* Every block is planned, or does what JavaScript does anyway.
AllPlanned(f, p) ==
  Reject(p, \E b \in ToSet(f.regions[f.body]) \ p.visited : ~ IsOmittable(f, b))

ControlPlan(f) ==
  AllPlanned(f, PlanSequence(f, Entry(f, f.body), None, NewScope, Reject(NewPlan, ~ IsUnambiguous(f))))
=============================================================================
