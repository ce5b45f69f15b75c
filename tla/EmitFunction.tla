----------------------------- MODULE EmitFunction -----------------------------
(***************************************************************************)
(* A planned function is printed (crates/evrel-codegen-web/src/js/emit/):  *)
(* every value that is used becomes a local of the output, which all are   *)
(* declared in front and without a value, constants are repeated where     *)
(* they are used, and what an edge forwards is assigned where the plan has *)
(* the edge.                                                               *)
(*                                                                         *)
(* Unsupported stands where the emitter gives up on the function.          *)
(***************************************************************************)
EXTENDS PlanControl, Syntax, TLC

Unsupported == [node |-> "Unsupported"]

LocalOf(v) == "v" \o ToString(v)
FlagOf(n)  == "flag" \o ToString(n)
Scratch    == "scratch"

-----------------------------------------------------------------------------
(* Values.                                                                 *)

\* A function expression is printed in the place of its only use, so that it
\* takes the name of the binding it is written to.
IsCreatedAtUse(f, v) ==
  /\ f.values[v].kind = "OperationResult"
  /\ Cardinality(f.uses[v]) = 1
  /\ LET o        == f.values[v].operation
         user     == (CHOOSE u \in f.uses[v] : TRUE)[1]
         contents == f.blocks[f.operations[o].block].contents
     IN  /\ f.operations[o].kind = "CreateFunction"
         /\ f.operations[user].block = f.operations[o].block
         /\ CASE f.operations[user].kind \in {"InitializeBinding", "StoreBinding"} ->
                   \E i \in 2..Len(contents) : contents[i - 1] = o /\ contents[i] = user
              [] f.operations[user].kind = "StoreProperty" ->
                   \E i \in 2..Len(contents) : contents[i - 1] = o /\ contents[i] = user
              [] f.operations[user].kind = "RegionYield" -> contents = <<o>>
              [] OTHER -> FALSE

IsInline(f, v) ==
  f.values[v].kind = "OperationResult" /\ f.operations[f.values[v].operation].kind = "Constant"

\* Both results of an update are, used or not.
IsUpdated(f, v) ==
  f.values[v].kind = "OperationResult" /\ f.operations[f.values[v].operation].kind = "Update"

IsTemporary(f, v) ==
  \/ f.values[v].kind = "BlockParameter"
  \/ IsUpdated(f, v)
  \/ f.uses[v] # {} /\ ~ IsInline(f, v) /\ ~ IsCreatedAtUse(f, v)

ValueExpression(f, v) ==
  IF IsInline(f, v) THEN Const(f.operations[f.values[v].operation].detail)
  ELSE IF IsTemporary(f, v) THEN Name(LocalOf(v)) ELSE Unsupported

Operand(f, v) == IF IsCreatedAtUse(f, v) THEN Lambda ELSE ValueExpression(f, v)

-----------------------------------------------------------------------------
(* Edges: the copies of edge.rs, each with the expression it reads.        *)

\* MUTANT: copies are made in the order of the parameters.
InParameterOrder(pending) == pending

RECURSIVE Scheduled(_)

\* The first copy whose destination no other copy reads goes first; a cycle is
\* broken by saving the destination of the first one.
Scheduled(pending) ==
  LET ready == {i \in DOMAIN pending : \A j \in DOMAIN pending : pending[j][2] # Name(pending[i][1])}
      first == CHOOSE i \in ready : \A j \in ready : i <= j
      saved == pending[1][1]
  IN  IF pending = <<>> THEN <<>>
      ELSE IF ready # {} THEN <<pending[first]>> \o Scheduled(RemoveAt(pending, first))
      ELSE <<<<Scratch, Name(saved)>>>>
           \o Scheduled([i \in DOMAIN pending |->
                 IF pending[i][2] = Name(saved) THEN <<pending[i][1], Name(Scratch)>> ELSE pending[i]])

\* What the edge e = <<terminator, successor>> copies: a local, and what it takes.
Copies(f, e) ==
  LET parameters == f.blocks[Target(f, e)].parameters
      arguments  == EdgeArguments(f, e)
  IN  [i \in DOMAIN arguments |-> <<LocalOf(parameters[ProducedCount(f, e) + i].value),
                                    ValueExpression(f, arguments[i])>>]

ToAssignments(copies) == [i \in DOMAIN copies |-> Assign(copies[i][1], copies[i][2])]

EdgeExpressions(f, e) ==
  LET Moves(copy) == copy[2] # Name(copy[1])
  IN  ToAssignments(Scheduled(SelectSeq(Copies(f, e), Moves)))

AsStatements(expressions) == [i \in DOMAIN expressions |-> Do(expressions[i])]

EdgeStatements(f, e) == AsStatements(EdgeExpressions(f, e))

\* a, b, c for one expression at least.
InSequence(expressions) ==
  FoldLeft(Comma, expressions[1], Tail(expressions))

-----------------------------------------------------------------------------
(* Operations.                                                             *)

RECURSIVE EmitRegion(_, _, _)

RegionsInOrder(f, op) ==
  LET regions == InOrder(op.regions)
  IN  [i \in DOMAIN regions |-> EmitRegion(f, Entry(f, regions[i]), None)]

\* An object, and a key if that is computed.
MemberExpression(operands) == IF Len(operands) = 1 THEN Dot(operands[1]) ELSE At(operands[1], operands[2])

CallExpression(detail, operands, arguments) ==
  CASE detail = ""         -> CallWith(operands[1], arguments)
    [] detail = "Method"   -> CallWith(MemberExpression(operands), arguments)
    [] detail = "Receiver" -> CallOn(operands[1], operands[2], arguments)

ConstructExpression(operands, arguments) == New(operands[1], arguments)

OperatorExpression(kind, operands) == [node |-> "Operator", kind |-> kind, operands |-> operands]

\* The operation of a kind on operands; regions are the expressions it evaluates.
ExpressionOfKind(kind, detail, operands, regions) ==
  CASE kind \in {"LoadBinding", "LoadGlobal"} -> Name(detail)
    [] kind = "LoadProperty"   -> MemberExpression(operands)
    [] kind = "Call"           -> CallExpression(detail, operands, regions)
    [] kind = "Construct"      -> ConstructExpression(operands, regions)
    [] kind = "Template"       -> Template1(regions[1])
    [] kind = "CreateFunction" -> Lambda
    [] OTHER -> OperatorExpression(kind, operands)

OperationExpression(f, o) ==
  LET op == f.operations[o]
  IN  ExpressionOfKind(ExecutedKind(op), op.detail,
                       [i \in 1..op.own |-> ValueExpression(f, op.operands[i])], RegionsInOrder(f, op))

\* The values that take the results: those of an Invoke go to the next block.
ResultDestinations(f, o) ==
  LET op == f.operations[o]
      parameters == f.blocks[op.targets[1].block].parameters
  IN  IF op.kind # "Invoke" THEN op.results
      ELSE [i \in 1..op.targets[1].produced |-> parameters[i].value]

DeclarationKind(kind) == IF kind = "Catch" THEN "Let" ELSE kind

\* A var that starts out as undefined needs no initializer.
EmitInitialize(f, op) ==
  LET kind == f.bindings[op.detail].kind
      v    == op.operands[1]
      undefined == IsInline(f, v) /\ ValueExpression(f, v) = Const("undefined")
  IN  IF kind = "Parameter" THEN Do(Unsupported)
      ELSE Declare(DeclarationKind(kind), op.detail,
                   IF kind = "Var" /\ undefined THEN <<>> ELSE <<Operand(f, v)>>)

ResultStatement(f, v, e) == Do(IF IsTemporary(f, v) THEN Assign(LocalOf(v), e) ELSE e)

EmitBindingStore(f, op) == Do(Assign(op.detail, Operand(f, op.operands[1])))
EmitGlobalStore(f, op)  == Do(Assign(op.detail, ValueExpression(f, op.operands[1])))

EmitPropertyStore(f, op) ==
  LET place == [i \in 1..(op.own - 1) |-> ValueExpression(f, op.operands[i])]
  IN  Do(AssignTo("Assign", MemberExpression(place), Operand(f, op.operands[op.own])))

\* The local of the new value is updated in place, which gives the old one.
EmitUpdate(f, old, new, current) ==
  IF IsTemporary(f, old) /\ IsTemporary(f, new)
  THEN Do(Comma(Assign(LocalOf(new), current), Assign(LocalOf(old), Update(FALSE, Name(LocalOf(new))))))
  ELSE Do(Unsupported)

EmitReturn(f, op) == Return(ValueExpression(f, op.operands[1]))
EmitThrow(f, op)  == Throw(ValueExpression(f, op.operands[1]))

\* One statement, or none.
EmitOperation(f, o) ==
  LET op      == f.operations[o]
      kind    == ExecutedKind(op)
      results == ResultDestinations(f, o)
  IN  CASE kind = "Constant"          -> <<>>
        [] kind = "InitializeBinding" -> <<EmitInitialize(f, op)>>
        [] kind = "StoreBinding"      -> <<EmitBindingStore(f, op)>>
        [] kind = "StoreGlobal"       -> <<EmitGlobalStore(f, op)>>
        [] kind = "StoreProperty"     -> <<EmitPropertyStore(f, op)>>
        [] kind = "Update"            ->
             <<EmitUpdate(f, results[1], results[2], ValueExpression(f, op.operands[1]))>>
        [] kind = "Return"            -> <<EmitReturn(f, op)>>
        [] kind = "Throw"             -> <<EmitThrow(f, op)>>
        [] IsCreatedAtUse(f, results[1]) -> <<>>
        [] OTHER -> <<ResultStatement(f, results[1], OperationExpression(f, o))>>

EmitOperations(f, list) == FlattenSeq([i \in DOMAIN list |-> EmitOperation(f, list[i])])

ExpressionOf(s) == IF s.node = "Expression" THEN s.expression ELSE Unsupported

AsExpressions(statements) == [i \in DOMAIN statements |-> ExpressionOf(statements[i])]

OperationsAsExpressions(f, list) == AsExpressions(EmitOperations(f, list))

\* An expression region from block b up to stop.  Its planner shares what
\* follows a branch if the branches forward more than one value to it, and
\* repeats it in either branch otherwise.
EmitBranch(f, o, i, stop) ==
  InSequence(EdgeExpressions(f, <<o, i>>)
             \o <<EmitRegion(f, f.operations[o].targets[i].block, stop)>>)

EmitRegionEnd(f, o, stop) ==
  LET op    == f.operations[o]
      end   == CHOOSE x \in op.structural : TRUE
      share == Len(f.blocks[end].parameters) > 1
      conditional == [i \in 1..2 |-> EmitBranch(f, o, i, IF share THEN end ELSE stop)]
  IN  CASE op.kind = "RegionYield" -> <<Operand(f, op.operands[1])>>
        [] op.kind = "Jump"        -> <<EmitBranch(f, o, 1, stop)>>
        [] op.kind = "If"          ->
             <<IfElse(ValueExpression(f, op.operands[1]), conditional[1], conditional[2])>>
             \o (IF share /\ stop # end THEN <<EmitRegion(f, end, stop)>> ELSE <<>>)
        [] OTHER                   -> <<Unsupported>>

EmitRegion(f, b, stop) ==
  IF b = stop THEN Const("true")
  ELSE IF ~ AllForwarded(f, b) THEN Unsupported
  ELSE InSequence(OperationsAsExpressions(f, f.blocks[b].contents)
                  \o EmitRegionEnd(f, f.blocks[b].terminator, stop))

-----------------------------------------------------------------------------
(* Tests of loops.                                                         *)

\* c, with the assignments of the edge that is taken.
Deciding(f, o, c) ==
  IfElse(c, InSequence(EdgeExpressions(f, <<o, 1>>) \o <<Const("true")>>),
            InSequence(EdgeExpressions(f, <<o, 2>>) \o <<Const("false")>>))

RECURSIVE EmitValueFlow(_, _)

EmitValueFlow(f, step) ==
  LET o == step.terminator
      Next(i) == InSequence(EdgeExpressions(f, <<o, i>>) \o <<EmitValueFlow(f, step.next[i])>>)
  IN  IF step.flow = "Complete" THEN Const("undefined")
      ELSE InSequence(OperationsAsExpressions(f, step.operations)
             \o <<IF step.flow = "Jump" THEN Next(1)
                  ELSE IfElse(ValueExpression(f, f.operations[o].operands[1]), Next(1), Next(2))>>)

NothingForwarded(f, o) == \A i \in 1..2 : EdgeExpressions(f, <<o, i>>) = <<>>

TestExpression(f, test, own) ==
  LET o == f.blocks[test.block].terminator
      c == ValueExpression(f, f.operations[o].operands[1])
  IN  IF test.test = "Flow"
      THEN Deciding(f, o, InSequence(<<EmitValueFlow(f, test.flow)>> \o own \o <<c>>))
      ELSE InSequence(own \o <<IF NothingForwarded(f, o) THEN c ELSE Deciding(f, o, c)>>)

\* A test that says whether the body comes next.
LoopTestExpression(f, test) ==
  TestExpression(f, test, OperationsAsExpressions(f, f.blocks[test.block].contents))

\* The test of a for loop, after what entering it takes; none if there is
\* nothing to do.
OptionalTest(expressions) ==
  IF expressions = <<>> THEN <<>> ELSE <<InSequence(expressions \o <<Const("true")>>)>>

ForTestExpression(f, enter, test) ==
  IF test.test # "Always"
  THEN <<InSequence(EdgeExpressions(f, enter) \o <<LoopTestExpression(f, test)>>)>>
  ELSE OptionalTest(EdgeExpressions(f, enter)
                    \o OperationsAsExpressions(f, f.blocks[test.block].contents)
                    \o EdgeExpressions(f, <<f.blocks[test.block].terminator, 1>>))

-----------------------------------------------------------------------------
(* What may stand in the header of a for loop.                             *)

RECURSIVE ExpressionsOf(_, _)

OneExpression(expressions) ==
  IF expressions = <<>> THEN Const("undefined") ELSE InSequence(expressions)

HeaderConditional(f, step) ==
  IfElse(ValueExpression(f, step.condition),
         OneExpression(ExpressionsOf(f, step.then)), OneExpression(ExpressionsOf(f, step.else)))

ExpressionsOf(f, steps) ==
  FlattenSeq([i \in DOMAIN steps |->
    CASE steps[i].step = "Operations" -> OperationsAsExpressions(f, steps[i].operations)
      [] steps[i].step = "Edge"       -> EdgeExpressions(f, steps[i].edge)
      [] steps[i].step = "If"         -> <<HeaderConditional(f, steps[i])>>
      [] OTHER                        -> <<Unsupported>>])

HeaderStatements(f, steps) ==
  FlattenSeq([i \in DOMAIN steps |->
    CASE steps[i].step = "Operations" -> EmitOperations(f, steps[i].operations)
      [] steps[i].step = "Edge"       -> EdgeStatements(f, steps[i].edge)
      [] steps[i].step = "If"         -> <<Do(HeaderConditional(f, steps[i]))>>
      [] OTHER                        -> <<Do(Unsupported)>>])

\* The initializer after the expressions that wait to be evaluated.
After(pending, init) ==
  IF pending = <<>> THEN init ELSE IF init = <<>> THEN <<Unsupported>> ELSE <<InSequence(pending \o init)>>

Declaring(header, kind, name, init) ==
  [declared |-> Append(header.declared,
                  Declare(IF header.declared = <<>> THEN kind ELSE header.declared[1].kind, name,
                          After(header.pending, init))),
   pending |-> <<>>]

\* Once something is declared, an assignment becomes a declaration as well.
IntoHeader(header, s) ==
  CASE s.node = "Variable" -> Declaring(header, s.kind, s.name, s.init)
    [] /\ s.node = "Expression" /\ header.declared # <<>>
       /\ s.expression.node = "Assignment" /\ s.expression.target.node = "Identifier" ->
         Declaring(header, "", s.expression.target.name, <<s.expression.right>>)
    [] OTHER -> [header EXCEPT !.pending = Append(@, ExpressionOf(s))]

\* The declarations, or one expression, or nothing.
NativeInitializer(statements) ==
  LET header == FoldLeft(IntoHeader, [declared |-> <<>>, pending |-> <<>>], statements)
      last   == Last(header.declared)
      ended  == IF last.init = <<>> THEN <<Unsupported>> ELSE <<FirstOf(last.init \o header.pending)>>
  IN  IF header.declared = <<>>
      THEN IF header.pending = <<>> THEN <<>> ELSE <<InSequence(header.pending)>>
      ELSE IF header.pending = <<>> THEN header.declared
      ELSE Append(Front(header.declared), [last EXCEPT !.init = ended])

OptionalSequence(expressions) == IF expressions = <<>> THEN <<>> ELSE <<InSequence(expressions)>>

ForUpdate(f, step) == OptionalSequence(ExpressionsOf(f, step.update) \o EdgeExpressions(f, step.enter))

-----------------------------------------------------------------------------
(* Statements.                                                             *)

RECURSIVE EmitSequence(_, _), EmitStep(_, _)

SetFlag(n, c)       == Do(Assign(FlagOf(n), Const(c)))
Unless(n, list)     == When(Apply1("Not", Name(FlagOf(n))), Block(list))
WithLabel(label, s) == IF label = "" THEN s ELSE Labelled(label, s)

EmitIf(f, step) ==
  LET c    == ValueExpression(f, step.condition)
      then == Block(EmitSequence(f, step.then))
      else == EmitSequence(f, step.else)
  IN  IF else = <<>> THEN When(c, then) ELSE WhenElse(c, then, Block(else))

ForInitializer(f, step) ==
  IF step.prelude THEN <<>> ELSE NativeInitializer(HeaderStatements(f, step.initializer))

EmitFor(f, step) ==
  (IF step.prelude THEN EmitSequence(f, step.initializer) ELSE <<>>)
  \o <<WithLabel(step.label, ForDo(ForInitializer(f, step), ForTestExpression(f, step.enter, step.test),
                                   ForUpdate(f, step), Block(EmitSequence(f, step.body))))>>

\* What the loop forwards when the iteration ends by itself is assigned after it.
EmitIterator(f, step) ==
  LET loop == ForOfDo("Let", LocalOf(step.element), ValueExpression(f, step.iterated),
                      Block(EmitSequence(f, step.body)))
      exit == EdgeStatements(f, step.exit)
  IN  <<SetFlag(step.flag, "true"), WithLabel(step.label, loop)>>
      \o (IF exit = <<>> THEN <<>> ELSE <<When(Name(FlagOf(step.flag)), Block(exit))>>)

\* The first case that is entered takes the edge from the switch.
EntersCase(f, step, i) ==
  Unless(step.matched, Append(EdgeStatements(f, <<step.terminator, i>>), SetFlag(step.matched, "true")))

EmitCase(f, step, i) ==
  LET test == step.cases[i].test
  IN  [test |-> IF test[1] = "test" THEN <<EmitRegion(f, Entry(f, test[2]), None)>> ELSE <<>>,
       body |-> (IF step.matched = 0 THEN <<>> ELSE <<EntersCase(f, step, i)>>)
                \o EmitSequence(f, step.cases[i].body)]

EmitSwitch(f, step) ==
  LET flagged == step.matched # 0
      missed  == IF step.noMatch THEN EdgeStatements(f, <<step.terminator, Len(step.cases) + 1>>) ELSE <<>>
  IN  (IF flagged THEN <<SetFlag(step.matched, "false")>> ELSE <<>>)
      \o <<WithLabel(step.label, SwitchOn(ValueExpression(f, step.discriminant),
                                          [i \in DOMAIN step.cases |-> EmitCase(f, step, i)]))>>
      \o (IF missed = <<>> THEN <<>> ELSE <<Unless(step.matched, missed)>>)

EmitTry(f, step) ==
  Try(EmitSequence(f, step.body),
      [i \in DOMAIN step.catch |-> [name |-> LocalOf(step.catch[i].exception),
                                    body |-> EmitSequence(f, step.catch[i].body)]],
      [i \in DOMAIN step.finally |-> EmitSequence(f, step.finally[i])])

EmitStep(f, step) ==
  CASE step.step = "Operations" -> EmitOperations(f, step.operations)
    [] step.step = "Edge"     -> EdgeStatements(f, step.edge)
    [] step.step = "Return"   -> <<Return(ValueExpression(f, step.value))>>
    [] step.step = "Throw"    -> <<Throw(ValueExpression(f, step.value))>>
    [] step.step = "If"       -> <<EmitIf(f, step)>>
    [] step.step = "While"    ->
         <<WithLabel(step.label, WhileDo(LoopTestExpression(f, step.test), Block(EmitSequence(f, step.body))))>>
    [] step.step = "DoWhile"  ->
         <<WithLabel(step.label, DoWhile(Block(EmitSequence(f, step.body)), LoopTestExpression(f, step.test)))>>
    [] step.step = "For"      -> EmitFor(f, step)
    [] step.step = "Iterator" -> EmitIterator(f, step)
    [] step.step = "Switch"   -> EmitSwitch(f, step)
    [] step.step = "Try"      -> <<EmitTry(f, step)>>
    [] step.step = "Labeled"  -> <<Labelled(step.label, Block(EmitSequence(f, step.body)))>>
    [] step.step = "Continue" -> <<ContinueTo(step.label)>>
    [] step.step = "Break"    ->
         (IF step.flag = 0 THEN <<>> ELSE <<SetFlag(step.flag, "false")>>) \o <<BreakTo(step.label)>>

EmitSequence(f, steps) == FlattenSeq([i \in DOMAIN steps |-> EmitStep(f, steps[i])])

-----------------------------------------------------------------------------
(* The output.  Locals are declared in front, without a value.             *)

LocalBinding == [kind |-> "Local", captured |-> FALSE, visible |-> FALSE]

Emitted(f, plan) ==
  LET locals == {LocalOf(v) : v \in DOMAIN f.values} \cup {FlagOf(n) : n \in 1..plan.flags} \cup {Scratch}
  IN  [entry |-> f.entry, body |-> EmitSequence(f, plan.steps),
       bindings |-> [n \in DOMAIN f.bindings \cup locals |->
                       IF n \in locals THEN LocalBinding ELSE f.bindings[n]]]
=============================================================================
