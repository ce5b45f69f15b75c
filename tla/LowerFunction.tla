---------------------------- MODULE LowerFunction ----------------------------
(***************************************************************************)
(* Lowering of a function body to the intermediate representation          *)
(* (crates/evrel-frontend/src/lower/statement/, expression/, declaration.rs*)
(* and function/body.rs).  Every operator takes a builder to the builder   *)
(* with the node lowered; an expression leaves its value in value.         *)
(***************************************************************************)
EXTENDS FunctionBuilder, Syntax

\* The value last computed is what an expression leaves behind: it is stored,
\* forwarded, tested or returned.
StoreIn(b, name)      == Emit(b, StoreBindingOf(name, b.value), 0)
InitializeIn(b, name) == Emit(b, InitializeBindingOf(name, b.value), 0)
ForwardTo(b, block)   == Terminate(b, JumpTo(block, <<b.value>>))
Leaving(b, v)         == [b EXCEPT !.value = v]

\* Control goes on in a block of its own.
EnterBlock(b, block)  == SwitchTo(TerminateJump(b, block), block)

\* A binding of the text, or else a global.
LoadName(b, name) ==
  Emit(b, IF name \in DOMAIN b.function.bindings THEN LoadBindingOf(name) ELSE LoadGlobalOf(name), 1)

-----------------------------------------------------------------------------
(* Expressions.                                                            *)

RECURSIVE LowerNode(_, _, _), LowerOperands(_, _), LowerRegions(_, _)

LowerExpression(e, b) == LowerNode(e, <<>>, b)

\* One after the other; operands collects their values.
LowerOperands(list, lowered) ==
  LET Next(b) == LowerOperands(Tail(list), [operands |-> Append(lowered.operands, b.value), builder |-> b])
  IN  IF list = <<>> THEN lowered ELSE Next(LowerExpression(Head(list), lowered.builder))

\* Each in a region of its own, which its owner evaluates.
LowerRegions(list, lowered) ==
  IF list = <<>> THEN lowered
  ELSE LowerRegions(Tail(list),
         [regions |-> lowered.regions \cup {Len(lowered.builder.function.regions) + 1},
          builder |-> FinishRegion(LowerExpression(Head(list), BeginRegion(lowered.builder)))])

EmitOn(kind, lowered) == Emit(lowered.builder, Plain(kind, "", lowered.operands, <<>>), 1)

InRegions(list, b) == LowerRegions(list, [regions |-> {}, builder |-> b])

\* The operations that evaluate regions.
EmitCall(receiver, operands, lowered) ==
  Emit(lowered.builder, CallWithRegions(receiver, operands, lowered.regions), 1)
EmitConstruct(callee, lowered) == Emit(lowered.builder, ConstructOf(callee, lowered.regions), 1)
EmitTemplate(lowered)          == Emit(lowered.builder, TemplateOf(lowered.regions), 1)

-----------------------------------------------------------------------------
(* Members, calls and optional chains.  The exit of a chain is a block that*)
(* takes its value, and the value undefined; without a chain there is none.*)

NoExit == [block |-> None, undefined |-> None]

\* The chain ends with undefined if the value v it has come to was found to be
\* nullish, and goes on from v otherwise.
LeaveIfNullish(exit, v, b) ==
  Leaving(SwitchTo(Terminate(b, IfOf(b.value, <<exit.block, <<exit.undefined>>>>,
                                     <<NextBlock(b) - 1, <<>>>>, exit.block)), NextBlock(b) - 1), v)

ShortCircuitIfNullish(optional, exit, b) ==
  IF optional THEN LeaveIfNullish(exit, b.value, Emit(CreateBlocks(b, 1), IsNullishOf(b.value), 1)) ELSE b

RECURSIVE LowerMemberRead(_, _, _), LowerCall(_, _, _)

\* A part of a chain leaves where the chain leaves.
LowerChainValue(e, exit, b) ==
  CASE e.node = "Member" -> LowerMemberRead(e, exit, b)
    [] e.node = "Call"   -> LowerCall(e, exit, b)
    [] OTHER             -> LowerExpression(e, b)

\* The key is evaluated after the object was found not to be nullish.
LowerKey(m, b) == LowerOperands(m.key, [operands |-> <<b.value>>, builder |-> b])

LowerMember(m, exit, b) ==
  LowerKey(m, ShortCircuitIfNullish(m.optional, exit, LowerChainValue(m.object, exit, b)))

LoadMember(member) == Emit(member.builder, LoadPropertyOf(member.operands), 1)

LowerMemberRead(m, exit, b) == LoadMember(LowerMember(m, exit, b))

LowerArguments(receiver, e, operands, b) ==
  EmitCall(receiver, operands, InRegions(e.arguments, b))

\* The method of an optional call is read before it is known whether to call it.
LowerOptionalMethod(e, receiver, b) == LowerArguments("Receiver", e, <<b.value, receiver>>, b)

LowerMethodCall(e, exit, member) ==
  IF e.optional
  THEN LowerOptionalMethod(e, member.operands[1], ShortCircuitIfNullish(TRUE, exit, LoadMember(member)))
  ELSE LowerArguments("Method", e, member.operands, member.builder)

LowerValueCall(e, b) == LowerArguments("", e, <<b.value>>, b)

LowerCall(e, exit, b) ==
  IF e.callee.node = "Member" THEN LowerMethodCall(e, exit, LowerMember(e.callee, exit, b))
  ELSE LowerValueCall(e, ShortCircuitIfNullish(e.optional, exit, LowerChainValue(e.callee, exit, b)))

\* b has just evaluated undefined.
LowerLinks(e, exit, b) ==
  SwitchTo(ForwardTo(LowerChainValue(e.expression, [block |-> exit, undefined |-> b.value], b), exit), exit)

LowerChain(e, b) ==
  LET exit == NextBlock(b)
  IN  Leaving(LowerLinks(e, exit,
                EmitConstant(AppendParameter(CreateBlocks(b, 1), exit, Forwarded), "undefined")),
              NextValue(b))

LowerNew(e, b) == EmitConstruct(b.value, InRegions(e.arguments, b))

-----------------------------------------------------------------------------
(* Assignments.  A reference is a name, or an object and a key that have   *)
(* been evaluated.                                                         *)

LowerReference(target, b) ==
  IF target.node = "Member" THEN LowerMember(target, NoExit, b) ELSE [operands |-> <<>>, builder |-> b]

LoadReference(target, operands, b) ==
  IF target.node = "Member" THEN Emit(b, LoadPropertyOf(operands), 1)
  ELSE LoadName(b, target.name)

StoreReference(target, operands, b) ==
  IF target.node = "Member" THEN Emit(b, StorePropertyOf(operands, b.value), 0)
  ELSE IF target.name \in DOMAIN b.function.bindings THEN StoreIn(b, target.name)
  ELSE Emit(b, StoreGlobalOf(target.name, b.value), 0)

\* The numeric value before the update, and the one after it.
LowerUpdateOf(e, operands, b) ==
  LET old     == NextValue(b)
      updated == Leaving(Emit(b, UpdateOf(b.value), 2), old + 1)
  IN  Leaving(StoreReference(e.target, operands, updated), IF e.prefix THEN old + 1 ELSE old)

LowerUpdate(e, reference) ==
  LowerUpdateOf(e, reference.operands, LoadReference(e.target, reference.operands, reference.builder))

-----------------------------------------------------------------------------
(* Branches inside an expression.                                          *)

\* The branch of a short-circuiting operator on the value current: what it skips
\* to is handed that value.
TestCurrent(operator, current, right, completion, b) ==
  LET skip == <<completion, <<current>>>>
      goOn == <<right, <<>>>>
  IN  Terminate(b, IF operator = "Or" THEN IfOf(b.value, skip, goOn, completion)
                                      ELSE IfOf(b.value, goOn, skip, completion))

AskedOf(operator, current, b) ==
  IF operator = "Coalesce" THEN Emit(b, IsNullishOf(current), 1)
  ELSE Leaving(b, current)

\* reference is empty, or the target and its operands.
StoreThrough(reference, b) ==
  IF reference = <<>> THEN b ELSE StoreReference(reference[1], reference[2], b)

\* The current value decides whether e is evaluated instead, and stored.
LowerShortCircuit(b, operator, e, reference) ==
  LET right      == NextBlock(b)
      completion == right + 1
      result     == NextValue(b)
      created    == AppendParameter(CreateBlocks(b, 2), completion, Forwarded)
      tested     == TestCurrent(operator, b.value, right, completion, AskedOf(operator, b.value, created))
  IN  Leaving(SwitchTo(ForwardTo(StoreThrough(reference, LowerExpression(e, SwitchTo(tested, right))),
                                 completion), completion), result)

\* e in block `from`, its value forwarded to block `to`.
LowerInto(e, from, to, b) == ForwardTo(LowerExpression(e, SwitchTo(b, from)), to)

TerminateIf(b, then, else, completion) ==
  Terminate(b, IfOf(b.value, <<then, <<>>>>, <<else, <<>>>>, completion))

\* The branches of a conditional expression, after its test.
LowerBranches(e, b) ==
  LET then       == NextBlock(b)
      completion == then + 2
      result     == NextValue(b)
      created    == Leaving(AppendParameter(CreateBlocks(b, 3), completion, Forwarded), b.value)
      branched   == TerminateIf(created, then, then + 1, completion)
  IN  Leaving(SwitchTo(LowerInto(e.alternate, then + 1, completion,
                                 LowerInto(e.consequent, then, completion, branched)), completion), result)

\* The value of an assignment is what is assigned.
LowerAssignment(e, reference) ==
  IF e.operator = "Assign"
  THEN StoreReference(e.target, reference.operands, LowerExpression(e.right, reference.builder))
  ELSE LowerShortCircuit(LoadReference(e.target, reference.operands, reference.builder),
                         e.operator, e.right, <<e.target, reference.operands>>)

\* Every kind of expression.
DispatchExpression(e, b) ==
  CASE e.node = "Constant"    -> EmitConstant(b, e.detail)
    [] e.node = "Identifier"  -> LoadName(b, e.name)
    [] e.node = "Operator"    ->
         EmitOn(e.kind, LowerOperands(e.operands, [operands |-> <<>>, builder |-> b]))
    [] e.node = "Logical"     -> LowerShortCircuit(LowerExpression(e.left, b), e.operator, e.right, <<>>)
    [] e.node = "Conditional" -> LowerBranches(e, LowerExpression(e.test, b))
    [] e.node = "Sequence"    -> LowerExpression(e.right, LowerExpression(e.left, b))
    [] e.node = "Assignment"  -> LowerAssignment(e, LowerReference(e.target, b))
    [] e.node = "Update"      -> LowerUpdate(e, LowerReference(e.target, b))
    [] e.node = "Member"      -> LowerMemberRead(e, NoExit, b)
    [] e.node = "Call"        -> LowerCall(e, NoExit, b)
    [] e.node = "Chain"       -> LowerChain(e, b)
    [] e.node = "New"         -> LowerNew(e, LowerExpression(e.callee, b))
    [] e.node = "Template"    -> EmitTemplate(InRegions(<<e.substitution>>, b))
    [] e.node = "FunctionExpression" -> Emit(b, CreateFunctionOf, 1)

-----------------------------------------------------------------------------
(* Statements.                                                             *)

RECURSIVE LowerStatements(_, _)

\* What follows a statement that completes abruptly is not lowered.
LowerStatements(list, b) ==
  IF list = <<>> \/ IsTerminated(b) THEN b
  ELSE LowerStatements(Tail(list), LowerNode(Head(list), <<>>, b))

\* The statements in a block of their own that ends in a jump.
LowerArm(list, from, to, b) ==
  JumpUnlessTerminated(LowerStatements(list, SwitchTo(b, from)), to)

LastLabel(labels) == IF labels = <<>> THEN "" ELSE Last(labels)

\* The body of a loop that break leaves for exit and continue for next.
LowerLoopBody(s, labels, next, exit, b) ==
  JumpUnlessTerminated(Pop(LowerNode(s, <<>>, Push(b, Frame("Loop", labels, exit, next)))), next)

\* The arms of an if, after its test.
LowerArms(s, b) ==
  LET then       == NextBlock(b)
      arms       == 1 + Len(s.alternate)
      completion == then + arms
      branched   == TerminateIf(CreateBlocks(b, arms + 1), then, then + 1, completion)
      consequent == LowerArm(<<s.consequent>>, then, completion, branched)
  IN  SwitchTo(IF arms = 1 THEN consequent ELSE LowerArm(s.alternate, then + 1, completion, consequent),
               completion)

TerminateWhile(labels, test, body, exit, b) ==
  Terminate(b, [WhileOf(b.value, test, body, exit) EXCEPT !.detail = LastLabel(labels)])

TerminateDoWhile(labels, test, body, exit, b) ==
  Terminate(b, [DoWhileOf(b.value, test, body, exit) EXCEPT !.detail = LastLabel(labels)])

LowerWhile(s, labels, b) ==
  LET test   == NextBlock(b)
      body   == test + 1
      exit   == test + 2
      tested == TerminateWhile(labels, test, body, exit,
                  LowerExpression(s.test, EnterBlock(CreateBlocks(b, 3), test)))
  IN  SwitchTo(LowerLoopBody(s.body, labels, test, exit, SwitchTo(tested, body)), exit)

LowerDoWhile(s, labels, b) ==
  LET body   == NextBlock(b)
      test   == body + 1
      exit   == body + 2
      looped == LowerLoopBody(s.body, labels, test, exit, EnterBlock(CreateBlocks(b, 3), body))
  IN  SwitchTo(TerminateDoWhile(labels, test, body, exit, LowerExpression(s.test, SwitchTo(looped, test))),
               exit)

\* A var was initialized with the function: a declaration of it assigns.
LowerVariable(s, b) ==
  IF s.kind = "Var" THEN IF s.init = <<>> THEN b ELSE StoreIn(LowerExpression(s.init[1], b), s.name)
  ELSE InitializeIn(IF s.init = <<>> THEN EmitConstant(b, "undefined")
                    ELSE LowerExpression(s.init[1], b), s.name)

\* init is declarations or an expression.
LowerInitializer(b, s) == IF s.node = "Variable" THEN LowerVariable(s, b) ELSE LowerExpression(s, b)

LowerForTest(s, body, exit, b) ==
  IF s.test = <<>> THEN TerminateJump(b, body)
  ELSE TerminateIf(LowerExpression(s.test[1], b), body, exit, exit)

LowerForUpdate(s, b) == IF s.update = <<>> THEN b ELSE LowerExpression(s.update[1], b)

\* A for statement after its initializer, which began in block first.
LowerForHost(s, labels, first, b) ==
  LET host   == NextBlock(b)
      test   == host + 1
      body   == host + 2
      update == host + 3
      exit   == host + 4
      hosted == Terminate(EnterBlock(CreateBlocks(b, 5), host),
                          [ClassicalFor(test, {first, body, update, exit})
                             EXCEPT !.detail = LastLabel(labels),
                                    !.cases = <<<<"initializer", first>>, <<"body", body>>,
                                                <<"update", update>>, <<"exit", exit>>>>])
      tested == LowerForTest(s, body, exit, SwitchTo(hosted, test))
      looped == SwitchTo(LowerLoopBody(s.body, labels, update, exit, SwitchTo(tested, body)), update)
  IN  SwitchTo(TerminateJump(LowerForUpdate(s, looped), host), exit)

LowerFor(s, labels, b) ==
  LET first == NextBlock(b)
  IN  LowerForHost(s, labels, first,
        FoldLeft(LowerInitializer, EnterBlock(CreateBlocks(b, 1), first), s.init))

BindElement(s, b) == IF s.kind \in {"Let", "Const"} THEN InitializeIn(b, s.name) ELSE StoreIn(b, s.name)

TerminateForOf(iterable, labels, body, exit, b) ==
  TerminateThrowing(b, [ForOfOf(iterable, body, exit) EXCEPT !.detail = LastLabel(labels)])

\* A for-of statement after its iterable.
LowerElements(s, labels, b) ==
  LET header  == NextBlock(b)
      body    == header + 1
      exit    == header + 2
      created == AppendParameter(CreateBlocks(b, 3), body, Produced)
      bound   == BindElement(s, Leaving(SwitchTo(TerminateJump(created, header), body), NextValue(b)))
      looped  == LowerLoopBody(s.body, labels, header, exit, bound)
  IN  SwitchTo(TerminateForOf(b.value, labels, body, exit, SwitchTo(looped, header)), exit)

\* Nested labels belong to a loop or switch under them, or else to a labelled
\* statement of the function.
LowerLabeled(s, b) ==
  LET labels     == LabelsOf(s)
      inner      == Unlabelled(s)
      body       == NextBlock(b)
      completion == body + 1
      recorded   == CreateLabeledStatement(TerminateJump(CreateBlocks(b, 2), body),
                                           labels, body, completion)
      entered    == Push(SwitchTo(recorded, body), Frame("Labeled", labels, completion, None))
  IN  IF inner.node \in {"While", "DoWhile", "For", "ForOf", "Switch"}
      THEN LowerNode(inner, labels, b)
      ELSE SwitchTo(JumpUnlessTerminated(Pop(LowerNode(inner, <<>>, entered)), completion),
                    completion)

\* The tests of a switch: each is a region of its own.
LowerCaseTest(lowered, case) ==
  IF case.test = <<>> THEN [lowered EXCEPT !.tests = Append(@, 0)]
  ELSE LET r == Len(lowered.builder.function.regions) + 1
       IN  [tests   |-> Append(lowered.tests, r),
            builder |-> FinishRegion(LowerExpression(case.test[1], BeginRegion(lowered.builder)))]

TerminateSwitch(discriminant, labels, completion, lowered) ==
  LET cases == [i \in DOMAIN lowered.tests |-> <<lowered.tests[i], completion + i>>]
  IN  TerminateThrowing(lowered.builder,
        [SwitchOf(discriminant, cases, completion) EXCEPT !.detail = LastLabel(labels)])

\* A switch after its discriminant.  A case falls through to the next one.
LowerCases(s, labels, b) ==
  LET completion == NextBlock(b)
      n          == Len(s.cases)
      tested     == FoldLeft(LowerCaseTest, [builder |-> CreateBlocks(b, n + 1), tests |-> <<>>], s.cases)
      branched   == Push(TerminateSwitch(b.value, labels, completion, tested),
                         Frame("Switch", labels, completion, None))
      Body(c, i) == LowerArm(s.cases[i].body, completion + i,
                             IF i = n THEN completion ELSE completion + i + 1, c)
  IN  SwitchTo(Pop(FoldLeft(Body, branched, [i \in 1..n |-> i])), completion)

\* The end of a protected block.
CompleteNormally(hasFinally, completion, b) ==
  IF IsTerminated(b) THEN b
  ELSE IF hasFinally THEN TerminateNormal(b) ELSE TerminateJump(b, completion)

\* The body of a finally clause takes a completion and its handler, the block
\* exceptional, an exception.
ProtectByFinally(finalBody, exceptional, b) ==
  Push(CreateHandler(CreateBlocks(AppendParameter(CreateBlocks(b, 1), finalBody, Produced), 1), exceptional),
       CleanupFrame(exceptional, finalBody, NextValue(b)))

ProtectByCatch(caught, b) ==
  Push(b, [Frame("Catch", <<>>, None, None) EXCEPT !.handler = caught])

BindException(name, b) == IF name = "" THEN b ELSE InitializeIn(b, name)

\* What is protected, or the body of a clause.
LowerProtected(list, hasFinally, completion, b) ==
  CompleteNormally(hasFinally, completion, LowerStatements(list, b))

\* The catch clause, if there is one; exception is what it catches.
LowerCatch(s, caught, exception, completion, b) ==
  IF s.handler = <<>> THEN b
  ELSE LowerProtected(s.handler[1].body, s.finalizer # <<>>, completion,
         BindException(s.handler[1].name, Leaving(SwitchTo(Pop(b), caught), exception)))

\* The finally clause, after the frame it was on was left.
LowerFinally(s, finalBody, completion, b) ==
  ResumeFinally(LowerStatements(s.finalizer[1], SwitchTo(Pop(b), finalBody)), Last(b.frames), completion)

\* The exceptional way into the finally clause, if there is one, and the clause.
LowerFinalizer(s, completion, thrown, b) ==
  IF s.finalizer = <<>> THEN b
  ELSE LowerFinally(s, completion + 1, completion, TerminateException(SwitchTo(b, completion + 2), thrown))

LowerTry(s, b) ==
  LET hasCatch    == s.handler # <<>>
      hasFinally  == s.finalizer # <<>>
      completion  == NextBlock(b)
      finalBody   == completion + 1
      exceptional == completion + 2
      caught      == IF hasFinally THEN completion + 3 ELSE completion + 1
      tryBlock    == IF hasCatch THEN caught + 1 ELSE caught
      thrown      == NextValue(b) + 1
      exception   == IF hasFinally THEN NextValue(b) + 2 ELSE NextValue(b)
      roles       == (IF hasCatch THEN <<<<"catch", caught>>>> ELSE <<>>)
                     \o (IF hasFinally THEN <<<<"finally", finalBody>>, <<"exception", exceptional>>>>
                                       ELSE <<>>)
                     \o <<<<"completion", completion>>>>
      joined      == CreateBlocks(b, 1)
      protected   == IF hasFinally THEN ProtectByFinally(finalBody, exceptional, joined) ELSE joined
      opened      == IF hasCatch THEN CreateHandler(CreateBlocks(protected, 1), caught) ELSE protected
      entered     == SwitchTo(Terminate(CreateBlocks(opened, 1),
                       [TryOf(tryBlock, {r[2] : r \in ToSet(roles)}) EXCEPT !.cases = roles]), tryBlock)
      body        == LowerProtected(s.block, hasFinally, completion,
                       IF hasCatch THEN ProtectByCatch(caught, entered) ELSE entered)
  IN  SwitchTo(LowerFinalizer(s, completion, thrown, LowerCatch(s, caught, exception, completion, body)),
               completion)

LowerBreak(s, b) ==
  LET Accepts(frame) == IsTargetOfBreak(frame, s.label)
      i == SelectLastInSeq(b.frames, Accepts)
  IN  TerminateControl(b, <<"Break", b.frames[i].breakTo, i>>)

LowerContinue(s, b) ==
  LET Accepts(frame) == IsTargetOfContinue(frame, s.label)
      i == SelectLastInSeq(b.frames, Accepts)
  IN  TerminateControl(b, <<"Continue", b.frames[i].continueTo, i>>)

ThrowValue(b)  == TerminateThrow(b, b.value)
ReturnValue(b) == TerminateReturn(b, b.value)

\* Every kind of statement; labels are those right before it.
DispatchStatement(s, labels, b) ==
  CASE s.node = "Expression" -> LowerExpression(s.expression, b)
    [] s.node = "Block"      -> LowerStatements(s.body, b)
    [] s.node = "Variable"   -> LowerVariable(s, b)
    [] s.node = "If"         -> LowerArms(s, LowerExpression(s.test, b))
    [] s.node = "While"      -> LowerWhile(s, labels, b)
    [] s.node = "DoWhile"    -> LowerDoWhile(s, labels, b)
    [] s.node = "For"        -> LowerFor(s, labels, b)
    [] s.node = "ForOf"      -> LowerElements(s, labels, LowerExpression(s.right, b))
    [] s.node = "Labeled"    -> LowerLabeled(s, b)
    [] s.node = "Switch"     -> LowerCases(s, labels, LowerExpression(s.discriminant, b))
    [] s.node = "Try"        -> LowerTry(s, b)
    [] s.node = "Break"      -> LowerBreak(s, b)
    [] s.node = "Continue"   -> LowerContinue(s, b)
    [] s.node = "Throw"      -> ThrowValue(LowerExpression(s.argument, b))
    [] s.node = "Return"     -> ReturnValue(LowerExpression(s.argument, b))

ExpressionNodes ==
  {"Constant", "Identifier", "Operator", "Logical", "Conditional", "Sequence", "Assignment",
   "Update", "Member", "Call", "Chain", "New", "Template", "FunctionExpression"}

LowerNode(node, labels, b) ==
  IF node.node \in ExpressionNodes THEN DispatchExpression(node, b)
  ELSE DispatchStatement(node, labels, b)

-----------------------------------------------------------------------------
(* Functions.                                                              *)

\* Each var starts out as undefined.
InitializeVar(name, b) == InitializeIn(EmitConstant(b, "undefined"), name)

InitializeVars(b, names) == FoldSet(InitializeVar, b, names)

EndWithReturn(b) == Terminate(b, ReturnOf(b.value))

EnsureImplicitReturn(b) == IF IsTerminated(b) THEN b ELSE EndWithReturn(EmitConstant(b, "undefined"))

LowerFunctionBody(text) ==
  LET vars == {n \in DOMAIN text.bindings : text.bindings[n].kind = "Var"}
  IN  EnsureImplicitReturn(
        LowerStatements(text.body, InitializeVars(NewBuilder(text.bindings, text.entry), vars)))
=============================================================================
