--------------------------- MODULE FunctionBuilder ---------------------------
(***************************************************************************)
(* Building a function (crates/evrel-js-ir/src/function/builder.rs) while  *)
(* its source is lowered (crates/evrel-frontend/src/lower/function.rs and  *)
(* function/control.rs, function/completion.rs).                           *)
(*                                                                         *)
(* A builder is the function built so far with the insertion point: the    *)
(* current block and region, and the enclosing points while an expression  *)
(* region is built.  frames are the constructs that break, continue, throw *)
(* and return have to look at, the outermost first; value is what the last *)
(* expression evaluates to.  panicked says that an assertion failed.       *)
(*                                                                         *)
(* A function that is there from the start is written as a text, block by  *)
(* block, each with its region, its parameters, its operations and its     *)
(* terminator; Lowered gives operations their identities in that order and *)
(* fills in the use lists.  Values are numbered by the text.               *)
(***************************************************************************)
EXTENDS FunctionIr

-----------------------------------------------------------------------------
(* Operations.                                                             *)

Plain(kind, detail, operands, results) ==
  [kind |-> kind, inner |-> "", detail |-> detail, own |-> Len(operands), operands |-> operands,
   targets |-> <<>>, cases |-> <<>>, structural |-> {}, regions |-> {}, unwind |-> None,
   results |-> results]

\* Operations count the operands that are not forwarded as their own.
Constant(v, c)   == Plain("Constant", c, <<>>, <<v>>)
Unary(v, k, a)   == Plain(k, "", <<a>>, <<v>>)
Binary(v, k, a, b) == Plain(k, "", <<a, b>>, <<v>>)
CallOf(v, arguments) == Plain("Call", "", arguments, <<v>>)

\* A template literal: its substitutions are evaluated in region r.
Template(v, r) == [Plain("Template", "", <<>>, <<v>>) EXCEPT !.regions = {r}]

\* Operations whose results are numbered when they are appended.
LoadBindingOf(name)          == Plain("LoadBinding", name, <<>>, <<>>)
StoreBindingOf(name, v)      == Plain("StoreBinding", name, <<v>>, <<>>)
InitializeBindingOf(name, v) == Plain("InitializeBinding", name, <<v>>, <<>>)
LoadGlobalOf(name)           == Plain("LoadGlobal", name, <<>>, <<>>)
StoreGlobalOf(name, v)       == Plain("StoreGlobal", name, <<v>>, <<>>)
LoadPropertyOf(member)       == Plain("LoadProperty", "", member, <<>>)
StorePropertyOf(member, v)   == Plain("StoreProperty", "", Append(member, v), <<>>)
UpdateOf(v)                  == Plain("Update", "", <<v>>, <<>>)
IsNullishOf(v)               == Plain("IsNullish", "", <<v>>, <<>>)
CreateFunctionOf             == Plain("CreateFunction", "", <<>>, <<>>)

\* receiver is "" for a call of a value, "Receiver" for one with a receiver, and
\* "Method" for one of a member; the arguments are evaluated in regions.
CallWithRegions(receiver, operands, regions) ==
  [Plain("Call", receiver, operands, <<>>) EXCEPT !.regions = regions]
ConstructOf(constructor, regions) ==
  [Plain("Construct", "", <<constructor>>, <<>>) EXCEPT !.regions = regions]
TemplateOf(regions) == [Plain("Template", "", <<>>, <<>>) EXCEPT !.regions = regions]

\* A target is <<block, arguments>>; produced counts what the operation adds.
Branch(kind, own, targets, produced, structural) ==
  [Plain(kind, "", own, <<>>) EXCEPT
     !.operands = own \o FlattenSeq([i \in DOMAIN targets |-> targets[i][2]]),
     !.targets = [i \in DOMAIN targets |->
        [block |-> targets[i][1], count |-> Len(targets[i][2]), produced |-> produced[i]]],
     !.structural = structural]

JumpTo(b, arguments)  == Branch("Jump", <<>>, <<<<b, arguments>>>>, <<0>>, {})
IfOf(v, t, e, completion) == Branch("If", <<v>>, <<t, e>>, <<0, 0>>, {completion})
WhileOf(v, test, body, exit) ==
  Branch("While", <<v>>, <<<<body, <<>>>>, <<exit, <<>>>>>>, <<0, 0>>, {test})
ClassicalFor(test, phases)   == Branch("For", <<>>, <<<<test, <<>>>>>>, <<0>>, phases)
TryOf(body, others)   == Branch("Try", <<>>, <<<<body, <<>>>>>>, <<0>>, others)
DoWhileOf(v, test, body, exit) ==
  Branch("DoWhile", <<v>>, <<<<body, <<>>>>, <<exit, <<>>>>>>, <<0, 0>>, {test})
ForOfOf(iterable, body, exit) ==
  Branch("ForOf", <<iterable>>, <<<<body, <<>>>>, <<exit, <<>>>>>>, <<1, 0>>, {})

\* cases pair the region of a test, or 0 for default, with its block; without a
\* default nothing may match, and control goes to completion.
SwitchOf(discriminant, cases, completion) ==
  LET hasDefault == \E i \in DOMAIN cases : cases[i][1] = 0
      tests      == [i \in DOMAIN cases |->
                       IF cases[i][1] = 0 THEN <<"default", 0>> ELSE <<"test", cases[i][1]>>]
      targets    == [i \in DOMAIN cases |-> <<cases[i][2], <<>>>>]
                    \o (IF hasDefault THEN <<>> ELSE <<<<completion, <<>>>>>>)
  IN  [Branch("Switch", <<discriminant>>, targets, [i \in DOMAIN targets |-> 0], {completion})
         EXCEPT !.cases   = tests \o (IF hasDefault THEN <<>> ELSE <<<<"no match", 0>>>>),
                !.regions = {cases[i][1] : i \in DOMAIN cases} \ {0}]

\* op with a block for its results and one for its exception.
InvokeWith(op, results, normal, handler) ==
  [Branch("Invoke", op.operands, <<<<normal, <<>>>>, <<handler, <<>>>>>>, <<results, 1>>, {})
     EXCEPT !.inner = op.kind, !.detail = op.detail, !.regions = op.regions]
InvokeOf(normal, handler) == InvokeWith(CallOf(1, <<>>), 1, normal, handler)

\* Completions that wait for a finally clause: payload is what they carry, and
\* carried how many values each of those that resume does.
EnterFinallyOf(completion, payload, entry) ==
  [Branch("EnterFinally", payload, <<<<entry, <<>>>>>>, <<1>>, {}) EXCEPT !.cases = <<completion>>]
ResumeOf(completion, cases, blocks, carried) ==
  [Branch("ResumeCompletion", <<completion>>, [i \in DOMAIN blocks |-> <<blocks[i], <<>>>>], carried, {})
     EXCEPT !.cases = cases]
ThrowTo(v, handler)   == Branch("Throw", <<v>>, <<<<handler, <<>>>>>>, <<1>>, {})
ReturnOf(v)           == Plain("Return", "", <<v>>, <<>>)
YieldOf(v)            == Plain("RegionYield", "", <<v>>, <<>>)

-----------------------------------------------------------------------------
(* Blocks and functions.                                                   *)

NoBindings == [name \in {} |-> [kind |-> "Var", captured |-> FALSE, visible |-> FALSE]]

BlockText(r, parameters, contents, terminator) ==
  [region |-> r, parameters |-> parameters, contents |-> contents, terminator |-> terminator]

Takes(v)           == [source |-> Forwarded, value |-> v]
TakesResult(v)     == [source |-> Produced, value |-> v]
TakesException(v)  == [source |-> Exception, value |-> v]

\* Where the blocks of a text have their first operation.
FirstOperation(text) ==
  LET f[b \in 1..(Len(text) + 1)] ==
        IF b = 1 THEN 1 ELSE f[b - 1] + Len(text[b - 1].contents) + 1
  IN  f

InBlock(b, op) ==
  [block |-> b, kind |-> op.kind, inner |-> op.inner, detail |-> op.detail, own |-> op.own,
   operands |-> op.operands, targets |-> op.targets, cases |-> op.cases,
   structural |-> op.structural, regions |-> op.regions, unwind |-> op.unwind,
   results |-> op.results]

OperationsIn(text) ==
  FlattenSeq([b \in DOMAIN text |->
    LET operations == Append(text[b].contents, text[b].terminator)
    IN  [k \in DOMAIN operations |-> InBlock(b, operations[k])]])

FunctionParameters(parameters) ==
  {<<v, [kind |-> "FunctionParameter"]>> : v \in parameters}

BlockParameters(text) ==
  UNION {{<<text[b].parameters[k].value, [kind |-> "BlockParameter", block |-> b, index |-> k]>> :
            k \in DOMAIN text[b].parameters} : b \in DOMAIN text}

OperationResults(operations) ==
  UNION {{<<operations[o].results[k], [kind |-> "OperationResult", operation |-> o, index |-> k]>> :
            k \in DOMAIN operations[o].results} : o \in DOMAIN operations}

AsFunction(pairs) == [v \in {p[1] : p \in pairs} |-> (CHOOSE p \in pairs : p[1] = v)[2]]

UsesOf(operations, values) ==
  [v \in values |-> UNION {{<<o, i>> : i \in {j \in DOMAIN operations[o].operands :
                                                operations[o].operands[j] = v}} :
                             o \in DOMAIN operations}]

Lowered(text, parameters, roots, handlers, labels) ==
  LET operations == OperationsIn(text)
      first      == FirstOperation(text)
      values     == AsFunction(FunctionParameters(parameters) \cup BlockParameters(text)
                                 \cup OperationResults(operations))
  IN  [regions |-> [r \in {text[b].region : b \in DOMAIN text} |->
                      SelectSeq([b \in DOMAIN text |-> b], LAMBDA b : text[b].region = r)],
       body |-> 1, roots |-> roots,
       blocks |-> [b \in DOMAIN text |->
          [region |-> text[b].region, parameters |-> text[b].parameters,
           contents |-> [k \in DOMAIN text[b].contents |-> first[b] + k - 1],
           terminator |-> first[b + 1] - 1]],
       operations |-> operations, values |-> values,
       uses |-> UsesOf(operations, DOMAIN values),
       handlers |-> handlers, labels |-> labels, bindings |-> NoBindings]

-----------------------------------------------------------------------------
(* Builders.                                                               *)

NewBuilder(bindings, entry) ==
  [function |-> [entry |-> entry, regions |-> <<<<1>>>>, body |-> 1, roots |-> {},
                 blocks |-> <<BlockText(1, <<>>, <<>>, None)>>,
                 operations |-> <<>>, values |-> <<>>, uses |-> <<>>,
                 handlers |-> {}, labels |-> {}, statements |-> {},
                 bindings |-> bindings],
   region |-> 1, block |-> 1, enclosing |-> <<>>, frames |-> <<>>, value |-> None,
   panicked |-> FALSE]

Require(b, condition) == [b EXCEPT !.panicked = @ \/ ~ condition]

-----------------------------------------------------------------------------
(* Blocks and their parameters.                                            *)

\* The blocks that are created next have these identities.
NextBlock(b) == Len(b.function.blocks) + 1
NextValue(b) == Len(b.function.values) + 1

CreateBlocks(b, n) ==
  [b EXCEPT
     !.function.blocks = @ \o [i \in 1..n |-> BlockText(b.region, <<>>, <<>>, None)],
     !.function.regions = [@ EXCEPT ![b.region] = @ \o [i \in 1..n |-> NextBlock(b) + i - 1]]]

InCurrentRegion(b, block) ==
  block \in DOMAIN b.function.blocks /\ b.function.blocks[block].region = b.region

SwitchTo(b, block) == [Require(b, InCurrentRegion(b, block)) EXCEPT !.block = block]

IsTerminated(b) == b.function.blocks[b.block].terminator # None

\* The new parameter is the builder's value.
AppendParameter(b, block, source) ==
  LET v         == NextValue(b)
      parameter == [source |-> source, value |-> v]
      index     == Len(b.function.blocks[block].parameters) + 1
  IN  [Require(b, InCurrentRegion(b, block)) EXCEPT
         !.function.blocks[block].parameters = Append(@, parameter),
         !.function.values = Append(@, [kind |-> "BlockParameter", block |-> block, index |-> index]),
         !.function.uses   = Append(@, {}),
         !.value = v]

-----------------------------------------------------------------------------
(* Operations.                                                             *)

\* What a terminator hands to its i-th successor fits the parameters that the
\* target has so far.
FitsSuccessor(b, op, i) ==
  LET parameters == b.function.blocks[op.targets[i].block].parameters
      produced   == op.targets[i].produced
  IN  /\ Len(parameters) = produced + op.targets[i].count
      /\ \A k \in DOMAIN parameters :
           parameters[k].source = IF k <= produced THEN ProducedSource(op, i) ELSE Forwarded

OwnedRegions(f) == UNION {f.operations[o].regions : o \in DOMAIN f.operations}

ValidReferences(b, op) ==
  /\ \A i \in DOMAIN op.targets : InCurrentRegion(b, op.targets[i].block) /\ FitsSuccessor(b, op, i)
  /\ \A s \in op.structural : InCurrentRegion(b, s)
  /\ op.regions \cap OwnedRegions(b.function) = {}
  /\ op.kind \in {"While", "DoWhile"} => b.block \notin {op.targets[1].block, op.targets[2].block}
  /\ op.kind = "For" => b.block \notin op.structural \cup {op.targets[1].block}
  /\ op.kind = "RegionYield" => b.region # b.function.body /\ Len(op.operands) = 1
  /\ op.kind = "Return" => b.region = b.function.body

\* The operation o, which produces count values, with its uses.
Allocated(b, op, count) ==
  LET o       == Len(b.function.operations) + 1
      results == [k \in 1..count |-> NextValue(b) + k - 1]
      read    == [v \in DOMAIN b.function.uses |->
                    b.function.uses[v] \cup ({o} \X {i \in DOMAIN op.operands : op.operands[i] = v})]
  IN  [Require(b, ~ IsTerminated(b) /\ ValidReferences(b, op)) EXCEPT
         !.function.operations = Append(@, InBlock(b.block, [op EXCEPT !.results = results])),
         !.function.values = @ \o [k \in 1..count |->
                               [kind |-> "OperationResult", operation |-> o, index |-> k]],
         !.function.uses = read \o [k \in 1..count |-> {}],
         !.value = IF count = 0 THEN @ ELSE results[1]]

AppendOperation(b, op, count) ==
  [Allocated(b, op, count) EXCEPT
     !.function.blocks[b.block].contents = Append(@, Len(b.function.operations) + 1)]

Terminate(b, op) ==
  [Allocated(b, op, 0) EXCEPT
     !.function.blocks[b.block].terminator = Len(b.function.operations) + 1]

-----------------------------------------------------------------------------
(* Expression regions.                                                     *)

BeginRegion(b) ==
  LET r == Len(b.function.regions) + 1
  IN  [b EXCEPT !.function.regions = Append(@, <<NextBlock(b)>>),
                !.function.blocks = Append(@, BlockText(r, <<>>, <<>>, None)),
                !.enclosing = Append(@, <<b.region, b.block>>),
                !.region = r, !.block = NextBlock(b)]

FinishRegion(b) ==
  LET yielded == Terminate(b, YieldOf(b.value))
      point   == Last(b.enclosing)
  IN  [yielded EXCEPT !.enclosing = Front(@), !.region = point[1], !.block = point[2]]

-----------------------------------------------------------------------------
(* Frames.                                                                 *)

\* A loop, a switch, a labelled statement, the block of a try with a catch
\* clause, or the part of a try that a finally clause protects.  handler is the
\* block that takes exceptions; entry, completion and continuations are those
\* of the finally clause.
Frame(kind, labels, breakTo, continueTo) ==
  [kind |-> kind, labels |-> ToSet(labels), breakTo |-> breakTo, continueTo |-> continueTo,
   handler |-> None, entry |-> None, completion |-> None, continuations |-> <<>>]

Push(b, frame) == [b EXCEPT !.frames = Append(@, frame)]
Pop(b)         == [b EXCEPT !.frames = Front(@)]

\* MUTANT: a break in a switch goes to the loop around it.
LoopOfBreak(frame, label) ==
  IF label = "" THEN frame.kind = "Loop" ELSE label \in frame.labels

IsTargetOfBreak(frame, label) ==
  IF label = "" THEN frame.kind \in {"Loop", "Switch"} ELSE label \in frame.labels

IsTargetOfContinue(frame, label) ==
  frame.kind = "Loop" /\ (label = "" \/ label \in frame.labels)

\* The handler of the region that is being built: an expression region inside a
\* try has none, its owner takes the exception.
LocalExceptionEntry(b) ==
  LET Handles(frame) == frame.handler # None /\ InCurrentRegion(b, frame.handler)
      i == SelectLastInSeq(b.frames, Handles)
  IN  IF i = 0 THEN None ELSE b.frames[i].handler

CreateHandler(b, entry) ==
  [AppendParameter(Require(b, b.function.blocks[entry].parameters = <<>>), entry, Exception)
     EXCEPT !.function.handlers = @ \cup {entry}]

\* body and completion are the blocks of the statement that labels name.
CreateLabeledStatement(b, labels, body, completion) ==
  [Require(b, InCurrentRegion(b, body) /\ InCurrentRegion(b, completion))
     EXCEPT !.function.labels = @ \cup {body, completion},
            !.function.statements = @ \cup {[body |-> body, completion |-> completion,
                                             labels |-> labels]}]

-----------------------------------------------------------------------------
(* Emitting operations.                                                    *)

MayThrowKinds ==
  {"LoadGlobal", "StoreGlobal", "LoadBinding", "StoreBinding", "LoadProperty", "StoreProperty",
   "Plus", "LessThan", "Update", "Call", "Construct", "Template"}

EmitInvoke(b, op, count, handler) ==
  LET normal  == NextBlock(b)
      params[n \in 0..count] ==
        IF n = 0 THEN CreateBlocks(b, 1) ELSE AppendParameter(params[n - 1], normal, Produced)
  IN  SwitchTo(Terminate(params[count], InvokeWith(op, count, normal, handler)), normal)

EmitUnder(handler, b, op, count) ==
  IF handler = None \/ op.kind \notin MayThrowKinds THEN AppendOperation(b, op, count)
  ELSE EmitInvoke(b, op, count, handler)

\* An operation that may throw inside a try ends its block.
Emit(b, op, count) == EmitUnder(LocalExceptionEntry(b), b, op, count)

EmitConstant(b, c) == Emit(b, Plain("Constant", c, <<>>, <<>>), 1)

TerminateJump(b, block) == Terminate(b, JumpTo(block, <<>>))

JumpUnlessTerminated(b, block) == IF IsTerminated(b) THEN b ELSE TerminateJump(b, block)

\* A terminator that may throw although it names no handler.
TerminateThrowing(b, op) == Terminate(b, [op EXCEPT !.unwind = LocalExceptionEntry(b)])

TerminateThrow(b, v) ==
  LET handler == LocalExceptionEntry(b)
  IN  Terminate(b, IF handler = None THEN Plain("Throw", "", <<v>>, <<>>) ELSE ThrowTo(v, handler))

-----------------------------------------------------------------------------
(* Completions that cross finally clauses.  A completion is its kind and,  *)
(* for break and continue, the block and the frame it goes to.             *)

NormalCompletion == <<"Normal", None, 0>>
ReturnCompletion == <<"Return", None, 0>>
ThrowCompletion  == <<"Throw", None, 0>>

\* What the intermediate representation keeps of a completion.
IrKind(completion) == <<completion[1], completion[2]>>

CleanupFrame(handler, entry, completion) ==
  [Frame("Cleanup", <<>>, None, None) EXCEPT
     !.handler = handler, !.entry = entry, !.completion = completion,
     !.continuations = <<NormalCompletion, ThrowCompletion>>]

EnterFinally(b, i, completion, payload) ==
  LET registered == [b.frames[i] EXCEPT
        !.continuations = IF completion \in ToSet(@) THEN @ ELSE Append(@, completion)]
  IN  Terminate([b EXCEPT !.frames[i] = registered],
                EnterFinallyOf(IrKind(completion), payload, b.frames[i].entry))

InnermostCleanup(b) == LET IsCleanup(frame) == frame.kind = "Cleanup" IN SelectLastInSeq(b.frames, IsCleanup)

TerminateNormal(b)       == EnterFinally(b, InnermostCleanup(b), NormalCompletion, <<>>)
TerminateException(b, v) == EnterFinally(b, InnermostCleanup(b), ThrowCompletion, <<v>>)

TerminateReturn(b, v) ==
  LET i == InnermostCleanup(b)
  IN  IF i = 0 THEN Terminate(b, ReturnOf(v)) ELSE EnterFinally(b, i, ReturnCompletion, <<v>>)

\* MUTANT: a break or continue goes straight to its target.
JumpPastFinally(b, completion) == TerminateJump(b, completion[2])

\* break and continue enter the innermost finally clause between them and
\* their target.
TerminateControl(b, completion) ==
  LET i == InnermostCleanup(b)
  IN  IF i > completion[3] THEN EnterFinally(b, i, completion, <<>>)
      ELSE TerminateJump(b, completion[2])

\* The end of a finally clause: every completion that entered it goes on.
ResumeFinally(b, frame, normal) ==
  LET cases   == frame.continuations
      bridges == {i \in DOMAIN cases : cases[i] # NormalCompletion}
      bridge[i \in DOMAIN cases] ==
        IF cases[i] = NormalCompletion THEN normal
        ELSE NextBlock(b) + Cardinality({j \in bridges : j < i})
      carried == [i \in DOMAIN cases |-> IF cases[i][1] \in {"Return", "Throw"} THEN 1 ELSE 0]
      created[n \in 0..Len(cases)] ==
        IF n = 0 THEN b
        ELSE IF n \notin bridges THEN created[n - 1]
        ELSE IF carried[n] = 0 THEN CreateBlocks(created[n - 1], 1)
        ELSE AppendParameter(CreateBlocks(created[n - 1], 1), bridge[n], Produced)
      resume  == ResumeOf(frame.completion, [i \in DOMAIN cases |-> IrKind(cases[i])], bridge, carried)
      goOn[n \in 0..Len(cases)] ==
        IF n = 0 THEN Terminate(created[Len(cases)], resume)
        ELSE IF n \notin bridges THEN goOn[n - 1]
        ELSE LET at == SwitchTo(goOn[n - 1], bridge[n])
                 v  == at.function.blocks[bridge[n]].parameters[1].value
             IN  CASE cases[n][1] = "Return" -> TerminateReturn(at, v)
                   [] cases[n][1] = "Throw"  -> TerminateThrow(at, v)
                   [] OTHER                  -> TerminateControl(at, cases[n])
  IN  IF IsTerminated(b) THEN b ELSE goOn[Len(cases)]
=============================================================================
