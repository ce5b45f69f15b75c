------------------------------- MODULE Syntax -------------------------------
(***************************************************************************)
(* The JavaScript that is compiled, as the parser (the oxc crates, outside *)
(* src/) hands it to the frontend, and as the web backend prints it.       *)
(*                                                                         *)
(* Expressions and statements are records with a node, of the kinds that   *)
(* the frontend treats differently; operators have one representative each *)
(* (FunctionValues).  Names stand for resolved symbols, so no two bindings *)
(* of a text share one; a name that no binding has is a global.            *)
(* A text is the body of one function with the bindings it declares; a     *)
(* binding that is captured is also referred to by another function.  The  *)
(* body of a module's entry function is marked as such.                    *)
(***************************************************************************)
EXTENDS Naturals, Sequences

-----------------------------------------------------------------------------
(* Expressions.                                                            *)

Const(c)           == [node |-> "Constant", detail |-> c]
Name(name)         == [node |-> "Identifier", name |-> name]
Apply1(kind, a)    == [node |-> "Operator", kind |-> kind, operands |-> <<a>>]
Apply2(kind, a, b) == [node |-> "Operator", kind |-> kind, operands |-> <<a, b>>]
And(a, b)          == [node |-> "Logical", operator |-> "And", left |-> a, right |-> b]
Or(a, b)           == [node |-> "Logical", operator |-> "Or", left |-> a, right |-> b]
Coalesce(a, b)     == [node |-> "Logical", operator |-> "Coalesce", left |-> a, right |-> b]
IfElse(c, a, b)    == [node |-> "Conditional", test |-> c, consequent |-> a, alternate |-> b]
Comma(a, b)        == [node |-> "Sequence", left |-> a, right |-> b]
Template1(a)       == [node |-> "Template", substitution |-> a]
Lambda             == [node |-> "FunctionExpression"]

\* o.p and o[k].
Dot(o)             == [node |-> "Member", object |-> o, key |-> <<>>, optional |-> FALSE]
At(o, k)           == [node |-> "Member", object |-> o, key |-> <<k>>, optional |-> FALSE]

\* target = e, target &&= e and so on, where the target is a name or a member.
AssignTo(operator, target, e) ==
  [node |-> "Assignment", operator |-> operator, target |-> target, right |-> e]
Assigned(operator, name, e) == AssignTo(operator, Name(name), e)
Assign(name, e)    == Assigned("Assign", name, e)

\* ++target and target++.
Update(prefix, target) == [node |-> "Update", prefix |-> prefix, target |-> target]

CallWith(f, arguments) ==
  [node |-> "Call", callee |-> f, arguments |-> arguments, optional |-> FALSE]
CallTo(name)       == CallWith(Name(name), <<>>)
New(f, arguments)  == [node |-> "New", callee |-> f, arguments |-> arguments]

\* o?.p and f?.(), anywhere in a chain.
Optional(e)        == [e EXCEPT !.optional = TRUE]
Chain(e)           == [node |-> "Chain", expression |-> e]

\* Function.prototype.call.call(f, receiver, ...)
CallOn(f, receiver, arguments) ==
  [node |-> "CallOn", callee |-> f, receiver |-> receiver, arguments |-> arguments]

\* [a, b, c][0]
FirstOf(list)      == [node |-> "FirstOf", operands |-> list]

-----------------------------------------------------------------------------
(* Statements.                                                             *)

Do(e)              == [node |-> "Expression", expression |-> e]
Block(list)        == [node |-> "Block", body |-> list]
When(c, s)         == [node |-> "If", test |-> c, consequent |-> s, alternate |-> <<>>]
WhenElse(c, s, t)  == [node |-> "If", test |-> c, consequent |-> s, alternate |-> <<t>>]
WhileDo(c, s)      == [node |-> "While", test |-> c, body |-> s]
DoWhile(s, c)      == [node |-> "DoWhile", test |-> c, body |-> s]
Labelled(label, s) == [node |-> "Labeled", label |-> label, body |-> s]
Throw(e)           == [node |-> "Throw", argument |-> e]
Return(e)          == [node |-> "Return", argument |-> e]
BreakTo(label)     == [node |-> "Break", label |-> label]
ContinueTo(label)  == [node |-> "Continue", label |-> label]
Break              == BreakTo("")
Continue           == ContinueTo("")

\* var x, let x, or with an initializer.
Declare(kind, name, init) == [node |-> "Variable", kind |-> kind, name |-> name, init |-> init]
Var(name, e)       == Declare("Var", name, <<e>>)
Let(name, e)       == Declare("Let", name, <<e>>)

\* for (init; test; update) s, where each of the three may be left out; init is
\* declarations of one kind, or one expression.
ForDo(init, test, update, s) ==
  [node |-> "For", init |-> init, test |-> test, update |-> update, body |-> s]

\* for (kind name of e) s; kind "" assigns a binding that exists.
ForOfDo(kind, name, e, s) ==
  [node |-> "ForOf", kind |-> kind, name |-> name, right |-> e, body |-> s]

\* A case is [test, body]; default has no test.
Case(e, list)      == [test |-> <<e>>, body |-> list]
Default(list)      == [test |-> <<>>, body |-> list]
SwitchOn(e, cases) == [node |-> "Switch", discriminant |-> e, cases |-> cases]

\* The catch clause, if any, has the name of its parameter, "" for none.
Try(body, handler, finalizer) ==
  [node |-> "Try", block |-> body, handler |-> handler, finalizer |-> finalizer]
Catch(name, list)  == <<[name |-> name, body |-> list]>>
Finally(list)      == <<list>>

-----------------------------------------------------------------------------
(* Texts.                                                                  *)

Text(bindings, body) == [bindings |-> bindings, entry |-> FALSE, body |-> body]

\* The top level of a module, which does not return.
ModuleText(bindings, body) == [bindings |-> bindings, entry |-> TRUE, body |-> body]

\* Bindings from <<name, kind, captured>>; visible are those that code outside
\* the function can read and write.
Bindings(declared) ==
  [name \in {d[1] : d \in declared} |->
     LET d == CHOOSE x \in declared : x[1] = name
     IN  [kind |-> d[2], captured |-> d[3], visible |-> d[3]]]

\* A direct eval sees all of them.
SeenByEval(bindings) == [name \in DOMAIN bindings |-> [bindings[name] EXCEPT !.visible = TRUE]]

\* The labels of nested labelled statements, and the statement they label.
RECURSIVE LabelsOf(_), Unlabelled(_)
LabelsOf(s)   == IF s.node = "Labeled" THEN <<s.label>> \o LabelsOf(s.body) ELSE <<>>
Unlabelled(s) == IF s.node = "Labeled" THEN Unlabelled(s.body) ELSE s
=============================================================================
