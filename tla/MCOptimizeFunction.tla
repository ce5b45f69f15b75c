------------------------- MODULE MCOptimizeFunction -------------------------
(***************************************************************************)
(* The passes over one function, and the functions that are optimised: one *)
(* shape for each kind of statement that the frontend lowers to several    *)
(* blocks, with the expressions in it left open.  The blocks, their order  *)
(* and their structural roles are those of crates/evrel-frontend/src/lower/*)
(* after SSA promotion of the local variables; X is a parameter of the     *)
(* function.                                                               *)
(***************************************************************************)
EXTENDS OptimizationCorrectness, FunctionBuilder

X == 90

\* The operations that compute v, an expression of the given form over x.
Expression(v, form, x) ==
  CASE form = "call"    -> <<CallOf(v, <<>>)>>
    [] form = "not"     -> <<Unary(v, "Not", x)>>
    [] form = "not not" -> <<Unary(v + 50, "Not", x), Unary(v, "Not", v + 50)>>
    [] form = "plus"    -> <<Unary(v, "Plus", x)>>
    [] form = "equal"   -> <<Binary(v, "StrictEqual", x, x)>>
    [] form = "less"    -> <<Binary(v, "LessThan", x, x)>>
    [] OTHER            -> <<Constant(v, form)>>

Function(text) == Lowered(text, {X}, {}, {}, {})

Goto(b) == <<b, <<>>>>

\* return u(c ? a : b)
Conditional(c, a, b, u) == Function(<<
  BlockText(1, <<>>, Expression(1, c, X), IfOf(1, Goto(2), Goto(3), 4)),
  BlockText(1, <<>>, Expression(2, a, X), JumpTo(4, <<2>>)),
  BlockText(1, <<>>, Expression(3, b, X), JumpTo(4, <<3>>)),
  BlockText(1, <<Takes(4)>>, Expression(5, u, 4), ReturnOf(5))>>)

\* return u(c && a)
LogicalAnd(c, a, u) == Function(<<
  BlockText(1, <<>>, Expression(1, c, X), IfOf(1, Goto(2), <<3, <<1>>>>, 3)),
  BlockText(1, <<>>, Expression(2, a, 1), JumpTo(3, <<2>>)),
  BlockText(1, <<Takes(3)>>, Expression(4, u, 3), ReturnOf(4))>>)

\* return c ? (d ? a : call()) : b, the completion of the inner one only
\* forwards to that of the outer; twice says whether it does so with two
\* values, of which the outer one takes them in the other order
Nested(c, d, a, twice) == Function(<<
  BlockText(1, <<>>, Expression(1, c, X), IfOf(1, Goto(2), Goto(6), 7)),
  BlockText(1, <<>>, Expression(2, d, X), IfOf(2, Goto(3), Goto(4), 5)),
  BlockText(1, <<>>, Expression(3, a, X), JumpTo(5, IF twice THEN <<3, X>> ELSE <<3>>)),
  BlockText(1, <<>>, Expression(4, "call", X), JumpTo(5, IF twice THEN <<4, 4>> ELSE <<4>>)),
  BlockText(1, IF twice THEN <<Takes(5), Takes(6)>> ELSE <<Takes(5)>>, <<>>,
            JumpTo(7, IF twice THEN <<6, 5>> ELSE <<5>>)),
  BlockText(1, <<>>, Expression(7, "true", X), JumpTo(7, IF twice THEN <<7, X>> ELSE <<7>>)),
  BlockText(1, IF twice THEN <<Takes(8), Takes(9)>> ELSE <<Takes(8)>>,
            <<CallOf(10, IF twice THEN <<9, 8>> ELSE <<8>>)>>, ReturnOf(8))>>)

\* if (c) { call(); return X } else { return c } call(); return X
BothReturn(c) == Function(<<
  BlockText(1, <<>>, Expression(1, c, X), IfOf(1, Goto(2), Goto(3), 4)),
  BlockText(1, <<>>, <<CallOf(2, <<1>>)>>, ReturnOf(X)),
  BlockText(1, <<>>, <<>>, ReturnOf(1)),
  BlockText(1, <<>>, <<CallOf(3, <<>>)>>, ReturnOf(X))>>)

\* p = i; q = X; while (c(p)) { call(p, q); p = n(p) } return q, with q or
\* without; "keep" assigns p to itself
While(i, c, n, two) ==
  LET Both(p) == IF two THEN <<X, p>> ELSE <<p>>
  IN  Function(<<
  BlockText(1, <<>>, Expression(1, i, X), JumpTo(2, Both(1))),
  BlockText(1, IF two THEN <<Takes(8), Takes(2)>> ELSE <<Takes(2)>>, Expression(3, c, 2),
            WhileOf(3, 2, 3, 4)),
  BlockText(1, <<>>, <<CallOf(4, <<2>>)>> \o (IF n = "keep" THEN <<>> ELSE Expression(5, n, 2)),
            JumpTo(2, LET p == IF n = "keep" THEN 2 ELSE 5 IN IF two THEN <<8, p>> ELSE <<p>>)),
  BlockText(1, <<>>, <<>>, ReturnOf(IF two THEN 8 ELSE 2))>>)

\* while (a && b) call()
ShortCircuitLoop(a, b) == Function(<<
  BlockText(1, <<>>, <<>>, JumpTo(2, <<>>)),
  BlockText(1, <<>>, Expression(1, a, X), IfOf(1, Goto(3), <<4, <<1>>>>, 4)),
  BlockText(1, <<>>, Expression(2, b, X), JumpTo(4, <<2>>)),
  BlockText(1, <<Takes(3)>>, <<>>, WhileOf(3, 2, 5, 6)),
  BlockText(1, <<>>, <<CallOf(4, <<>>)>>, JumpTo(2, <<>>)),
  BlockText(1, <<>>, <<>>, ReturnOf(X))>>)

\* p = i; while (true) { if (c) break; p = n(p) } return p
BreakingLoop(i, c, n) == Function(<<
  BlockText(1, <<>>, Expression(1, i, X), JumpTo(2, <<1>>)),
  BlockText(1, <<Takes(2)>>, <<Constant(3, "true")>>,
            Branch("While", <<3>>, <<Goto(3), <<4, <<2>>>>>>, <<0, 0>>, {2})),
  BlockText(1, <<>>, Expression(4, c, 2), IfOf(4, Goto(5), Goto(6), 6)),
  BlockText(1, <<Takes(5)>>, <<>>, ReturnOf(5)),
  BlockText(1, <<>>, <<>>, JumpTo(4, <<2>>)),
  BlockText(1, <<>>, Expression(6, n, 2), JumpTo(2, <<6>>))>>)

\* for (p = i; c(p); p = n(p)) call(p); return p
For(i, c, n) == Function(<<
  BlockText(1, <<>>, <<>>, JumpTo(2, <<>>)),
  BlockText(1, <<>>, Expression(1, i, X), JumpTo(3, <<1>>)),
  BlockText(1, <<Takes(2)>>, <<>>, ClassicalFor(4, {2, 5, 6, 7})),
  BlockText(1, <<>>, Expression(3, c, 2), IfOf(3, Goto(5), Goto(7), 7)),
  BlockText(1, <<>>, <<CallOf(4, <<2>>)>>, JumpTo(6, <<>>)),
  BlockText(1, <<>>, Expression(5, n, 2), JumpTo(3, <<5>>)),
  BlockText(1, <<>>, <<>>, ReturnOf(2))>>)

\* L: { if (c) break L; call() } return X
Labelled(c) == Lowered(<<
  BlockText(1, <<>>, <<>>, JumpTo(2, <<>>)),
  BlockText(1, <<>>, Expression(1, c, X), IfOf(1, Goto(4), Goto(5), 5)),
  BlockText(1, <<>>, <<>>, ReturnOf(X)),
  BlockText(1, <<>>, <<>>, JumpTo(3, <<>>)),
  BlockText(1, <<>>, <<CallOf(2, <<>>)>>, JumpTo(3, <<>>))>>, {X}, {}, {}, {2, 3})

\* p = i; try { p = call() } catch (e) { call(e, p) } return p, or with a
\* throw of the constant i in the place of the call
Try(i, throws) == Lowered(<<
  BlockText(1, <<>>, Expression(1, i, X), TryOf(2, {4, 5})),
  BlockText(1, <<>>, <<>>, IF throws THEN ThrowTo(1, 4) ELSE InvokeOf(3, 4)),
  BlockText(1, IF throws THEN <<>> ELSE <<TakesResult(2)>>, <<>>, JumpTo(5, <<IF throws THEN 1 ELSE 2>>)),
  BlockText(1, <<TakesException(3)>>, <<CallOf(4, <<3, 1>>)>>, JumpTo(5, <<1>>)),
  BlockText(1, <<Takes(5)>>, <<>>, ReturnOf(5))>>, {X}, {}, {4}, {})

\* if (c) { try { call() } catch (e) { call(e) } } return X
GuardedTry(c) == Lowered(<<
  BlockText(1, <<>>, Expression(1, c, X), IfOf(1, Goto(2), Goto(6), 6)),
  BlockText(1, <<>>, <<>>, TryOf(3, {5, 4})),
  BlockText(1, <<>>, <<>>, InvokeOf(7, 5)),
  BlockText(1, <<>>, <<>>, JumpTo(6, <<>>)),
  BlockText(1, <<TakesException(2)>>, <<CallOf(3, <<2>>)>>, JumpTo(4, <<>>)),
  BlockText(1, <<>>, <<>>, ReturnOf(X)),
  BlockText(1, <<TakesResult(4)>>, <<>>, JumpTo(4, <<>>))>>, {X}, {}, {5}, {})

\* not(X); return `${c ? not(X) : call()}`, and with the same conditional as
\* the default value of a parameter
InTemplate(c, default) == Lowered(<<
  BlockText(1, <<>>, <<Unary(1, "Not", X), Template(2, 2), Unary(3, "Not", X), CallOf(4, <<1, 3>>)>>,
            ReturnOf(2)),
  BlockText(2, <<>>, Expression(5, c, X), IfOf(5, Goto(3), Goto(4), 5)),
  BlockText(2, <<>>, <<Unary(6, "Not", X)>>, JumpTo(5, <<6>>)),
  BlockText(2, <<>>, <<CallOf(7, <<>>)>>, JumpTo(5, <<7>>)),
  BlockText(2, <<Takes(8)>>, <<>>, YieldOf(8))>>
    \o (IF ~ default THEN <<>> ELSE <<
  BlockText(3, <<>>, Expression(9, c, X), IfOf(9, Goto(7), <<8, <<X>>>>, 8)),
  BlockText(3, <<>>, <<CallOf(10, <<>>)>>, JumpTo(8, <<10>>)),
  BlockText(3, <<Takes(11)>>, <<>>, YieldOf(11))>>), {X}, IF default THEN {3} ELSE {}, {}, {})

\* p = not(X); if (c) call(`${e(p)}`); return p, where the substitution is
\* evaluated inside a branch that may turn out to be dead
GuardedTemplate(c, e) == Function(<<
  BlockText(1, <<>>, <<Unary(1, "Not", X)>> \o Expression(2, c, X), IfOf(2, Goto(2), Goto(3), 3)),
  BlockText(1, <<>>, <<Template(3, 2), CallOf(4, <<3>>)>>, JumpTo(3, <<>>)),
  BlockText(1, <<>>, <<>>, ReturnOf(1)),
  BlockText(2, <<>>, Expression(5, e, 1), YieldOf(5))>>)

\* the expression e(X) before, in both branches of and after a conditional;
\* first says whether it is evaluated before
Repeated(e, first) == Function(<<
  BlockText(1, <<>>, <<CallOf(1, <<>>)>> \o (IF first THEN Expression(2, e, X) ELSE <<>>),
            IfOf(1, Goto(2), Goto(3), 4)),
  BlockText(1, <<>>, Expression(3, e, X) \o <<CallOf(4, <<3>>)>>, JumpTo(4, <<>>)),
  BlockText(1, <<>>, Expression(5, e, X) \o <<CallOf(6, <<5>>)>>, JumpTo(4, <<>>)),
  BlockText(1, <<>>, Expression(7, e, X) \o Expression(8, e, X), ReturnOf(8))>>)

-----------------------------------------------------------------------------
\* var x; if (false) { x = call(); try { call() } catch (e) { call(x) } }
\* return X, where the handler reads what block 2 computes
DeadTryReadingLocal == Lowered(<<
  BlockText(1, <<>>, <<Constant(1, "false")>>, IfOf(1, Goto(2), Goto(6), 6)),
  BlockText(1, <<>>, <<CallOf(2, <<>>)>>, TryOf(3, {5, 4})),
  BlockText(1, <<>>, <<>>, InvokeOf(7, 5)),
  BlockText(1, <<>>, <<>>, JumpTo(6, <<>>)),
  BlockText(1, <<TakesException(3)>>, <<CallOf(4, <<2>>)>>, JumpTo(4, <<>>)),
  BlockText(1, <<>>, <<>>, ReturnOf(X)),
  BlockText(1, <<TakesResult(5)>>, <<>>, JumpTo(4, <<>>))>>, {X}, {}, {5}, {})

\* var x; for (; call(); call(x)) { if (true) break; x = call() } return X, where
\* the update reads what a block computes that nothing leads to
BreakingForReadingLocal == Function(<<
  BlockText(1, <<>>, <<>>, JumpTo(2, <<>>)),
  BlockText(1, <<>>, <<>>, JumpTo(3, <<>>)),
  BlockText(1, <<>>, <<>>, ClassicalFor(4, {2, 5, 6, 7})),
  BlockText(1, <<>>, <<CallOf(1, <<>>)>>, IfOf(1, Goto(5), Goto(7), 7)),
  BlockText(1, <<>>, <<Constant(2, "true")>>, IfOf(2, Goto(8), Goto(9), 9)),
  BlockText(1, <<>>, <<CallOf(3, <<4>>)>>, JumpTo(3, <<>>)),
  BlockText(1, <<>>, <<>>, ReturnOf(X)),
  BlockText(1, <<>>, <<>>, JumpTo(7, <<>>)),
  BlockText(1, <<>>, <<CallOf(4, <<>>)>>, JumpTo(6, <<>>))>>)

-----------------------------------------------------------------------------
CONSTANTS Conditions, Inputs, Users

MCSources ==
       {Conditional(c, a, b, u) : c \in Conditions, a \in Inputs, b \in Inputs, u \in Users}
  \cup {LogicalAnd(c, a, u) : c \in Conditions \cup {"not not"}, a \in Inputs \cup {"not"}, u \in Users}
  \cup {Nested(c, d, a, twice) : c \in Conditions, d \in Conditions, a \in Inputs, twice \in BOOLEAN}
  \cup {BothReturn(c) : c \in Conditions}
  \cup {While(i, c, n, two) : i \in Inputs, c \in {"call", "false", "not"},
                              n \in {"keep", "true", "not", "plus"}, two \in BOOLEAN}
  \cup {ShortCircuitLoop(a, b) : a \in Conditions, b \in Conditions}
  \cup {BreakingLoop(i, c, n) : i \in Inputs, c \in {"call", "true", "less"}, n \in {"plus", "not not"}}
  \cup {For(i, c, n) : i \in Inputs, c \in {"call", "false", "less"}, n \in {"plus", "one"}}
  \cup {Labelled(c) : c \in Conditions} \cup {GuardedTry(c) : c \in Conditions}
  \cup {Try(i, throws) : i \in Inputs, throws \in BOOLEAN}
  \cup {InTemplate(c, default) : c \in Conditions, default \in BOOLEAN}
  \cup {GuardedTemplate(c, e) : c \in Conditions, e \in {"call", "not not", "plus"}}
  \cup {Repeated(e, first) : e \in {"not", "equal", "less", "plus"}, first \in BOOLEAN}

\* The functions that a run of its own is about.
DeadTrySources == {DeadTryReadingLocal, BreakingForReadingLocal}
=============================================================================
