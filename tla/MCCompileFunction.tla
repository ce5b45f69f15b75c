-------------------------- MODULE MCCompileFunction --------------------------
(***************************************************************************)
(* CompileFunction over every statement and many of the ways in which they *)
(* nest.  c, d, g, h, k are globals; calls of them are what the outside    *)
(* sees of a program, apart from how it ends.  MCPrograms, on which every  *)
(* property is checked, leaves out what the compiler gets wrong: the shapes*)
(* of EvalsInTry, JumpsThroughFinally and LoopHeaders, which runs of their *)
(* own are for, and for statements whose test is false from the start.     *)
(***************************************************************************)
EXTENDS CompileFunction


\* var x; let y; catch (e); parameter p.
Declared(captured) ==
  Bindings({<<"x", "Var", captured>>, <<"z", "Var", FALSE>>, <<"y", "Let", FALSE>>, <<"t", "Let", FALSE>>,
            <<"e", "Catch", FALSE>>, <<"p", "Parameter", FALSE>>})

Local    == Declared(FALSE)
Function(list) == Text(Local, list)

X == Name("x")
SetX(e) == Do(Assign("x", e))
Exec1(name) == Do(CallTo(name))
IfCall(name, s) == When(CallTo(name), s)

-----------------------------------------------------------------------------
(* Loops around a body that reads and writes x.                            *)

Conditions == {CallTo("c"), And(CallTo("c"), CallTo("d")), Apply1("Not", X), IfElse(X, CallTo("c"), CallTo("d"))}

LoopOf(kind, c, s) ==
  CASE kind = "while" -> WhileDo(c, s)
    [] kind = "do"    -> DoWhile(s, c)
    [] kind = "for"   -> ForDo(<<Assign("x", CallTo("k"))>>, <<c>>, <<Assign("z", X)>>, s)
    [] kind = "for let" -> ForDo(<<Let("y", X)>>, <<c>>, <<Assign("y", CallTo("k"))>>, s)
    [] kind = "for ever" -> ForDo(<<>>, <<>>, <<CallTo("k")>>, Block(<<When(c, Break), s>>))
    [] kind = "for of" -> ForOfDo("Let", "y", Name("p"), s)
    [] kind = "for of x" -> ForOfDo("", "x", Name("p"), s)

LoopKinds == {"while", "do", "for", "for let", "for ever", "for of", "for of x"}

\* Bodies, with the labels the loop has.
Bodies ==
  {SetX(CallTo("g")),
   Block(<<IfCall("g", Break), SetX(CallTo("h"))>>),
   Block(<<IfCall("g", Continue), SetX(CallTo("h")), Do(Assigned("Or", "z", X))>>),
   Block(<<SetX(Const("one")), IfCall("g", Return(X))>>),
   Try(<<IfCall("g", Break), SetX(CallTo("h"))>>, <<>>, Finally(<<Exec1("k")>>)),
   Try(<<SetX(CallTo("g")), Exec1("h")>>, Catch("e", <<When(Name("e"), Continue), Exec1("k")>>), <<>>),
   Try(<<IfCall("g", Return(X))>>, Catch("e", <<Break>>), Finally(<<IfCall("h", Continue)>>)),
   SwitchOn(CallTo("g"), <<Case(Const("one"), <<SetX(CallTo("h")), Break>>), Default(<<Continue>>)>>),
   Labelled("inner", Block(<<IfCall("g", BreakTo("inner")), SetX(CallTo("h"))>>))}

LoopingIn(bindings, kind, c, s) ==
  Text(bindings, <<SetX(Const("one")), LoopOf(kind, c, s), Return(X)>>)
Looping(kind, c, s) == Function(<<SetX(Const("one")), LoopOf(kind, c, s), Return(X)>>)

\* Two loops, and a jump out of the inner one.
NestedLoops(outer, inner, jump) ==
  Function(<<Labelled("outer", LoopOf(outer, CallTo("c"),
               Block(<<LoopOf(inner, CallTo("d"), Block(<<SetX(CallTo("g")), IfCall("h", jump)>>)),
                       SetX(CallTo("k"))>>))), Return(X)>>)

-----------------------------------------------------------------------------
(* Straight code and branches.                                             *)

Expressions ==
  {IfElse(CallTo("c"), CallTo("g"), CallTo("h")), And(CallTo("g"), CallTo("h")), Or(X, CallTo("g")),
   Coalesce(CallTo("g"), X), Assigned("And", "x", CallTo("g")), Assigned("Coalesce", "z", Name("p")),
   CallWith(CallTo("g"), <<IfElse(Name("p"), CallTo("h"), X), Assign("x", CallTo("k"))>>),
   Template1(And(CallTo("g"), Assign("x", CallTo("h")))),
   Apply2("StrictEqual", Name("p"), Name("p")), Apply1("Plus", Comma(CallTo("g"), Name("p"))),
   Apply2("LessThan", X, Assign("x", CallTo("g")))}

Evaluating(e) ==
  Function(<<SetX(CallTo("k")), IfCall("d", Do(Assign("z", e))), Do(CallWith(Name("c"), <<e>>)), Return(X)>>)

\* Members, updates and optional chains: in what order their parts are evaluated.
Accesses ==
  {Assigned("Or", "g", X), AssignTo("Or", At(CallTo("g"), X), Assign("x", CallTo("h"))),
   AssignTo("Assign", Dot(X), Update(TRUE, X)),
   CallWith(Dot(CallTo("g")), <<Update(FALSE, X), X>>),
   CallWith(At(X, Assign("x", CallTo("h"))), <<X>>),
   New(CallTo("g"), <<Dot(X), IfElse(Name("p"), X, Update(FALSE, Name("p")))>>),
   Update(FALSE, Dot(CallTo("g"))), Update(TRUE, At(X, Update(FALSE, X))),
   Chain(At(Optional(Dot(X)), Assign("x", CallTo("g")))),
   Chain(Optional(CallWith(At(CallTo("g"), X), <<Assign("x", CallTo("h"))>>))),
   Chain(CallWith(Optional(Dot(Optional(CallWith(Name("p"), <<X>>)))), <<Update(TRUE, X)>>)),
   Template1(Chain(Optional(Dot(And(X, CallTo("g"))))))}

\* The same in a try statement and in loops.
Referring ==
  {Function(<<SetX(CallTo("g")),
              Try(<<Do(Update(FALSE, X)), Do(AssignTo("Assign", Dot(CallTo("h")), X))>>,
                  Catch("e", <<Do(CallWith(Name("k"), <<Name("e")>>))>>), <<>>), Return(X)>>),
   Function(<<Try(<<SetX(New(Dot(CallTo("g")), <<X>>)), Do(Chain(CallWith(Optional(Dot(X)), <<X>>)))>>,
                  <<>>, Finally(<<Exec1("d")>>)), Return(X)>>),
   Function(<<ForDo(<<Assign("x", Dot(Name("p")))>>, <<Apply2("LessThan", X, Name("p"))>>,
                    <<Update(FALSE, X)>>, Do(CallWith(Name("k"), <<X>>))), Return(X)>>),
   Function(<<SetX(CallTo("g")), WhileDo(Update(TRUE, X), Do(CallWith(Dot(Name("p")), <<X>>)))>>),
   Text(Declared(TRUE),
        <<ForDo(<<Let("y", CallTo("c")), Let("t", AssignTo("Assign", Dot(X), CallTo("g")))>>,
                <<Chain(Optional(Dot(Name("y"))))>>, <<Update(FALSE, Name("y"))>>, SetX(CallTo("h"))),
          Return(X)>>)}

Branches ==
  {Function(<<Var("x", CallTo("f")), WhenElse(X, SetX(CallTo("g")), IfCall("h", SetX(Const("one")))), Return(X)>>),
   Function(<<IfCall("c", Block(<<IfCall("d", Return(Const("one"))), SetX(CallTo("g"))>>)), Return(X)>>),
   Function(<<WhenElse(CallTo("c"), Return(X), Throw(CallTo("g"))), Exec1("h")>>),
   Function(<<WhenElse(CallTo("c"), SetX(CallTo("g")), SetX(CallTo("h"))),
              WhenElse(CallTo("d"), Do(Assign("z", X)), Do(Assign("x", Name("z")))),
              Do(CallWith(X, <<Name("z")>>))>>),
   Function(<<Let("y", CallTo("c")), Labelled("a", Labelled("b", Block(<<IfCall("d", BreakTo("a")),
              When(Name("y"), BreakTo("b")), SetX(CallTo("g"))>>))), Return(X)>>)}

-----------------------------------------------------------------------------
(* try.                                                                    *)

Protected == {<<Exec1("g"), SetX(CallTo("h"))>>, <<IfCall("g", Return(CallTo("h"))), SetX(Const("one"))>>,
              <<SetX(CallTo("g")), Throw(X)>>}
Handlers  == {<<>>, Catch("e", <<SetX(Name("e"))>>), Catch("", <<IfCall("k", Return(X))>>)}
Finals    == {<<>>, Finally(<<Exec1("d")>>), Finally(<<IfCall("d", Return(Const("one")))>>)}

Trying(body, handler, final) == Function(<<Try(body, handler, final), Return(X)>>)

NestedTry(inner, outer) ==
  Function(<<Try(<<Try(<<IfCall("c", Return(CallTo("g")))>>, <<>>, inner), SetX(CallTo("h"))>>,
                 Catch("e", <<SetX(CallTo("k"))>>), outer), Return(X)>>)

-----------------------------------------------------------------------------
(* switch.                                                                 *)

Switches ==
  {Function(<<SetX(Const("one")), SwitchOn(CallTo("c"), cases), Return(X)>>) : cases \in
     {<<Case(Const("one"), <<SetX(CallTo("g"))>>), Case(CallTo("d"), <<Exec1("h"), Break>>)>>,
      <<Default(<<SetX(CallTo("g"))>>), Case(And(X, CallTo("d")), <<Do(CallWith(Name("k"), <<X>>))>>)>>,
      <<Case(Const("one"), <<>>), Case(Const("zero"), <<IfCall("d", Break), SetX(CallTo("g"))>>),
        Default(<<Return(X)>>)>>,
      <<Case(Assign("x", CallTo("g")), <<Exec1("h")>>)>>}}

-----------------------------------------------------------------------------
(* Bindings that must stay what they are.                                  *)

Captured ==
  {Text(Declared(TRUE),
        <<SetX(CallTo("c")), WhileDo(X, Block(<<Exec1("g"), SetX(CallTo("d"))>>)), Return(X)>>)}

Evals ==
  {Text(SeenByEval(Local), <<Do(CallWith(Name("eval"), <<e>>)), IfCall("c", SetX(CallTo("g"))), Return(X)>>) :
     e \in {Name("p"), Assign("x", CallTo("g"))}}

Scopes ==
  {Function(<<Do(Name("y")), Let("y", CallTo("g")), Return(Name("y"))>>),
   Function(<<IfCall("c", Let("y", Const("one"))), Return(Name("y"))>>),
   Function(<<Let("y", CallTo("c")), Do(Assign("y", CallTo("g"))), Return(Name("y"))>>),
   Function(<<Do(CallWith(Name("g"), <<X>>)), Var("x", Lambda), Do(Assign("z", Lambda)), Return(X)>>)}

Modules ==
  {ModuleText(Bindings({<<"y", "Let", TRUE>>}), <<Let("y", CallTo("g")), Exec1("h")>>),
   ModuleText(Local, <<Let("y", CallTo("g")), SetX(CallTo("h")), Exec1("k")>>),
   ModuleText(Declared(TRUE), <<IfCall("c", SetX(CallTo("g"))), Do(CallWith(Name("h"), <<X>>))>>)}
-----------------------------------------------------------------------------
(* Statements and expressions nested in each other in less regular ways.   *)

Mixed == {
  Function(<<ForOfDo("Let", "y", Name("p"), Try(<<Break>>, <<>>,
    Finally(<<Continue>>))), Return(X)>>),
  Function(<<Try(<<Exec1("g")>>, <<>>, Finally(<<Return(Const("one"))>>)),
    Exec1("h")>>),
  Function(<<Try(<<ForOfDo("Let", "y", Name("p"), Exec1("c")),
    SetX(Apply2("StrictEqual", Name("p"), Name("p"))), Exec1("h")>>, Catch("",
    <<Do(CallWith(Name("g"), <<Apply2("StrictEqual", Name("p"),
    Name("p"))>>))>>), <<>>)>>),
  Function(<<Try(<<Do(Assign("y", Lambda))>>, Catch("", <<>>), <<>>),
    Return(Name("y"))>>),
  Function(<<WhileDo(Const("false"), Exec1("g")), DoWhile(Exec1("h"),
    Const("false"))>>),
  Function(<<ForDo(<<>>, <<Const("true")>>, <<>>, IfCall("g", Break)),
    Return(X)>>),
  Function(<<ForDo(<<And(CallTo("g"), Assign("x", CallTo("h")))>>,
    <<And(Const("true"), X)>>, <<Or(X, CallTo("k"))>>, Exec1("d")),
    Return(X)>>),
  Function(<<SetX(CallTo("c")), When(Const("false"), SetX(CallTo("g"))),
    Try(<<SwitchOn(X, <<Case(CallTo("d"), <<Return(X)>>)>>)>>, Catch("e",
    <<Return(Name("e"))>>), <<>>)>>),
  Function(<<WhileDo(CallTo("c"), Block(<<Labelled("a", Try(<<IfCall("d",
    BreakTo("a")), IfCall("g", Break), Continue>>, <<>>,
    Finally(<<Exec1("h")>>))), Exec1("k")>>))>>),
  Function(<<Try(<<Try(<<IfCall("c", Throw(X))>>, <<>>,
    Finally(<<Exec1("d")>>)), Exec1("g")>>, <<>>, Finally(<<Exec1("h")>>)),
    Return(X)>>),
  Function(<<WhileDo(CallTo("c"), SwitchOn(CallTo("d"), <<Case(Const("one"),
    <<Continue>>), Default(<<Try(<<Break>>, <<>>,
    Finally(<<Exec1("g")>>))>>)>>)), Return(X)>>),
  Function(<<ForDo(<<>>, <<CallTo("c")>>, <<>>, ForDo(<<>>, <<CallTo("d")>>,
    <<>>, IfCall("g", Continue)))>>),
  Function(<<Labelled("a", WhileDo(CallTo("c"), SwitchOn(CallTo("d"),
    <<Case(Const("one"), <<ContinueTo("a")>>), Default(<<BreakTo("a")>>)>>))),
    Return(X)>>),
  Function(<<WhileDo(Const("true"), Block(<<IfCall("c", Return(X)),
    SetX(CallTo("g"))>>))>>),
  Function(<<ForDo(<<Let("y", IfElse(CallTo("c"), CallTo("g"),
    CallTo("h")))>>, <<CallTo("d")>>, <<Name("y")>>, Exec1("g")), Return(X)>>),
  Function(<<Block(<<SwitchOn(CallTo("c"), <<Case(Const("one"), <<Let("y",
    CallTo("g"))>>), Default(<<Do(Name("y"))>>)>>)>>), Return(X)>>),
  Function(<<IfCall("c", Labelled("a", DoWhile(Block(<<IfCall("d",
    ContinueTo("a")), SetX(CallTo("g"))>>), And(X, CallTo("h"))))),
    Return(X)>>),
  Function(<<Try(<<SetX(And(CallTo("c"), CallTo("d")))>>, Catch("e",
    <<SetX(Name("e"))>>), <<>>), WhileDo(IfElse(X, CallTo("g"), CallTo("h")),
    SetX(CallTo("k"))), Return(X)>>),
  Function(<<Try(<<WhileDo(And(CallTo("c"), CallTo("d")),
    SetX(CallTo("k")))>>, Catch("e", <<SetX(Name("e"))>>), <<>>), Return(X)>>),
  Function(<<Try(<<ForDo(<<Assign("x", CallTo("g"))>>, <<And(X,
    CallTo("d"))>>, <<Assign("x", CallTo("h"))>>, Exec1("k"))>>, Catch("e",
    <<SetX(Name("e"))>>), <<>>), Return(X)>>),
  Function(<<Try(<<DoWhile(Exec1("g"), CallTo("d"))>>, <<>>,
    Finally(<<Exec1("h")>>)), Return(X)>>),
  Function(<<Try(<<ForDo(<<Let("y", CallTo("g"))>>, <<CallTo("d")>>,
    <<Assign("y", CallTo("h"))>>, Exec1("k"))>>, Catch("e",
    <<Do(Name("e"))>>), <<>>), Return(X)>>),
  Function(<<IfCall("c", Try(<<Return(CallTo("d"))>>, Catch("e",
    <<Return(Name("e"))>>), <<>>)), Return(X)>>),
  Function(<<WhileDo(CallTo("c"), Block(<<SetX(Name("z")), Do(Assign("z", X)),
    Do(CallWith(Name("g"), <<X, Name("z")>>))>>)), Return(X)>>),
  Function(<<SetX(CallTo("g")), Do(Assign("z", CallTo("h"))),
    WhileDo(CallTo("c"), Block(<<Do(CallWith(Name("k"), <<X>>)), Let("y", X),
    SetX(Name("z")), Do(Assign("z", Name("y")))>>)), Return(X)>>),
  Function(<<IfCall("c", Block(<<WhileDo(CallTo("d"), Break), Return(X)>>)),
    DoWhile(Continue, CallTo("g"))>>),
  Function(<<DoWhile(Block(<<Break>>), CallTo("g")), ForDo(<<>>, <<>>,
    <<CallTo("h")>>, Return(X))>>),
  Function(<<Try(<<Throw(X)>>, Catch("e", <<Throw(Name("e"))>>),
    Finally(<<Exec1("c")>>)), Exec1("d")>>),
  Function(<<Try(<<Return(X)>>, <<>>, Finally(<<WhileDo(CallTo("c"),
    IfCall("d", Break))>>))>>),
  Function(<<ForOfDo("Let", "y", Name("p"), ForOfDo("Let", "t", Name("y"),
    SetX(Name("t")))), Return(X)>>),
  Function(<<WhileDo(CallTo("c"), Block(<<Let("y", X), IfCall("d", Continue),
    SetX(CallTo("g")), Do(CallWith(Name("h"), <<Name("y")>>))>>)),
    Return(X)>>),
  Function(<<SetX(Lambda), Do(X)>>),
  Function(<<SetX(X), Return(X)>>),
  Text(Bindings({<<n, "Var", FALSE>> : n \in {"x", "z", "w"}}), <<SetX(CallTo("g")),
    Do(Assign("z", CallTo("h"))), WhileDo(CallTo("c"), Block(<<Do(Assign("w", X)),
    SetX(Name("z")), Do(Assign("z", Name("w")))>>)), Return(X)>>)}

-----------------------------------------------------------------------------
(* Programs that promotion gets wrong.                                     *)

\* Only the operation in the Invoke says that the function names eval, and the
\* search for a direct eval does not look into it.
EvalsInTry ==
  {Text(SeenByEval(Local),
        <<SetX(CallTo("h")), Try(<<Do(CallWith(Name("eval"), <<Name("p")>>))>>, Catch("e", <<>>), <<>>),
          IfCall("c", SetX(CallTo("g"))), Return(X)>>),
   ModuleText(SeenByEval(Local),
        <<Let("y", CallTo("g")), Try(<<Do(CallWith(Name("eval"), <<Const("one")>>))>>, Catch("e", <<>>), <<>>)>>)}

-----------------------------------------------------------------------------
(* Programs that the generator gets wrong.                                 *)

\* A jump out of a loop from a try statement whose finally assigns.
JumpsThroughFinally ==
  {Function(<<SetX(Const("one")), LoopOf(kind, CallTo("c"), Try(<<IfCall("d", Break)>>, <<>>,
                Finally(<<SetX(CallTo("g"))>>))), Return(X)>>) : kind \in {"while", "for"}}
    \cup {Function(<<SetX(Const("one")), WhileDo(CallTo("c"), Try(<<Break>>, <<>>,
             Finally(<<SetX(CallTo("g"))>>))), Return(X)>>)}

\* A loop whose header declares names, and an assignment that outlives the loop.
LoopHeaders ==
  {Looping("for let", CallTo("c"), SetX(CallTo("g"))),
   Function(<<ForDo(<<Declare("Let", "y", <<>>), Let("t", Assign("z", CallTo("c")))>>,
                    <<CallTo("d")>>, <<>>, Exec1("g")), Return(Name("z"))>>)}

-----------------------------------------------------------------------------
(* What the runs compile.                                                  *)

\* With x captured, it stays a binding and the loop may declare its own names.
InLoops ==
       {Looping(k, CallTo("c"), s) : k \in LoopKinds \ {"for let"}, s \in Bodies}
  \cup {Looping(k, c, SetX(CallTo("g"))) : k \in LoopKinds \ {"for let"}, c \in Conditions}
  \cup {LoopingIn(Declared(TRUE), "for let", CallTo("c"), s) : s \in Bodies}
  \cup {LoopingIn(Declared(TRUE), k, c, SetX(CallTo("g"))) : k \in {"for let", "for"}, c \in Conditions}
  \cup {NestedLoops(o, i, j) : o \in {"while", "for", "for of"}, i \in {"do", "for let", "for of x"},
                               j \in {Break, BreakTo("outer"), ContinueTo("outer")}}

MCPrograms ==
  InLoops
  \cup {Evaluating(e) : e \in Expressions \cup Accesses} \cup Referring \cup Branches \cup Switches
  \cup ({Trying(b, h, f) : b \in Protected, h \in Handlers, f \in Finals}
          \ {Trying(b, <<>>, <<>>) : b \in Protected})
  \cup {NestedTry(i, o) : i \in Finals \ {<<>>}, o \in Finals}
  \cup Scopes \cup Modules \cup Captured \cup Evals \cup Mixed
=============================================================================
