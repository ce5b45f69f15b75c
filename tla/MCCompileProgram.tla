-------------------------- MODULE MCCompileProgram --------------------------
(* The inputs on which whole compilations are model checked.               *)
EXTENDS PruningCorrectness, ProgramTexts

InputKeySet == {"m1", "m2", "m3", "m4", "m9"}

\* Programs whose modules read every import they use outside a `try'.
RegularInputs ==
  InputsOf(EntryTexts \cup EvalTexts, MiddleTexts, LeafTexts, {FullHost}, {<<"m1">>})
    \cup InputsOf(EvalTexts, MiddleTexts, LeafTexts, {SilentHost}, {<<"m1", "m3">>})

\* One program, and everything a host can get wrong about it.
Sample ==
  Input(<<Text({ImportName("a", "x")}, <<>>, {"i"}), Text({}, <<Export("v", "x")>>, {"w"}),
          Text({}, <<>>, {}), Text({Bare("a")}, <<>>, {})>>, FullHost, <<"m1">>)

BrokenInputs ==
  LET Set(flags) == [Sample EXCEPT !.modules =
                       [m \in 1..4 |-> [Sample.modules[m] EXCEPT !.parses = m \notin flags[1],
                                                                 !.generates = m \notin flags[2]]]]
      Faulty == {Set(<<a, b>>) : a \in SUBSET {2, 3}, b \in SUBSET {1, 2, 3}}
  IN  UNION { {i, [i EXCEPT !.modules[3].key = "m2"],
               [i EXCEPT !.entrypoints = <<"m1", "m9">>],
               [i EXCEPT !.modules[4].requests = {[request |-> "StaticImport", source |-> "a",
                  target |-> [kind |-> "Internal", key |-> "m9"]]}],
               [i EXCEPT !.modules[3].key = "m9", !.entrypoints = <<"m3", "m1">>],
               [i EXCEPT !.entrypoints = <<"m4", "m1">>]} : i \in Faulty }

\* An import is assigned and not read, or read inside a `try' only.
UncountedInputs ==
  InputsOf({WriteOnlyText, GuardedText}, MiddleTexts, LeafTexts, {FullHost}, {<<"m1">>})

\* eval is called inside a `try' only.
GuardedEvalInputs ==
  InputsOf({GuardedEvalText}, MiddleTexts, LeafTexts, {FullHost}, {<<"m1">>})

AllInputs ==
  RegularInputs \cup BrokenInputs \cup UncountedInputs \cup GuardedEvalInputs
=============================================================================
