---------------------- MODULE OptimizationCorrectness ----------------------
(***************************************************************************)
(* What the optimisation of a function promises: the function stays a      *)
(* well-formed function, its assertions hold, it goes on doing what it did,*)
(* and the passes come to an end.                                          *)
(***************************************************************************)
EXTENDS OptimizeFunction, FunctionMeaning

VARIABLE meaning   \* what the function did before it was optimised

correctnessVars == <<optimizeVars, meaning>>

CheckedInit == Init /\ meaning = Meaning(function)
CheckedNext == Next /\ UNCHANGED meaning

\* One thread optimises a function, and nothing makes it wait: it goes on as
\* long as it has not ended.  This is weak fairness of CheckedNext, with its
\* ENABLED written out: TLC checks that there is no deadlock, so a step is
\* possible whenever ~ HasEnded, and none that changes anything is otherwise.
Fairness == []<> HasEnded \/ []<> <<CheckedNext>>_correctnessVars

CheckedSpec == CheckedInit /\ [][CheckedNext]_correctnessVars /\ Fairness

-----------------------------------------------------------------------------
\* The editor never meets a state that its assertions exclude.
NoPanic == ~ panicked

-----------------------------------------------------------------------------
\* Between two batches of editor calls the function does exactly what the
\* source did: the same calls with the same arguments and the same evaluations
\* that may throw, in the same order, and the same end.
MeaningPreserved ==
  calls = <<>> /\ IsSettled /\ ~ panicked => Meaning(function) = meaning

\* The work queues run dry and the search for rewrites ends.
PassesEnd == <> HasEnded
=============================================================================
