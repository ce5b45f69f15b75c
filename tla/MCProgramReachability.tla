----------------------- MODULE MCProgramReachability -----------------------
(* The programs on which reachability is model checked.                    *)
EXTENDS PruneModuleGraph, ProgramTexts

\* Every combination of texts with a host that answers every request, and a
\* share of them with hosts that do not, and with two entry modules.
AllPrograms ==
  ProgramsOf(EntryTexts \cup EvalTexts, {FullHost}, {{1}})
    \cup ProgramsOf(EvalTexts, {SilentHost, UndecidedHost, ManagedHost}, {{1}})
    \cup ProgramsOf({Blank}, {FullHost, UndecidedHost}, {{2}, {1, 3}})
    \cup {Program(<<t, m, Blank, Blank>>, FullHost, {1}) :
            t \in ComputedTexts, m \in MiddleTexts}
=============================================================================
