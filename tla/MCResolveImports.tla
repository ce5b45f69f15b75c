-------------------------- MODULE MCResolveImports --------------------------
(* The programs whose imports are resolved.                                *)
EXTENDS ResolveImports, ProgramTexts

\* Chains, diamonds, cycles and conflicts of re-exports, for a named, a default
\* and a namespace import.
LinkedTexts ==
  { Text({ImportName("a", "x")}, <<Export("v", "y")>>, {"i"}),
    Text({ImportName("a", "y")}, <<ReExportAll("a"), Export("w", "x")>>, {"i"}),
    Text({ImportDefault("a")}, <<>>, {"i"}),
    Text({ImportAll("a")}, <<ReExport("b", "y", "x")>>, {"i"}) }

StarTexts ==
  { Text({}, <<ReExportAll("c"), ReExportAll("d")>>, {}),
    Text({}, <<ReExportAll("e"), ReExportAll("c")>>, {}),
    Text({ImportName("c", "x")}, <<ReExportAll("d"), ReExportAll("c")>>, {}),
    Text({}, <<ReExportAs("c", "x"), Export("v", "y")>>, {}) }

DiamondTexts ==
  { Text({}, <<ReExportAll("b"), ReExportAll("c")>>, {}),
    Text({}, <<ReExportAll("c"), ReExport("b", "x", "y")>>, {}),
    Text({ImportName("b", "y")}, <<ReExportAll("b"), ReExportAll("c"), ReExportAll("d")>>, {}) }

LastLinkedTexts ==
  LastTexts \cup { Text({ImportName("a", "x")}, <<ReExportAll("a"), ReExportAll("b")>>, {}),
                   Text({}, <<ReExportAs("c", "x")>>, {}),
                   Text({}, <<ReExport("e", "x", "x"), Export("v", "default")>>, {}) }

\* An import of a name that comes to its module on two ways: re-exported from a
\* third module, and imported from there and exported.
ReexportingPrograms ==
  {Program(<<Text({ImportName("a", "x")}, <<>>, {"i"}),
             Text({}, <<ReExportAll("b"), t3>>, {}),
             Text({ImportName("c", "x")}, <<Export("i", "x")>>, {}),
             Text({}, <<Export("v", "x")>>, {})>>, FullHost, {1}) :
     t3 \in {ReExportAll("c"), ReExport("c", "x", "y")}}

LinkedPrograms ==
  {Program(<<t1, t2, t3, t4>>, h, {1}) :
     t1 \in LinkedTexts, t2 \in MiddleTexts \cup DiamondTexts,
     t3 \in StarTexts \cup LeafTexts, t4 \in LastLinkedTexts,
     h \in {FullHost, UndecidedHost}} \cup ReexportingPrograms
=============================================================================
