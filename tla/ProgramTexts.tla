---------------------------- MODULE ProgramTexts ----------------------------
(***************************************************************************)
(* Small programs for model checking.  Four modules import each other      *)
(* through the request strings "a", "b", "c" (modules 2, 3, 4), "d"        *)
(* (module 1) and "e" (a module outside the program).  A text is what one  *)
(* module says; a host decides which requests are answered, and how.       *)
(***************************************************************************)
EXTENDS JsProgram

Modules  == 1..4
Bindings == {"v", "w", "i"}
Names    == {"default", "x", "y"}
Sources  == {"a", "b", "c", "d", "e"}
Keys     == {"outside"}

-----------------------------------------------------------------------------
Blank == [imports |-> {}, exports |-> <<>>, loads |-> {}, guardedLoads |-> {}, writes |-> {},
          eval |-> FALSE, guardedEval |-> FALSE, dynamic |-> {}, requires |-> {}]

Bare(s)          == [kind |-> "Bare", source |-> s]
ImportDefault(s) == [kind |-> "Default", source |-> s, binding |-> "i"]
ImportAll(s)     == [kind |-> "Namespace", source |-> s, binding |-> "i"]
ImportName(s, n) == [kind |-> "Named", source |-> s, binding |-> "i", imported |-> n]

Export(b, n)         == [kind |-> "Local", exported |-> n, binding |-> b]
ReExport(s, n, as)   == [kind |-> "Indirect", source |-> s, imported |-> n, exported |-> as]
ReExportAs(s, as)    == [kind |-> "Namespace", source |-> s, exported |-> as]
ReExportAll(s)       == [kind |-> "Star", source |-> s]
ReExportNothing(s)   == [kind |-> "Empty", source |-> s]

Text(imports, exports, loads) ==
  [Blank EXCEPT !.imports = imports, !.exports = exports, !.loads = loads]

Load(s, constant, options) == [options |-> options, constant |-> constant, source |-> s]

EntryTexts ==
  { Text({ImportName("a", "x")}, <<>>, {"i"}),
    Text({ImportName("a", "y")}, <<Export("v", "x")>>, {"i", "w"}),
    Text({ImportName("a", "x")}, <<>>, {"v"}),
    Text({ImportDefault("a")}, <<>>, {"i"}),
    Text({ImportAll("a")}, <<>>, {"i"}),
    Text({Bare("a")}, <<Export("v", "default")>>, {}),
    Text({}, <<ReExport("a", "x", "x"), ReExportNothing("b")>>, {}),
    Text({}, <<ReExportAll("a")>>, {}),
    Text({}, <<ReExportAs("a", "y")>>, {}),
    Text({ImportName("a", "x")}, <<Export("i", "x")>>, {}),
    [Blank EXCEPT !.dynamic = {Load("a", TRUE, FALSE)}],
    [Blank EXCEPT !.requires = {"a"}] }

EvalTexts ==
  { [Text({ImportName("a", "x")}, <<>>, {}) EXCEPT !.eval = TRUE],
    [Text({ImportAll("b")}, <<ReExport("b", "x", "y")>>, {"w"}) EXCEPT !.eval = TRUE] }

\* Requests that are only known when they are evaluated.
ComputedTexts ==
  { [Blank EXCEPT !.dynamic = {Load("a", TRUE, TRUE)}],
    [Blank EXCEPT !.dynamic = {Load("a", FALSE, FALSE)}] }

MiddleTexts ==
  { Text({}, <<Export("v", "x")>>, {"w"}),
    Text({}, <<ReExport("b", "x", "x"), Export("w", "y")>>, {}),
    Text({}, <<ReExport("b", "y", "x"), ReExport("c", "x", "y")>>, {}),
    Text({}, <<ReExportAll("b")>>, {}),
    Text({}, <<ReExportAll("b"), Export("v", "x")>>, {}),
    Text({}, <<ReExportAs("b", "x"), ReExportAll("c")>>, {}),
    Text({ImportName("b", "x")}, <<Export("i", "x")>>, {"w"}),
    Text({ImportAll("b")}, <<Export("i", "y"), Export("v", "x")>>, {"v"}),
    Text({}, <<ReExportAll("b"), ReExportAll("c")>>, {}),
    Text({}, <<ReExportAll("c"), ReExportAll("e")>>, {}),
    Text({ImportName("b", "y")}, <<Export("v", "default"), ReExportAll("c")>>, {"i"}) }

LeafTexts ==
  { Text({}, <<Export("v", "x"), Export("w", "y")>>, {}),
    Text({}, <<ReExportAll("a"), Export("v", "y")>>, {}),
    Text({}, <<ReExport("e", "x", "x"), Export("v", "default")>>, {}),
    Text({ImportAll("a")}, <<Export("v", "x"), Export("w", "y")>>, {"i"}),
    Text({ImportName("d", "x")}, <<ReExport("a", "x", "y"), Export("i", "x")>>, {}) }

LastTexts ==
  { Text({}, <<Export("v", "x")>>, {"w"}),
    Text({}, <<ReExportAll("b"), Export("w", "y")>>, {}),
    Blank }

\* A module that reads an import inside a `try' only, and one that calls eval
\* there.
GuardedText == [Text({ImportName("a", "x")}, <<>>, {"v"}) EXCEPT !.guardedLoads = {"i", "v"}]
GuardedEvalText == [Text({ImportName("a", "x")}, <<Export("v", "x")>>, {}) EXCEPT !.guardedEval = TRUE]

\* A module that assigns to an import it never reads.
WriteOnlyText == [Text({ImportName("a", "x")}, <<>>, {"v"}) EXCEPT !.writes = {"i", "v"}]

-----------------------------------------------------------------------------
Internal(m) == [kind |-> "Internal", module |-> m]
External    == [kind |-> "External", key |-> "outside"]
Opaque      == [kind |-> "Opaque", key |-> "outside"]

\* What a host answers for every request string.
FullHost ==
  [s \in Sources |-> CASE s = "a" -> {Internal(2)} [] s = "b" -> {Internal(3)}
                       [] s = "c" -> {Internal(4)} [] s = "d" -> {Internal(1)}
                       [] s = "e" -> {External}]
SilentHost      == [FullHost EXCEPT !["b"] = {}]
UndecidedHost   == [FullHost EXCEPT !["c"] = {Internal(3), Internal(4)}]
ManagedHost     == [FullHost EXCEPT !["b"] = {Opaque}]

Requests(text) ==
  {<<"StaticImport", i.source>> : i \in text.imports}
    \cup {<<"ReExport", e.source>> : e \in {x \in ToSet(text.exports) : HasSource(x)}}
    \cup {<<"DynamicImport", d.source>> : d \in {x \in text.dynamic : x.constant}}
    \cup {<<"CommonJsRequire", s>> : s \in text.requires}

Dependencies(texts, host) ==
  UNION {UNION {{[importer |-> m, request |-> r[1], source |-> r[2], target |-> t] :
                   t \in host[r[2]]} : r \in Requests(texts[m])} : m \in DOMAIN texts}

Bound(text) == text.loads \cup text.guardedLoads \cup text.writes \cup {"v", "w"} \cup
               (IF \E i \in text.imports : i.kind # "Bare" THEN {"i"} ELSE {})

Program(texts, host, entries) ==
  [ modules        |-> Modules,
    entries        |-> entries,
    dependencies   |-> Dependencies(texts, host),
    imports        |-> [m \in Modules |-> texts[m].imports],
    exports        |-> [m \in Modules |-> texts[m].exports],
    bindings       |-> [m \in Modules |-> Bound(texts[m])],
    loads          |-> [m \in Modules |-> texts[m].loads],
    guardedLoads   |-> [m \in Modules |-> texts[m].guardedLoads],
    writes         |-> [m \in Modules |-> texts[m].writes],
    directEval     |-> {m \in Modules : texts[m].eval},
    guardedEval    |-> {m \in Modules : texts[m].guardedEval},
    dynamicImports |-> [m \in Modules |-> texts[m].dynamic] ]

ProgramsOf(entryTexts, hosts, entrySets) ==
  {Program(<<t1, t2, t3, t4>>, h, e) :
     t1 \in entryTexts, t2 \in MiddleTexts, t3 \in LeafTexts, t4 \in LastTexts,
     h \in hosts, e \in entrySets}
-----------------------------------------------------------------------------
(* The same programs as a host hands them over                             *)

KeyOfModule == <<"m1", "m2", "m3", "m4">>

InputTarget(t) == IF t.kind = "Internal" THEN [kind |-> "Internal", key |-> KeyOfModule[t.module]]
                  ELSE t

IrOf(text) == [imports |-> text.imports, exports |-> text.exports, bindings |-> Bound(text),
               loads |-> text.loads, guardedLoads |-> text.guardedLoads,
               writes |-> text.writes, eval |-> text.eval, guardedEval |-> text.guardedEval,
               dynamic |-> text.dynamic]

InputModule(m, text, host) ==
  [ key       |-> KeyOfModule[m],
    ir        |-> IrOf(text),
    requests  |-> UNION {{[request |-> r[1], source |-> r[2], target |-> InputTarget(t)] :
                            t \in host[r[2]]} : r \in Requests(text)},
    parses    |-> TRUE,
    generates |-> TRUE ]

Input(texts, host, entrypoints) ==
  [ modules     |-> [m \in DOMAIN texts |-> InputModule(m, texts[m], host)],
    entrypoints |-> entrypoints ]

InputsOf(entryTexts, middleTexts, leafTexts, hosts, entrypoints) ==
  {Input(<<t1, t2, t3, t4>>, h, e) :
     t1 \in entryTexts, t2 \in middleTexts, t3 \in leafTexts, t4 \in LastTexts,
     h \in hosts, e \in entrypoints}
=============================================================================
