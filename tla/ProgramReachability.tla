------------------------- MODULE ProgramReachability -------------------------
(***************************************************************************)
(* Joint module-evaluation, binding and export reachability                *)
(* (crates/evrel-middle/src/js/analysis/program_reachability.rs).          *)
(*                                                                         *)
(* Two nested worklists.  The outer one settles facts: a module is         *)
(* evaluated, a binding is used, a namespace is used.  When it runs dry,   *)
(* compute_live_exports starts an inner worklist of export demands from    *)
(* what is settled; the bindings the demanded exports require go back into *)
(* the outer worklist, until none is new.  Any request the host did not    *)
(* answer uniquely makes the analysis give up and retain everything.       *)
(***************************************************************************)
EXTENDS ReachabilityRules, WorkQueue

VARIABLES
  program,      \* the program under analysis
  phase,        \* "entries", "facts", "exports" or "done"
  queue,        \* work: the facts still to be settled
  settled,      \* evaluated_modules, live_bindings, live_namespaces in one set
  demandQueue,  \* compute_live_exports: work
  demands,      \* compute_live_exports: every demand pushed so far
  required,     \* compute_live_exports: required_bindings
  liveExports,  \* compute_live_exports: live_exports, as <<module, index>>
  retained      \* the answer is retain_all

reachVars == <<phase, queue, settled, demandQueue, demands, required, liveExports, retained>>
vars == <<program, reachVars>>

-----------------------------------------------------------------------------
(* The answer                                                              *)

IsModuleEvaluated(m) == EvaluateModule(m) \in settled
IsBindingLive(m, b)  == UseBinding(m, b) \in settled
IsExportLive(m, i)   == <<m, i>> \in liveExports

\* MUTANT: giving up returns what has been settled so far.
RetainSettled ==
  /\ phase' = "done"
  /\ retained' = TRUE
  /\ UNCHANGED <<program, queue, settled, demandQueue, demands, required, liveExports>>

\* retain_all
RetainAll ==
  /\ phase' = "done"
  /\ retained' = TRUE
  /\ settled' = AllFacts(program)
  /\ liveExports' = AllExports(program)
  /\ queue' = <<>>
  /\ demandQueue' = <<>>
  /\ demands' = {}
  /\ required' = {}
  /\ UNCHANGED program

-----------------------------------------------------------------------------
(* Steps of `analyze'                                                      *)

ReachabilityInit ==
  /\ phase = "entries"
  /\ queue = <<>>
  /\ settled = {}
  /\ demandQueue = <<>>
  /\ demands = {}
  /\ required = {}
  /\ liveExports = {}
  /\ retained = FALSE

Init == program \in Programs /\ ReachabilityInit

\* The loop over the entry modules.
SeedEntries ==
  /\ phase = "entries"
  /\ \A m \in program.entries : EntryExportsResolved(program, m)
  /\ queue' = PushAll(<<>>, UNION {EntryFacts(program, m) : m \in program.entries})
  /\ phase' = "facts"
  /\ UNCHANGED <<program, settled, demandQueue, demands, required, liveExports, retained>>

RetainUnresolvedEntry ==
  /\ phase = "entries"
  /\ \E m \in program.entries : ~EntryExportsResolved(program, m)
  /\ RetainAll

\* A fact that was settled before is dropped.
SkipSettled ==
  /\ phase = "facts" /\ ~IsEmpty(queue)
  /\ Head(queue) \in settled
  /\ queue' = Tail(queue)
  /\ UNCHANGED <<program, phase, settled, demandQueue, demands, required, liveExports, retained>>

SettleFact ==
  /\ phase = "facts" /\ ~IsEmpty(queue)
  /\ Head(queue) \notin settled
  /\ ~GivesUp(program, Head(queue))
  /\ settled' = settled \cup {Head(queue)}
  /\ queue' = PushAll(Tail(queue), Pushed(program, Head(queue)))
  /\ UNCHANGED <<program, phase, demandQueue, demands, required, liveExports, retained>>

RetainUnresolvedFact ==
  /\ phase = "facts" /\ ~IsEmpty(queue)
  /\ Head(queue) \notin settled
  /\ GivesUp(program, Head(queue))
  /\ RetainAll

\* compute_live_exports is called on what is settled so far.
StartExports ==
  /\ phase = "facts" /\ IsEmpty(queue)
  /\ phase' = "exports"
  /\ demands' = InitialDemands(program, settled)
  /\ demandQueue' = Listing(InitialDemands(program, settled))
  /\ required' = {}
  /\ liveExports' = {}
  /\ UNCHANGED <<program, queue, settled, retained>>

\* MUTANT: a demand is pushed although it has been pushed before.
NewDemandsUnchecked(d) == Forwarded(program, d)

\* push_export_demand
NewDemands(d) == Forwarded(program, d) \ demands

MeetDemand ==
  /\ phase = "exports" /\ ~IsEmpty(demandQueue)
  /\ LET d == Head(demandQueue)
     IN  /\ demands' = demands \cup NewDemands(d)
         /\ demandQueue' = Tail(demandQueue) \o Listing(NewDemands(d))
         /\ required' = required \cup RequiredBindings(program, d)
         /\ liveExports' = liveExports \cup ({d.module} \X DemandedExports(program, d))
  /\ UNCHANGED <<program, phase, queue, settled, retained>>

\* MUTANT: only what an entry module exports is looked at again.
MissingBindingsOfEntries ==
  {x \in required : x[1] \in program.entries /\ ~IsBindingLive(x[1], x[2])}

\* The required bindings that are not live yet.
MissingBindings == {x \in required : ~IsBindingLive(x[1], x[2])}

RequireBindings ==
  /\ phase = "exports" /\ IsEmpty(demandQueue)
  /\ MissingBindings # {}
  /\ queue' = PushAll(queue, {UseBinding(x[1], x[2]) : x \in MissingBindings})
  /\ phase' = "facts"
  /\ UNCHANGED <<program, settled, demandQueue, demands, required, liveExports, retained>>

Finish ==
  /\ phase = "exports" /\ IsEmpty(demandQueue)
  /\ MissingBindings = {}
  /\ phase' = "done"
  /\ UNCHANGED <<program, queue, settled, demandQueue, demands, required, liveExports, retained>>

Analyze ==
  \/ SeedEntries
  \/ RetainUnresolvedEntry
  \/ SkipSettled
  \/ SettleFact
  \/ RetainUnresolvedFact
  \/ StartExports
  \/ MeetDemand
  \/ RequireBindings
  \/ Finish

\* The answer has been returned.
Returned == phase = "done" /\ UNCHANGED vars

Next == Analyze \/ Returned

\* The analysis is one call: it runs until it returns.
Spec == Init /\ [][Next]_vars /\ WF_vars(Analyze)

-----------------------------------------------------------------------------
(* Invariants                                                              *)

\* Every variable has its type.  No worklist holds an item twice, whatever is
\* pushed while it waits, and a demand that waits has been recorded.  An idle
\* worklist is an empty one: no fact waits while export demands are met,
\* nothing waits in the answer.
TypeOK ==
  /\ program \in JsProgramIr /\ WellFormed(program)
  /\ phase \in {"entries", "facts", "exports", "done"}
  /\ queue \in Seq(ReachabilityFact)
  /\ settled \subseteq ReachabilityFact
  /\ demandQueue \in Seq(ExportDemand)
  /\ demands \subseteq ExportDemand
  /\ required \subseteq ProgramBinding
  /\ liveExports \subseteq Module \X Nat
  /\ retained \in BOOLEAN
  /\ IsInjective(queue) /\ IsInjective(demandQueue)
  /\ ToSet(demandQueue) \subseteq demands
  /\ queue # <<>> => phase = "facts"
  /\ demandQueue # <<>> => phase = "exports"
  /\ retained => phase = "done"

\* The exports the demands in asked make live.
ExportsOf(asked) == UNION {{d.module} \X DemandedExports(program, d) : d \in asked}

\* The two worklists, run in alternation with the inner one started afresh
\* every time, do not stop early: unless everything is retained, the answer
\* is closed under every rule at once, and no fact in it called for giving up.
AnswerIsClosed ==
  phase = "done" /\ ~retained =>
    /\ ClosedUnderUse(program, settled, demands)
    /\ \A f \in settled : ~GivesUp(program, f)
    /\ liveExports = ExportsOf(demands)

\* While the analysis runs, whatever follows from the entry modules or from a
\* settled fact is settled or waits to be.
FactsAccountedFor ==
  /\ phase # "entries" =>
       \A m \in program.entries :
         /\ EntryExportsResolved(program, m)
         /\ EntryFacts(program, m) \subseteq settled \cup ToSet(queue)
  /\ \A f \in settled :
       ~GivesUp(program, f) /\ Pushed(program, f) \subseteq settled \cup ToSet(queue)

\* Only what is demanded is live.  From the start of compute_live_exports on, a
\* demand that does not wait has been met: what it forwards has been asked for,
\* what it makes live and what it requires has been recorded.
DemandsAccountedFor ==
  /\ liveExports \subseteq ExportsOf(demands)
  /\ phase \in {"exports", "done"} =>
       /\ InitialDemands(program, settled) \subseteq demands
       /\ ToSet(demandQueue) \subseteq demands
       /\ \A d \in demands \ ToSet(demandQueue) :
            /\ Forwarded(program, d) \subseteq demands
            /\ RequiredBindings(program, d) \subseteq required
            /\ {d.module} \X DemandedExports(program, d) \subseteq liveExports

\* AnswerIsClosed, strengthened to hold from step to step.
Accounting ==
  /\ retained => /\ settled = AllFacts(program) /\ liveExports = AllExports(program)
                 /\ demands = {} /\ required = {}
  /\ ~retained =>
       /\ FactsAccountedFor
       /\ DemandsAccountedFor
       /\ phase = "done" => MissingBindings = {}

-----------------------------------------------------------------------------
(* What the answer must mean for the program it is about, stated with the  *)
(* export resolver of ProgramLinkage, which the analysis uses for imports  *)
(* only: that exports are kept alive along the same paths is what could be *)
(* wrong.                                                                  *)

\* The binding or the namespace a found export stands for.
Denotes(p, m, name, target) == ResolveExport(p, m, name) = Found(target)

\* The modules whose namespace a program can look into: those of the settled
\* namespace facts, the entry modules, and what they re-export as a namespace.
ObservableNamespaces ==
  LeastClosed(Module,
    [S \in SUBSET Module |->
       S \cup {n \in program.modules : \E m \in S, x \in Name :
                 Denotes(program, m, x, NamespaceTarget([kind |-> "Internal", module |-> n]))}],
    program.entries \cup {m \in program.modules : UseNamespace(m) \in settled})

\* The names live imports ask for, each of the module it asks.
ImportedNames ==
  UNION {UNION {InternalTarget(program, m, "StaticImport", i.source)
                  \X {IF i.kind = "Default" THEN "default" ELSE i.imported} :
                i \in {x \in program.imports[m] : /\ x.kind \in {"Default", "Named"}
                                                  /\ IsBindingLive(m, x.binding)}} :
         m \in program.modules}

Answered == phase = "done" /\ ~retained

\* Whatever name is looked up in an observable namespace, the binding that
\* export resolution finds is live and its module is evaluated; and every
\* export that such a name, or a name a live import asks for, is looked up
\* through on the way is live, those of an `export *' that turns out not to
\* carry the name included.  The demand walk of compute_live_exports loses no
\* export that resolve_export looks at, however many stars, renames and cycles
\* lie between: without it a name could be found elsewhere after pruning.
ObservableExportsLive ==
  Answered =>
    /\ \A m \in ObservableNamespaces, x \in Name, t \in ProgramBinding :
         Denotes(program, m, x, BindingTarget(t[1], t[2])) =>
           IsBindingLive(t[1], t[2]) /\ IsModuleEvaluated(t[1])
    /\ \A x \in NamesBehind(program, (ObservableNamespaces \X Name) \cup ImportedNames) :
         \A i \in LookupPositions(program, x[1], x[2]) : IsExportLive(x[1], i)

\* What running a module reads outside a `try': with eval, any of its bindings.
ReadBindings(p, m) ==
  p.loads[m] \cup {b \in p.bindings[m] : m \in p.directEval}

\* Nothing that runs is left out of the answer, be it the least one or the
\* whole program.  Entry modules are evaluated, and so is every module that an
\* evaluated one requests, whatever the kind of the request; what an evaluated
\* module reads is live; and a live binding belongs to an evaluated module and
\* keeps the binding alive that it is linked to.
UsedBindingsLinked ==
  phase = "done" =>
    /\ \A m \in program.entries : IsModuleEvaluated(m)
    /\ \A d \in program.dependencies :
         IsModuleEvaluated(d.importer) /\ d.target.kind = "Internal" =>
           IsModuleEvaluated(d.target.module)
    /\ \A m \in program.modules : \A b \in ReadBindings(program, m) :
         IsModuleEvaluated(m) => IsBindingLive(m, b)
    /\ \A m \in program.modules, b \in Binding :
         IsBindingLive(m, b) =>
           /\ IsModuleEvaluated(m)
           /\ \A t \in ProgramBinding :
                BindingTarget(t[1], t[2]) \in ImportedBinding(program, m, b) =>
                  IsBindingLive(t[1], t[2])

\* Every fact, every demand and every required binding is about a module the
\* program owns and a binding that module has: no `expect' of the analysis
\* ("evaluated module must remain live" and its like) fails, and what is live
\* in the answer exists.
OnlyOwnedEntities ==
  /\ \A f \in ToSet(queue) \cup settled :
       /\ f.module \in program.modules
       /\ f.kind = "UseBinding" => f.binding \in program.bindings[f.module]
  /\ \A d \in demands : d.module \in program.modules
  /\ \A x \in required : x[1] \in program.modules /\ x[2] \in program.bindings[x[1]]
  /\ liveExports \subseteq AllExports(program)

\* The analysis always returns: every fact is settled once and every demand
\* met once per round, and every further round settles a new binding.
Terminates == <>(phase = "done")

NoAnswer == [given |-> FALSE]

CurrentAnswer ==
  IF phase = "done" THEN [facts |-> settled, exports |-> liveExports, given |-> TRUE]
  ELSE NoAnswer

Promise ==
  INSTANCE ReachabilityAnswer WITH
    Subject <- {p \in JsProgramIr : WellFormed(p)},
    CorrectAnswer <- CorrectAnswer, NoAnswer <- NoAnswer,
    subject <- program, answer <- CurrentAnswer

\* The two nested worklists compute the least answer, or retain everything
\* exactly when a fact of the least answer is undecidable.
ImplementsPromise == Promise!Spec
=============================================================================
