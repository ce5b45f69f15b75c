---------------------------- MODULE EdgeTransfers ----------------------------
(***************************************************************************)
(* The assignments that carry the arguments of one control flow edge to    *)
(* the parameters of its target (crates/evrel-codegen-web/src/js/plan/     *)
(* edge.rs).  In the IR all parameters change at once; the output assigns  *)
(* one JavaScript local after another, and borrows one scratch local for   *)
(* all cycles of an edge.                                                  *)
(***************************************************************************)
EXTENDS Naturals, Sequences, FiniteSets, Functions

CONSTANTS
  Local,    \* the locals planned for the values of the function
  Outside,  \* sources that no assignment of the edge changes: bindings, inline expressions
  Scratch,  \* the local that the schedule allocates when it first needs one
  Missing,  \* the representation of a value that gets none
  Edges     \* the edges to plan: the representations of their parameters and arguments

ASSUME PlacesDiffer ==
  /\ Local \cap Outside = {}
  /\ Scratch \notin Local \cup Outside
  /\ Missing \notin Local \cup Outside \cup {Scratch}

Source == Local \cup Outside

\* Every block parameter that is a local has one of its own.
EdgeShape ==
  [parameters : Seq(Local \cup {Missing}), arguments : Seq(Source \cup {Missing})]

ASSUME EdgesAreShaped ==
  /\ Edges \subseteq EdgeShape
  /\ \A e \in Edges :
       /\ Len(e.parameters) = Len(e.arguments)
       /\ \A i, j \in DOMAIN e.parameters :
            e.parameters[i] = e.parameters[j] /\ e.parameters[i] # Missing => i = j

VARIABLES
  edge,     \* the edge that is planned
  next,     \* the position of the argument to look at
  copies,   \* JsMove of build_parallel_copies: destination -> source
  pending,  \* the copies that schedule_parallel_copies has not emitted yet
  moves,    \* the assignments it has emitted, as pairs <<destination, source>>
  memory,   \* what each place holds, once the emitted assignments have run
  phase     \* "collect", "schedule", "done" or "rejected"

vars == <<edge, next, copies, pending, moves, memory, phase>>

Place == Source \cup {Scratch}

\* Before the edge is taken, a place holds what it is named for.
Init ==
  /\ edge \in Edges
  /\ next = 1
  /\ copies = <<>>
  /\ pending = <<>>
  /\ moves = <<>>
  /\ memory = [p \in Place |-> p]
  /\ phase = "collect"

-----------------------------------------------------------------------------
(* build_parallel_copies                                                   *)

With(f, d, s) == [x \in DOMAIN f \cup {d} |-> IF x = d THEN s ELSE f[x]]

\* An argument that is in place already, or a copy that is planned already.
IsNoCopy(d, s) == s = d \/ (d \in DOMAIN copies /\ copies[d] = s)

\* MUTANT: the representation of the argument is not looked at.
IsUnsupportedTarget(d, s) == d = Missing

IsUnsupported(d, s) == Missing \in {d, s} \/ (d \in DOMAIN copies /\ copies[d] # s)

PlanCopy ==
  /\ phase = "collect"
  /\ next <= Len(edge.arguments)
  /\ LET d == edge.parameters[next]
         s == edge.arguments[next]
     IN  IF IsUnsupported(d, s)
         THEN /\ phase' = "rejected"
              /\ UNCHANGED <<next, copies>>
         ELSE /\ next' = next + 1
              /\ copies' = IF IsNoCopy(d, s) THEN copies ELSE With(copies, d, s)
              /\ UNCHANGED phase
  /\ UNCHANGED <<edge, pending, moves, memory>>

StartSchedule ==
  /\ phase = "collect"
  /\ next > Len(edge.arguments)
  /\ pending' = copies
  /\ phase' = "schedule"
  /\ UNCHANGED <<edge, next, copies, moves, memory>>

-----------------------------------------------------------------------------
(* schedule_parallel_copies.  The code takes the first copy that fits; the *)
(* model takes any.                                                        *)

\* The output of an assignment, and the effect it has when it runs.
Emit(d, s) ==
  /\ moves' = Append(moves, <<d, s>>)
  /\ memory' = [memory EXCEPT ![d] = memory[s]]

\* No pending copy reads the destination.
Ready(d) == \A e \in DOMAIN pending : pending[e] # d

\* MUTANT: every pending copy reads the scratch local from now on.
RedirectedAll(preserved) == [e \in DOMAIN pending |-> Scratch]

Redirected(preserved) ==
  [e \in DOMAIN pending |-> IF pending[e] = preserved THEN Scratch ELSE pending[e]]

EmitReady ==
  /\ phase = "schedule"
  /\ \E d \in DOMAIN pending :
       /\ Ready(d)
       /\ Emit(d, pending[d])
       /\ pending' = Restrict(pending, DOMAIN pending \ {d})
  /\ UNCHANGED <<edge, next, copies, phase>>

\* MUTANT: the planner waits for a copy that becomes ready.
WaitForReady ==
  /\ phase = "schedule"
  /\ DOMAIN pending # {}
  /\ \A d \in DOMAIN pending : ~Ready(d)
  /\ UNCHANGED vars

BreakCycle ==
  /\ phase = "schedule"
  /\ \A d \in DOMAIN pending : ~Ready(d)
  /\ \E preserved \in DOMAIN pending :
       /\ Emit(Scratch, preserved)
       /\ pending' = Redirected(preserved)
  /\ UNCHANGED <<edge, next, copies, phase>>

FinishSchedule ==
  /\ phase = "schedule"
  /\ DOMAIN pending = {}
  /\ phase' = "done"
  /\ UNCHANGED <<edge, next, copies, pending, moves, memory>>

Plan == PlanCopy \/ StartSchedule \/ EmitReady \/ BreakCycle \/ FinishSchedule

Planned == phase \in {"done", "rejected"} /\ UNCHANGED vars

Next == Plan \/ Planned

\* The planner is a sequential function: it takes every step that it can take.
Spec == Init /\ [][Next]_vars /\ WF_vars(Plan)

-----------------------------------------------------------------------------
(* Properties                                                              *)

TypeOK ==
  /\ edge \in EdgeShape
  /\ next \in 1..(Len(edge.arguments) + 1)
  /\ phase \in {"collect", "schedule", "done", "rejected"}
  /\ DOMAIN copies \subseteq Local
  /\ \A d \in DOMAIN copies : copies[d] \in Source
  /\ DOMAIN pending \subseteq DOMAIN copies
  /\ \A d \in DOMAIN pending : pending[d] \in Place
  /\ moves \in Seq((Local \cup {Scratch}) \X Place)
  /\ memory \in [Place -> Place]

\* What local p has to hold once the edge is taken.
Parallel(p) ==
  IF \E i \in DOMAIN edge.parameters : edge.parameters[i] = p
  THEN edge.arguments[CHOOSE i \in DOMAIN edge.parameters : edge.parameters[i] = p]
  ELSE p

\* The assignments, one after the other, do what the edge does at once: every
\* parameter gets the value its argument had before the edge was taken, also in
\* a swap or a rotation, and every other local keeps its value.
TransferIsSimultaneous ==
  phase = "done" => \A p \in Local : memory[p] = Parallel(p)

\* The schedule breaks a cycle only where there is one and only once each: an
\* edge without cycles costs one assignment for each copy, and n copies never
\* cost more than n + n / 2 assignments.
ScratchOnlyForCycles ==
  phase = "done" =>
    /\ 2 * Len(moves) <= 3 * Cardinality(DOMAIN copies)
    /\ (\E i \in DOMAIN moves : moves[i][1] = Scratch) =>
         \E S \in (SUBSET DOMAIN copies) \ {{}} : S = {copies[d] : d \in S}

\* Planning an edge ends.
PlanningEnds == <>(phase \in {"done", "rejected"})
=============================================================================
