----------------------- MODULE FunctionEditor_proofs -----------------------
(***************************************************************************)
(* The editor keeps use lists, places, definitions and edges exact,        *)
(* whatever a pass asks of it: the proofs that UsesExact, PlacesExact,     *)
(* DefinitionsExact, EdgesFit and TypeOK hold in every state of            *)
(* OptimizeFunction and RemovalGoesThrough of every step, for every set    *)
(* of functions, every pass and every batch of calls.                      *)
(***************************************************************************)
EXTENDS OptimizeFunction, FiniteSetTheorems, SequenceTheorems, WellFoundedInduction, TLAPS

\* Operand u of f, an operation and a position, reads v.
Reads(f, u, v) ==
  \E o \in DOMAIN f.operations :
    \E i \in DOMAIN f.operations[o].operands : u = <<o, i>> /\ f.operations[o].operands[i] = v

\* What UsesAreExact says, one operand at a time.
ListsWhatReads(f) ==
  /\ DOMAIN f.uses = DOMAIN f.values
  /\ \A v \in DOMAIN f.values : \A u : u \in f.uses[v] <=> Reads(f, u, v)

IsExact(f) == IsFunction(f) /\ UsesAreExact(f)

-----------------------------------------------------------------------------
(* Use lists, operand by operand.                                          *)

\* In a function, use lists are exact precisely if they list what reads.
LEMMA ExactPointwise ==
  ASSUME NEW f, IsFunction(f)
  PROVE  UsesAreExact(f) <=> ListsWhatReads(f)
<1>1. \A o \in DOMAIN f.operations : ToSet(f.operations[o].operands) \subseteq DOMAIN f.values
  BY LenProperties DEF IsFunction, ToSet
<1> DEFINE Readers(v) == UNION {{<<o, i>> : i \in {j \in DOMAIN f.operations[o].operands :
                                                     f.operations[o].operands[j] = v}} :
                                  o \in DOMAIN f.operations}
<1>2. \A v : \A u : u \in Readers(v) <=> Reads(f, u, v)
  BY DEF Reads
<1>3. ASSUME NEW v PROVE f.uses[v] = Readers(v) <=> \A u : u \in f.uses[v] <=> Reads(f, u, v)
  <2> HIDE DEF Readers
  <2> QED
    BY <1>2
<1> QED
  BY <1>1, <1>3 DEF UsesAreExact, ListsWhatReads

\* An operand is a position of the operands, and reads a value.
LEMMA OperandsAreValues ==
  ASSUME NEW f, IsFunction(f), NEW o \in DOMAIN f.operations
  PROVE  LET s == f.operations[o].operands
         IN  /\ Len(s) \in Nat /\ DOMAIN s = 1..Len(s)
             /\ \A i \in 1..Len(s) : s[i] \in DOMAIN f.values
BY LenProperties DEF IsFunction

\* Giving an operation new operands, with every use moved along, is exact.
LEMMA RewiredIsExact ==
  ASSUME NEW f, IsExact(f), NEW o \in DOMAIN f.operations, NEW update,
         DOMAIN update = DOMAIN f.operations[o],
         update.operands \in Seq(DOMAIN f.values)
  PROVE  IsExact(Rewired(f, o, update))
<1> DEFINE g == Rewired(f, o, update)
           s == f.operations[o].operands
           t == update.operands
<1>1. /\ DOMAIN g = DOMAIN f /\ g.values = f.values
      /\ DOMAIN g.operations = DOMAIN f.operations
      /\ \A p \in DOMAIN f.operations : g.operations[p] = IF p = o THEN update ELSE f.operations[p]
      /\ g.uses = Attached(Detached(f.uses, o, s, 1), o, t, 1)
  BY DEF Rewired, IsExact, IsFunction
<1>2. IsFunction(g)
  BY <1>1 DEF IsExact, IsFunction
<1>3. ListsWhatReads(f)
  BY ExactPointwise DEF IsExact
<1>4. /\ Len(s) \in Nat /\ DOMAIN s = 1..Len(s)
      /\ Len(t) \in Nat /\ DOMAIN t = 1..Len(t)
  BY OperandsAreValues, LenProperties DEF IsExact
<1>5. DOMAIN g.uses = DOMAIN g.values
  BY <1>1, <1>3 DEF Attached, Detached, ListsWhatReads
<1>6. ASSUME NEW v \in DOMAIN f.values, NEW u
      PROVE  u \in g.uses[v] <=> Reads(g, u, v)
  <2>1. u \in g.uses[v] <=> \/ u \in f.uses[v] /\ ~ \E i \in 1..Len(s) : u = <<o, i>> /\ s[i] = v
                            \/ \E i \in 1..Len(t) : u = <<o, i>> /\ t[i] = v
    BY <1>1, <1>3 DEF Attached, Detached, ListsWhatReads
  <2>2. u \in f.uses[v] <=> Reads(f, u, v)
    BY <1>3 DEF ListsWhatReads
  <2> HIDE DEF g
  <2> QED
    BY <2>1, <2>2, <1>1, <1>4 DEF Reads
<1>7. ListsWhatReads(g)
  <2> HIDE DEF g
  <2> QED
    BY <1>1, <1>5, <1>6 DEF ListsWhatReads
<1> QED
  BY <1>2, <1>7, ExactPointwise DEF IsExact

-----------------------------------------------------------------------------
(* The calls that change operands.                                         *)

\* A part of the operands are operands.
LEMMA PartOfOperands ==
  ASSUME NEW T, NEW s \in Seq(T), NEW m \in Nat, NEW n \in Nat, n <= Len(s)
  PROVE  SubSeq(s, m + 1, n) \in Seq(T)
<1>1. Len(s) \in Nat /\ \A i \in 1..Len(s) : s[i] \in T
  BY LenProperties
<1>2. \A i \in (m + 1)..n : s[i] \in T
  BY <1>1
<1> QED
  BY <1>2, SubSeqProperties

\* replace_operation_with_constant keeps use lists exact.
LEMMA ReplaceWithConstantIsExact ==
  ASSUME NEW f, IsExact(f), NEW o, NEW constant, CanReplaceWithConstant(f, o)
  PROVE  IsExact(ReplaceWithConstant(f, o, constant))
<1> DEFINE update == [f.operations[o] EXCEPT !.kind = "Constant", !.detail = constant,
                                             !.own = 0, !.operands = <<>>]
<1>1. o \in DOMAIN f.operations
  BY DEF CanReplaceWithConstant
<1>2. DOMAIN update = DOMAIN f.operations[o] /\ update.operands = <<>>
  BY <1>1 DEF IsExact, IsFunction
<1>3. update.operands \in Seq(DOMAIN f.values)
  BY <1>2
<1> HIDE DEF update
<1>4. IsExact(Rewired(f, o, update))
  BY <1>1, <1>2, <1>3, RewiredIsExact
<1> QED
  BY <1>4 DEF ReplaceWithConstant, update

\* replace_if_with_jump keeps use lists exact.
LEMMA ReplaceIfWithJumpIsExact ==
  ASSUME NEW f, IsExact(f), NEW o, NEW i, CanReplaceIfWithJump(f, o, i)
  PROVE  IsExact(ReplaceIfWithJump(f, o, i))
<1> DEFINE op == f.operations[o]
           update == [op EXCEPT !.kind = "Jump", !.own = 0, !.structural = {},
                                !.operands = Arguments(op, i), !.targets = <<op.targets[i]>>]
<1>1. o \in DOMAIN f.operations /\ RangeIsValid(op, i)
  BY DEF CanReplaceIfWithJump
<1>2. DOMAIN update = DOMAIN op /\ update.operands = Arguments(op, i)
  BY <1>1 DEF IsExact, IsFunction
<1>3. op.operands \in Seq(DOMAIN f.values)
  BY <1>1 DEF IsExact, IsFunction
<1>4. Arguments(op, i) \in Seq(DOMAIN f.values)
  <2> DEFINE first == FirstArgument(op, i)
             last  == first + op.targets[i].count
  <2>1. first \in Nat /\ last \in Nat /\ last <= Len(op.operands)
    BY <1>1 DEF RangeIsValid
  <2>2. Arguments(op, i) = SubSeq(op.operands, first + 1, last)
    BY DEF Arguments
  <2> HIDE DEF first, last
  <2> QED
    BY <2>1, <2>2, <1>3, PartOfOperands
<1> HIDE DEF update
<1>5. IsExact(Rewired(f, o, update))
  BY <1>1, <1>2, <1>4, RewiredIsExact
<1> QED
  BY <1>5 DEF ReplaceIfWithJump, update

\* replace_successor keeps use lists exact: the arguments between those before
\* and those after are replaced.
LEMMA ReplaceSuccessorIsExact ==
  ASSUME NEW f, IsExact(f), NEW o, NEW i, NEW target, NEW arguments,
         CanReplaceSuccessor(f, o, i, target, arguments)
  PROVE  IsExact(ReplaceSuccessor(f, o, i, target, arguments))
<1> DEFINE op     == f.operations[o]
           first  == FirstArgument(op, i)
           after  == first + op.targets[i].count
           new    == SubSeq(op.operands, 1, first) \o arguments
                       \o SubSeq(op.operands, after + 1, Len(op.operands))
           update == [op EXCEPT !.operands = new,
                                !.targets[i].block = target, !.targets[i].count = Len(arguments)]
<1>1. /\ o \in DOMAIN f.operations /\ RangeIsValid(op, i)
      /\ arguments \in Seq(DOMAIN f.values)
  BY DEF CanReplaceSuccessor
<1>2. DOMAIN update = DOMAIN op /\ update.operands = new
  <2> HIDE DEF new
  <2> QED
    BY <1>1 DEF IsExact, IsFunction
<1>3. op.operands \in Seq(DOMAIN f.values) /\ Len(op.operands) \in Nat
  BY <1>1, LenProperties DEF IsExact, IsFunction
<1>4. first \in Nat /\ after \in Nat /\ first <= Len(op.operands)
  BY <1>1, <1>3 DEF RangeIsValid
<1>5. SubSeq(op.operands, 1, first) \in Seq(DOMAIN f.values)
  <2>1. SubSeq(op.operands, 0 + 1, first) \in Seq(DOMAIN f.values)
    <3> HIDE DEF first
    <3> QED
      BY <1>3, <1>4, PartOfOperands
  <2> QED
    BY <2>1
<1>6. SubSeq(op.operands, after + 1, Len(op.operands)) \in Seq(DOMAIN f.values)
  <2> DEFINE s == op.operands
             n == Len(s)
             m == after
  <2>1. s \in Seq(DOMAIN f.values) /\ m \in Nat /\ n \in Nat /\ n <= Len(s)
    BY <1>3, <1>4
  <2> HIDE DEF s, n, m
  <2>2. SubSeq(s, m + 1, n) \in Seq(DOMAIN f.values)
    BY <2>1, PartOfOperands
  <2> QED
    BY <2>2 DEF s, n, m
<1>7. new \in Seq(DOMAIN f.values)
  BY <1>1, <1>5, <1>6, ConcatProperties
<1>8. IsExact(Rewired(f, o, update))
  <2> HIDE DEF update, new
  <2> QED
    BY <1>1, <1>2, <1>7, RewiredIsExact
<1>9. ReplaceSuccessor(f, o, i, target, arguments) = Rewired(f, o, update)
  BY DEF ReplaceSuccessor
<1> QED
  BY <1>8, <1>9

\* replace_all_uses keeps use lists exact: the operands move with the list.
LEMMA ReplaceAllUsesIsExact ==
  ASSUME NEW f, IsExact(f), NEW v, NEW w, CanReplaceAllUses(f, v, w)
  PROVE  IsExact(ReplaceAllUses(f, v, w))
<1>1. CASE v = w
  BY <1>1 DEF ReplaceAllUses
<1>2. CASE v # w
  <2> DEFINE g == ReplaceAllUses(f, v, w)
             Moved(o) == [i \in DOMAIN f.operations[o].operands |->
                            IF <<o, i>> \in f.uses[v] THEN w ELSE f.operations[o].operands[i]]
  <2>1. ListsWhatReads(f) /\ {v, w} \subseteq DOMAIN f.values
    BY ExactPointwise DEF IsExact, ListsWhatReads, CanReplaceAllUses
  <2>2. /\ DOMAIN g = DOMAIN f /\ g.values = f.values
        /\ DOMAIN g.operations = DOMAIN f.operations
        /\ \A o \in DOMAIN f.operations :
             /\ DOMAIN g.operations[o] = DOMAIN f.operations[o]
             /\ g.operations[o].operands = Moved(o)
        /\ DOMAIN g.uses = DOMAIN f.uses
        /\ \A x \in DOMAIN f.uses : g.uses[x] = IF x = v THEN {} ELSE
                                                IF x = w THEN f.uses[w] \cup f.uses[v] ELSE f.uses[x]
    BY <1>2, <2>1 DEF ReplaceAllUses, Rereading, IsExact, IsFunction, ListsWhatReads
  <2>3. \A o \in DOMAIN f.operations : Moved(o) \in Seq(DOMAIN f.values)
    <3> SUFFICES ASSUME NEW o \in DOMAIN f.operations
                 PROVE  Moved(o) \in Seq(DOMAIN f.values)
      OBVIOUS
    <3>1. /\ Len(f.operations[o].operands) \in Nat
          /\ Moved(o) \in [1..Len(f.operations[o].operands) -> DOMAIN f.values]
      BY <2>1, OperandsAreValues DEF IsExact
    <3> HIDE DEF Moved
    <3> QED
      BY <3>1
  <2>4. IsFunction(g)
    <3> HIDE DEF g, Moved
    <3> QED
      BY <2>2, <2>3 DEF IsExact, IsFunction
  <2>5. \A o \in DOMAIN f.operations :
          /\ DOMAIN g.operations[o].operands = DOMAIN f.operations[o].operands
          /\ \A i \in DOMAIN f.operations[o].operands :
               g.operations[o].operands[i] = IF <<o, i>> \in f.uses[v] THEN w
                                             ELSE f.operations[o].operands[i]
    <3> SUFFICES ASSUME NEW o \in DOMAIN f.operations
                 PROVE  /\ DOMAIN Moved(o) = DOMAIN f.operations[o].operands
                        /\ \A i \in DOMAIN f.operations[o].operands :
                             Moved(o)[i] = IF <<o, i>> \in f.uses[v] THEN w
                                           ELSE f.operations[o].operands[i]
      <4> HIDE DEF g, Moved
      <4> QED
        BY <2>2
    <3> QED
      OBVIOUS
  <2> HIDE DEF g, Moved
  <2>6. ASSUME NEW x \in DOMAIN f.values, NEW u
        PROVE  u \in g.uses[x] <=> Reads(g, u, x)
    <3>1. \A y \in DOMAIN f.values : u \in f.uses[y] <=> Reads(f, u, y)
      BY <2>1 DEF ListsWhatReads
    <3>2. ASSUME Reads(g, u, x) PROVE u \in g.uses[x]
      <4>1a. PICK o \in DOMAIN f.operations :
                \E i \in DOMAIN f.operations[o].operands : u = <<o, i>> /\ g.operations[o].operands[i] = x
        BY <3>2, <2>2, <2>5 DEF Reads
      <4>1. PICK i \in DOMAIN f.operations[o].operands : u = <<o, i>> /\ g.operations[o].operands[i] = x
        BY <4>1a
      <4>2. CASE u \in f.uses[v]
        BY <4>1, <4>2, <2>1, <2>2, <2>5, <1>2 DEF ListsWhatReads
      <4>3. CASE u \notin f.uses[v]
        <5>1. f.operations[o].operands[i] = x
          BY <4>1, <4>3, <2>5
        <5>2. u \in f.uses[x]
          BY <5>1, <4>1, <3>1 DEF Reads
        <5>3. x # v
          BY <5>2, <4>3
        <5> QED
          BY <5>2, <5>3, <2>1, <2>2 DEF ListsWhatReads
      <4> QED
        BY <4>2, <4>3
    <3>3. ASSUME u \in g.uses[x] PROVE Reads(g, u, x)
      <4>1. x # v /\ (u \in f.uses[x] \/ (x = w /\ u \in f.uses[v]))
        BY <3>3, <2>1, <2>2 DEF ListsWhatReads
      <4>2. CASE u \in f.uses[v]
        <5>1a. PICK o \in DOMAIN f.operations :
                  \E i \in DOMAIN f.operations[o].operands : u = <<o, i>> /\ f.operations[o].operands[i] = v
          BY <4>2, <3>1, <2>1 DEF Reads
        <5>1. PICK i \in DOMAIN f.operations[o].operands : u = <<o, i>> /\ f.operations[o].operands[i] = v
          BY <5>1a
        <5>2. x = w
          <6>1. CASE u \in f.uses[x]
            <7>1a. PICK p \in DOMAIN f.operations :
                      \E j \in DOMAIN f.operations[p].operands : u = <<p, j>> /\ f.operations[p].operands[j] = x
              BY <6>1, <3>1 DEF Reads
            <7>1. PICK j \in DOMAIN f.operations[p].operands : u = <<p, j>> /\ f.operations[p].operands[j] = x
              BY <7>1a
            <7>2. p = o /\ j = i
              BY <7>1, <5>1
            <7> QED
              BY <7>1, <7>2, <5>1, <4>1
          <6> QED
            BY <6>1, <4>1
        <5> QED
          BY <5>1, <5>2, <4>2, <2>2, <2>5 DEF Reads
      <4>3. CASE u \notin f.uses[v]
        <5>1a. PICK o \in DOMAIN f.operations :
                  \E i \in DOMAIN f.operations[o].operands : u = <<o, i>> /\ f.operations[o].operands[i] = x
          BY <4>1, <4>3, <3>1 DEF Reads
        <5>1. PICK i \in DOMAIN f.operations[o].operands : u = <<o, i>> /\ f.operations[o].operands[i] = x
          BY <5>1a
        <5> QED
          BY <5>1, <4>3, <2>2, <2>5 DEF Reads
      <4> QED
        BY <4>2, <4>3
    <3> QED
      BY <3>2, <3>3
  <2>7. ListsWhatReads(g)
    BY <2>1, <2>2, <2>6 DEF ListsWhatReads
  <2>8. IsExact(g)
    BY <2>4, <2>7, ExactPointwise DEF IsExact
  <2> QED
    BY <2>8 DEF g
<1> QED
  BY <1>1, <1>2

-----------------------------------------------------------------------------
(* The calls that remove operations and values.                            *)

\* When the operations of O go with all they read, and the values of V with
\* them that nothing else reads, then what stays is exact.
LEMMA DroppedIsExact ==
  ASSUME NEW f, IsExact(f), NEW g, NEW O, NEW V,
         DOMAIN g = DOMAIN f,
         g.operations = Restrict(f.operations, DOMAIN f.operations \ O),
         g.values = Restrict(f.values, DOMAIN f.values \ V),
         g.uses = Restrict(DetachedAll(f, O), DOMAIN f.values \ V),
         UsedOnlyBy(f, V, O)
  PROVE  IsExact(g)
<1>1. ListsWhatReads(f)
  BY ExactPointwise DEF IsExact
<1>2. /\ DOMAIN g.operations = DOMAIN f.operations \ O
      /\ \A o \in DOMAIN f.operations \ O : g.operations[o] = f.operations[o]
      /\ DOMAIN g.values = DOMAIN f.values \ V
      /\ DOMAIN g.uses = DOMAIN f.values \ V
      /\ \A v \in DOMAIN f.values \ V : g.uses[v] = DetachedAll(f, O)[v]
  BY DEF Restrict
<1>3. ASSUME NEW v \in DOMAIN f.values \ V, NEW u
      PROVE  u \in g.uses[v] <=> Reads(g, u, v)
  <2>1. u \in f.uses[v] <=> Reads(f, u, v)
    BY <1>1 DEF ListsWhatReads
  <2>2. u \in g.uses[v] <=>
          /\ u \in f.uses[v]
          /\ ~ (/\ u[1] \in O
                /\ u[2] \in DOMAIN f.operations[u[1]].operands
                /\ f.operations[u[1]].operands[u[2]] = v)
    <3>1. v \in DOMAIN f.uses
      BY <1>1 DEF ListsWhatReads
    <3>2. DetachedAll(f, O)[v] =
            {w \in f.uses[v] : ~ (/\ w[1] \in O
                                 /\ w[2] \in DOMAIN f.operations[w[1]].operands
                                 /\ f.operations[w[1]].operands[w[2]] = v)}
      BY <3>1 DEF DetachedAll
    <3> QED
      BY <3>2, <1>2
  <2>3. Reads(g, u, v) <=> Reads(f, u, v) /\ u[1] \notin O
    BY <1>2 DEF Reads
  <2>4. Reads(f, u, v) => /\ u[2] \in DOMAIN f.operations[u[1]].operands
                          /\ f.operations[u[1]].operands[u[2]] = v
    BY DEF Reads
  <2> QED
    BY <2>1, <2>2, <2>3, <2>4
<1>4. ListsWhatReads(g)
  BY <1>2, <1>3 DEF ListsWhatReads
<1>5. \A o \in DOMAIN g.operations : g.operations[o].operands \in Seq(DOMAIN g.values)
  <2> SUFFICES ASSUME NEW o \in DOMAIN f.operations \ O
               PROVE  f.operations[o].operands \in Seq(DOMAIN f.values \ V)
    BY <1>2
  <2> DEFINE s == f.operations[o].operands
  <2>1. /\ Len(s) \in Nat /\ DOMAIN s = 1..Len(s) /\ s \in Seq(DOMAIN f.values)
        /\ \A i \in 1..Len(s) : s[i] \in DOMAIN f.values
    BY OperandsAreValues DEF IsExact, IsFunction
  <2>2. ASSUME NEW i \in 1..Len(s) PROVE s[i] \notin V
    <3>1. Reads(f, <<o, i>>, s[i])
      BY <2>1 DEF Reads
    <3>2. <<o, i>> \in f.uses[s[i]]
      BY <3>1, <2>1, <1>1 DEF ListsWhatReads
    <3> QED
      BY <3>2 DEF UsedOnlyBy
  <2>3. s \in [1..Len(s) -> DOMAIN f.values \ V]
    <3>1. s \in [1..Len(s) -> DOMAIN f.values]
      BY <2>1, LenProperties
    <3> QED
      BY <3>1, <2>2
  <2> QED
    BY <2>1, <2>3
<1>6. IsFunction(g)
  BY <1>2, <1>5 DEF IsExact, IsFunction
<1> QED
  BY <1>4, <1>6, ExactPointwise DEF IsExact

\* remove_operations keeps use lists exact.
LEMMA RemoveOperationsIsExact ==
  ASSUME NEW f, IsExact(f), NEW O, CanRemoveOperations(f, O)
  PROVE  IsExact(RemoveOperations(f, O))
<1> DEFINE g == RemoveOperations(f, O)
           V == ResultValues(f, O)
<1>1. /\ DOMAIN g = DOMAIN f
      /\ g.operations = Restrict(f.operations, DOMAIN f.operations \ O)
      /\ g.values = Restrict(f.values, DOMAIN f.values \ V)
      /\ g.uses = Restrict(DetachedAll(f, O), DOMAIN f.values \ V)
  BY DEF RemoveOperations, IsExact, IsFunction
<1>2. UsedOnlyBy(f, V, O)
  BY DEF CanRemoveOperations
<1> HIDE DEF g, V
<1>3. IsExact(g)
  BY <1>1, <1>2, DroppedIsExact
<1> QED
  BY <1>3 DEF g

\* remove_blocks keeps use lists exact.
LEMMA RemoveBlocksIsExact ==
  ASSUME NEW f, IsExact(f), NEW B, CanRemoveBlocks(f, B)
  PROVE  IsExact(RemoveBlocks(f, B))
<1> DEFINE g == RemoveBlocks(f, B)
           O == OperationsOf(f, WithNested(f, B))
           V == (UNION {ParameterValues(f, b) : b \in WithNested(f, B)}) \cup ResultValues(f, O)
<1>1. /\ DOMAIN g = DOMAIN f
      /\ g.operations = Restrict(f.operations, DOMAIN f.operations \ O)
      /\ g.values = Restrict(f.values, DOMAIN f.values \ V)
      /\ g.uses = Restrict(DetachedAll(f, O), DOMAIN f.values \ V)
  BY DEF RemoveBlocks, IsExact, IsFunction
<1>2. UsedOnlyBy(f, V, O)
  BY DEF CanRemoveBlocks
<1> HIDE DEF g, O, V
<1>3. IsExact(g)
  BY <1>1, <1>2, DroppedIsExact
<1> QED
  BY <1>3 DEF g

\* Half of merge_block: the jump goes, and the operations behind it move.
LEMMA SplicedIsExact ==
  ASSUME NEW f, IsExact(f), NEW p, NEW b
  PROVE  IsExact(Spliced(f, p, b))
<1> DEFINE g    == Spliced(f, p, b)
           jump == f.blocks[p].terminator
           s    == f.operations[jump].operands
<1>1. ListsWhatReads(f)
  BY ExactPointwise DEF IsExact
<1>2. /\ DOMAIN g = DOMAIN f /\ g.values = f.values
      /\ DOMAIN g.operations = DOMAIN f.operations \ {jump}
      /\ \A o \in DOMAIN f.operations \ {jump} :
           /\ DOMAIN g.operations[o] = DOMAIN f.operations[o]
           /\ g.operations[o].operands = f.operations[o].operands
      /\ g.uses = Detached(f.uses, jump, s, 1)
  BY DEF Spliced, IsExact, IsFunction
<1> HIDE DEF g
<1>3. IsFunction(g)
  BY <1>2 DEF IsExact, IsFunction
<1>4. ASSUME NEW v \in DOMAIN f.values, NEW u
      PROVE  u \in g.uses[v] <=> Reads(g, u, v)
  <2>1. u \in f.uses[v] <=> Reads(f, u, v)
    BY <1>1 DEF ListsWhatReads
  <2>2. u \in g.uses[v] <=>
          u \in f.uses[v] /\ ~ \E i \in 1..Len(s) : u = <<jump, i>> /\ s[i] = v
    <3>1. v \in DOMAIN f.uses
      BY <1>1 DEF ListsWhatReads
    <3>2. g.uses[v] = f.uses[v] \ {<<jump, i>> : i \in {j \in 1..Len(s) : s[j] = v}}
      BY <3>1, <1>2 DEF Detached
    <3> HIDE DEF s, jump
    <3> QED
      BY <3>2
  <2>3. Reads(g, u, v) <=> Reads(f, u, v) /\ u[1] # jump
    BY <1>2 DEF Reads
  <2>4. CASE jump \in DOMAIN f.operations
    <3>1. DOMAIN s = 1..Len(s)
      BY <2>4, OperandsAreValues DEF IsExact
    <3>2. Reads(f, u, v) /\ u[1] = jump <=> \E i \in 1..Len(s) : u = <<jump, i>> /\ s[i] = v
      <4>1. s = f.operations[jump].operands
        OBVIOUS
      <4> HIDE DEF s, jump
      <4> QED
        BY <4>1, <3>1, <2>4 DEF Reads
    <3> QED
      BY <3>2, <2>1, <2>2, <2>3
  <2>5. CASE jump \notin DOMAIN f.operations
    <3>1. Reads(f, u, v) => u[1] # jump
      BY <2>5 DEF Reads
    <3> QED
      BY <3>1, <2>1, <2>2, <2>3
  <2> QED
    BY <2>4, <2>5
<1>5. ListsWhatReads(g)
  BY <1>1, <1>2, <1>4 DEF ListsWhatReads, Detached
<1>6. IsExact(g)
  BY <1>3, <1>5, ExactPointwise DEF IsExact
<1> QED
  BY <1>6 DEF g

\* merge_block keeps use lists exact.
LEMMA MergeBlockIsExact ==
  ASSUME NEW f, IsExact(f), NEW p, NEW b, CanMergeBlock(f, p, b)
  PROVE  IsExact(MergeBlock(f, p, b))
<1>1. CanRemoveBlocks(Spliced(f, p, b), {b})
  BY DEF CanMergeBlock
<1> QED
  BY <1>1, SplicedIsExact, RemoveBlocksIsExact DEF MergeBlock

-----------------------------------------------------------------------------
(* The removal of a block parameter, one edge after another.               *)

\* RemoveAt takes out one element and moves those behind it down by one.
LEMMA RemoveAtMovesDown ==
  ASSUME NEW T, NEW s \in Seq(T), NEW at \in 1..Len(s)
  PROVE  /\ RemoveAt(s, at) \in Seq(T)
         /\ Len(RemoveAt(s, at)) = Len(s) - 1
         /\ \A i \in 1..(Len(s) - 1) : RemoveAt(s, at)[i] = IF i < at THEN s[i] ELSE s[i + 1]
<1>1. Len(s) \in Nat /\ \A i \in 1..Len(s) : s[i] \in T
  BY LenProperties
<1> DEFINE before == SubSeq(s, 1, at - 1)
           behind == SubSeq(s, at + 1, Len(s))
<1>2. /\ before \in Seq(T) /\ Len(before) = at - 1
      /\ \A i \in 1..(at - 1) : before[i] = s[i]
  <2>1. \A i \in 1..(at - 1) : s[i] \in T
    BY <1>1
  <2>2. /\ SubSeq(s, 1, at - 1) \in Seq(T)
        /\ Len(SubSeq(s, 1, at - 1)) = IF 1 <= at - 1 THEN (at - 1) - 1 + 1 ELSE 0
        /\ \A i \in 1..((at - 1) - 1 + 1) : SubSeq(s, 1, at - 1)[i] = s[1 + i - 1]
    BY <2>1, <1>1, SubSeqProperties
  <2> QED
    BY <2>2, <1>1
<1>3. /\ behind \in Seq(T) /\ Len(behind) = Len(s) - at
      /\ \A i \in 1..(Len(s) - at) : behind[i] = s[at + i]
  <2>1. \A i \in (at + 1)..Len(s) : s[i] \in T
    BY <1>1
  <2>2. /\ SubSeq(s, at + 1, Len(s)) \in Seq(T)
        /\ Len(SubSeq(s, at + 1, Len(s))) =
             IF at + 1 <= Len(s) THEN Len(s) - (at + 1) + 1 ELSE 0
        /\ \A i \in 1..(Len(s) - (at + 1) + 1) : SubSeq(s, at + 1, Len(s))[i] = s[at + 1 + i - 1]
    BY <2>1, <1>1, SubSeqProperties
  <2> QED
    BY <2>2, <1>1
<1>4. RemoveAt(s, at) = before \o behind
  BY DEF RemoveAt
<1> HIDE DEF before, behind
<1>5. /\ before \o behind \in Seq(T) /\ Len(before \o behind) = Len(s) - 1
      /\ \A i \in 1..(Len(s) - 1) :
           (before \o behind)[i] = IF i <= at - 1 THEN before[i] ELSE behind[i - (at - 1)]
  <2>1. /\ before \o behind \in Seq(T)
        /\ Len(before \o behind) = Len(before) + Len(behind)
        /\ \A i \in 1..(Len(before) + Len(behind)) :
             (before \o behind)[i] = IF i <= Len(before) THEN before[i] ELSE behind[i - Len(before)]
    BY <1>2, <1>3, ConcatProperties
  <2>2. Len(before) + Len(behind) = Len(s) - 1
    BY <1>1, <1>2, <1>3
  <2> QED
    BY <2>1, <2>2, <1>2
<1> QED
  BY <1>1, <1>2, <1>3, <1>4, <1>5

\* v is read nowhere.
IsUnread(f, v) == \A u : ~ Reads(f, u, v)

\* remove_successor_argument keeps use lists exact, and no value comes to be
\* read by it.
LEMMA RemoveSuccessorArgumentIsExact ==
  ASSUME NEW f, IsExact(f), NEW o, NEW i, NEW index, CanRemoveSuccessorArgument(f, o, i, index)
  PROVE  LET g == RemoveSuccessorArgument(f, o, i, index)
         IN  /\ IsExact(g) /\ g.blocks = f.blocks
             /\ \A v : IsUnread(f, v) => IsUnread(g, v)
<1> DEFINE g  == RemoveSuccessorArgument(f, o, i, index)
           op == f.operations[o]
           s  == op.operands
           at == FirstArgument(op, i) + index
           t  == RemoveAt(s, at)
<1>1. o \in DOMAIN f.operations /\ at \in DOMAIN s
  BY DEF CanRemoveSuccessorArgument
<1>2. /\ s \in Seq(DOMAIN f.values) /\ Len(s) \in Nat /\ DOMAIN s = 1..Len(s)
      /\ \A j \in 1..Len(s) : s[j] \in DOMAIN f.values
  BY <1>1, OperandsAreValues DEF IsExact, IsFunction
<1>3. at \in 1..Len(s)
  BY <1>1, <1>2
<1>4. /\ t \in Seq(DOMAIN f.values) /\ Len(t) = Len(s) - 1 /\ DOMAIN t = 1..Len(t)
      /\ \A j \in 1..Len(t) : t[j] = IF j < at THEN s[j] ELSE s[j + 1]
  <2> HIDE DEF s, at
  <2>1. t \in Seq(DOMAIN f.values) /\ Len(t) = Len(s) - 1
    BY <1>2, <1>3, RemoveAtMovesDown
  <2>2. DOMAIN t = 1..Len(t)
    BY <2>1, LenProperties
  <2>3. \A j \in 1..(Len(s) - 1) : t[j] = IF j < at THEN s[j] ELSE s[j + 1]
    BY <1>2, <1>3, RemoveAtMovesDown
  <2> QED
    BY <2>1, <2>2, <2>3
<1>5. /\ DOMAIN g = DOMAIN f /\ g.values = f.values /\ g.blocks = f.blocks
      /\ DOMAIN g.operations = DOMAIN f.operations
      /\ DOMAIN g.operations[o] = DOMAIN op
      /\ g.operations[o].operands = t
      /\ \A p \in DOMAIN f.operations \ {o} : g.operations[p] = f.operations[p]
      /\ g.uses = Attached(Detached(f.uses, o, s, at), o, t, at)
  <2> HIDE DEF t, at
  <2>1. g = [f EXCEPT !.operations[o] = [op EXCEPT !.operands = t, !.targets[i].count = @ - 1],
                      !.uses = Attached(Detached(f.uses, o, s, at), o, t, at)]
    BY DEF RemoveSuccessorArgument, t, at
  <2> HIDE DEF g
  <2> QED
    BY <2>1, <1>1 DEF IsExact, IsFunction
<1>6. ListsWhatReads(f)
  BY ExactPointwise DEF IsExact
<1> HIDE DEF g, t, at
<1>7. IsFunction(g)
  BY <1>4, <1>5 DEF IsExact, IsFunction
<1>8. ASSUME NEW v \in DOMAIN f.values, NEW u
      PROVE  u \in g.uses[v] <=> Reads(g, u, v)
  <2>1. u \in f.uses[v] <=> Reads(f, u, v)
    BY <1>6 DEF ListsWhatReads
  <2>2. u \in g.uses[v] <=>
          \/ u \in f.uses[v] /\ ~ \E j \in at..Len(s) : u = <<o, j>> /\ s[j] = v
          \/ \E j \in at..Len(t) : u = <<o, j>> /\ t[j] = v
    <3>1. v \in DOMAIN f.uses
      BY <1>6 DEF ListsWhatReads
    <3>2. g.uses[v] = (f.uses[v] \ {<<o, j>> : j \in {k \in at..Len(s) : s[k] = v}})
                        \cup {<<o, j>> : j \in {k \in at..Len(t) : t[k] = v}}
      BY <3>1, <1>5 DEF Attached, Detached
    <3> HIDE DEF s
    <3> QED
      BY <3>2
  <2>3. CASE \E p \in DOMAIN f.operations \ {o} : u[1] = p
    <3>1. Reads(g, u, v) <=> Reads(f, u, v)
      BY <2>3, <1>5 DEF Reads
    <3> QED
      BY <3>1, <2>1, <2>2, <2>3
  <2>4. CASE u[1] \notin DOMAIN f.operations
    BY <2>1, <2>2, <2>4, <1>1, <1>5 DEF Reads
  <2>5. CASE u[1] = o
    <3>1. Reads(f, u, v) <=> \E j \in 1..Len(s) : u = <<o, j>> /\ s[j] = v
      BY <2>5, <1>1, <1>2 DEF Reads
    <3>2. Reads(g, u, v) <=> \E j \in 1..Len(t) : u = <<o, j>> /\ t[j] = v
      <4>1. /\ o \in DOMAIN g.operations /\ g.operations[o].operands = t
            /\ DOMAIN t = 1..Len(t)
        BY <1>1, <1>4, <1>5
      <4> QED
        BY <4>1, <2>5 DEF Reads
    <3>3. Len(t) \in Nat /\ \A j \in 1..(at - 1) : j \in 1..Len(s) /\ j \in 1..Len(t) /\ t[j] = s[j]
      BY <1>2, <1>3, <1>4
    <3> HIDE DEF s
    <3>4. ASSUME NEW j, u = <<o, j>>
          PROVE  u \in g.uses[v] <=> Reads(g, u, v)
      <4>1. Reads(f, u, v) <=> j \in 1..Len(s) /\ s[j] = v
        BY <3>1, <3>4
      <4>2. Reads(g, u, v) <=> j \in 1..Len(t) /\ t[j] = v
        BY <3>2, <3>4
      <4>3. u \in g.uses[v] <=> \/ u \in f.uses[v] /\ ~ (j \in at..Len(s) /\ s[j] = v)
                                \/ j \in at..Len(t) /\ t[j] = v
        BY <2>2, <3>4
      <4> QED
        BY <4>1, <4>2, <4>3, <2>1, <3>3, <1>2, <1>3
    <3> QED
      BY <3>1, <3>2, <3>4, <2>1, <2>2
  <2> QED
    BY <2>3, <2>4, <2>5
<1>9. ListsWhatReads(g)
  BY <1>5, <1>6, <1>8 DEF ListsWhatReads, Attached, Detached
<1>10. ASSUME NEW v, IsUnread(f, v) PROVE IsUnread(g, v)
  <2>1. \A p \in DOMAIN f.operations : \A j \in DOMAIN f.operations[p].operands :
          f.operations[p].operands[j] # v
    BY <1>10 DEF IsUnread, Reads
  <2>2. \A j \in 1..Len(s) : s[j] # v
    BY <2>1, <1>1, <1>2
  <2>3. \A j \in DOMAIN t : t[j] # v
    <3> HIDE DEF s
    <3> SUFFICES ASSUME NEW j \in 1..Len(t) PROVE t[j] # v
      BY <1>4
    <3>1. j \in 1..Len(s) /\ j + 1 \in 1..Len(s)
      BY <1>2, <1>3, <1>4
    <3> QED
      BY <2>2, <3>1, <1>4
  <2> QED
    BY <2>1, <2>3, <1>5 DEF IsUnread, Reads
<1>11. IsExact(g)
  BY <1>7, <1>9, ExactPointwise DEF IsExact
<1> QED
  BY <1>5, <1>10, <1>11 DEF g

\* A parameter that nothing reads can go.
LEMMA RemoveParameterIsExact ==
  ASSUME NEW f, IsExact(f), NEW b, NEW k, IsUnread(f, f.blocks[b].parameters[k].value)
  PROVE  IsExact(RemoveParameter(f, b, k))
<1> DEFINE g == RemoveParameter(f, b, k)
           w == f.blocks[b].parameters[k].value
<1>1. /\ DOMAIN g = DOMAIN f /\ g.operations = f.operations
      /\ DOMAIN g.values = DOMAIN f.values \ {w}
      /\ DOMAIN g.uses = DOMAIN f.values \ {w}
      /\ \A v \in DOMAIN f.values \ {w} : g.uses[v] = f.uses[v]
  BY DEF RemoveParameter, Restrict, IsExact, IsFunction
<1> HIDE DEF g
<1>2. ListsWhatReads(f)
  BY ExactPointwise DEF IsExact
<1>3. ListsWhatReads(g)
  BY <1>1, <1>2 DEF ListsWhatReads, Reads
<1>4. ASSUME NEW o \in DOMAIN f.operations
      PROVE  f.operations[o].operands \in Seq(DOMAIN f.values \ {w})
  <2> DEFINE s == f.operations[o].operands
  <2>1. /\ Len(s) \in Nat /\ DOMAIN s = 1..Len(s) /\ s \in [1..Len(s) -> DOMAIN f.values]
    BY LenProperties DEF IsExact, IsFunction
  <2>2. \A i \in DOMAIN s : s[i] # w
    BY DEF IsUnread, Reads
  <2>3. s \in [1..Len(s) -> DOMAIN f.values \ {w}]
    <3> HIDE DEF s, w
    <3> QED
      BY <2>1, <2>2
  <2>4. s \in Seq(DOMAIN f.values \ {w})
    <3> HIDE DEF s, w
    <3> QED
      BY <2>1, <2>3
  <2> QED
    BY <2>4
<1>5. IsFunction(g)
  <2> HIDE DEF w
  <2> QED
    BY <1>1, <1>4 DEF IsExact, IsFunction
<1>6. IsExact(g)
  BY <1>3, <1>5, ExactPointwise DEF IsExact
<1> QED
  BY <1>6 DEF g

-----------------------------------------------------------------------------
(* Every step of OptimizeFunction.                                         *)

\* While a parameter is being removed, nothing reads it: what its removal
\* checks at the start is still true at the end.
RemovedIsUnread ==
  removal # NoRemoval =>
    /\ {"block", "index", "position", "edges"} \subseteq DOMAIN removal
    /\ IsUnread(function, function.blocks[removal.block].parameters[removal.position].value)

EditorInv == IsExact(function) /\ RemovedIsUnread

\* A call that keeps the function exact if its assertions hold, and ends the
\* program if they do not, preserves the invariant.
LEMMA PerformPreserves ==
  ASSUME NEW call, NEW asserts, NEW result,
         EditorInv, Perform(call, asserts, result), asserts => IsExact(result)
  PROVE  EditorInv'
<1>1. CASE asserts
  <2>1. function' = result /\ removal' = NoRemoval
    BY <1>1 DEF Perform
  <2> QED
    BY <2>1, <1>1 DEF EditorInv, RemovedIsUnread, IsExact
<1>2. CASE ~ asserts
  <2>1. UNCHANGED <<function, removal>>
    BY <1>2 DEF Perform
  <2> QED
    BY <2>1 DEF EditorInv, RemovedIsUnread, IsExact
<1> QED
  BY <1>1, <1>2

\* The removal of a parameter starts: its assertion has checked that
\* nothing reads it.
LEMMA BeginRemovalPreserves ==
  ASSUME EditorInv, BeginRemoval
  PROVE  EditorInv'
<1>1. CASE CanRemoveForwardedParameter(function, Call.block, Call.index)
  <2> DEFINE k == ForwardedPosition(function, Call.block, Call.index)
             v == function.blocks[Call.block].parameters[k].value
  <2>1. /\ function' = function
        /\ removal' = [block |-> Call.block, index |-> Call.index, position |-> k,
                       edges |-> EdgesInOrder(IncomingEdges(function, Call.block))]
    BY <1>1 DEF BeginRemoval
  <2>2. v \in DOMAIN function.uses /\ function.uses[v] = {}
    BY <1>1 DEF CanRemoveForwardedParameter
  <2>3. ListsWhatReads(function)
    BY ExactPointwise DEF EditorInv, IsExact
  <2>4. IsUnread(function, v)
    BY <2>2, <2>3 DEF IsUnread, ListsWhatReads
  <2>5. removal'.block = Call.block /\ removal'.position = k
    <3> HIDE DEF k
    <3> QED
      BY <2>1
  <2> QED
    BY <2>1, <2>4, <2>5 DEF EditorInv, RemovedIsUnread, IsExact
<1>2. CASE ~ CanRemoveForwardedParameter(function, Call.block, Call.index)
  BY <1>2 DEF BeginRemoval, EditorInv, RemovedIsUnread, IsExact
<1> QED
  BY <1>1, <1>2

\* One incoming edge loses the argument for the parameter that is being
\* removed; the operands behind it move up.
LEMMA RemoveArgumentPreserves ==
  ASSUME EditorInv, RemoveArgument
  PROVE  EditorInv'
<1> DEFINE o == Head(removal.edges)[1]
           i == Head(removal.edges)[2]
           g == RemoveSuccessorArgument(function, o, i, removal.index)
<1>1. CASE CanRemoveSuccessorArgument(function, o, i, removal.index)
  <2>1. function' = g /\ removal' = [removal EXCEPT !.edges = Tail(@)]
    BY <1>1 DEF RemoveArgument
  <2>2. /\ IsExact(g) /\ g.blocks = function.blocks
        /\ \A v : IsUnread(function, v) => IsUnread(g, v)
    BY <1>1, RemoveSuccessorArgumentIsExact DEF EditorInv
  <2>3. /\ {"block", "index", "position", "edges"} \subseteq DOMAIN removal
        /\ IsUnread(function, function.blocks[removal.block].parameters[removal.position].value)
    BY DEF RemoveArgument, EditorInv, RemovedIsUnread
  <2>4. /\ DOMAIN removal' = DOMAIN removal
        /\ removal'.block = removal.block /\ removal'.position = removal.position
    BY <2>1, <2>3
  <2> HIDE DEF g
  <2> QED
    BY <2>1, <2>2, <2>3, <2>4 DEF EditorInv, RemovedIsUnread
<1>2. CASE ~ CanRemoveSuccessorArgument(function, o, i, removal.index)
  BY <1>2 DEF RemoveArgument, EditorInv, RemovedIsUnread
<1> QED
  BY <1>1, <1>2

\* The parameter goes, which nothing reads still.
LEMMA EndRemovalPreserves ==
  ASSUME EditorInv, EndRemoval
  PROVE  EditorInv'
<1>1. /\ function' = RemoveParameter(function, removal.block, removal.position)
      /\ removal' = NoRemoval /\ removal # NoRemoval
  BY DEF EndRemoval
<1>2. IsExact(RemoveParameter(function, removal.block, removal.position))
  BY <1>1, RemoveParameterIsExact DEF EditorInv, RemovedIsUnread
<1> QED
  BY <1>1, <1>2 DEF EditorInv, RemovedIsUnread

\* The assertions of every editor call are all that the invariant needs.
LEMMA EditPreserves ==
  ASSUME EditorInv, Edit
  PROVE  EditorInv'
<1>0. IsExact(function)
  BY DEF EditorInv
<1>1. CASE PerformReplaceAllUses
  BY <1>0, <1>1, PerformPreserves, ReplaceAllUsesIsExact DEF PerformReplaceAllUses
<1>2. CASE PerformRemoveOperations
  BY <1>0, <1>2, PerformPreserves, RemoveOperationsIsExact DEF PerformRemoveOperations
<1>3. CASE PerformReplaceWithConstant
  BY <1>0, <1>3, PerformPreserves, ReplaceWithConstantIsExact DEF PerformReplaceWithConstant
<1>4. CASE PerformReplaceIfWithJump
  BY <1>0, <1>4, PerformPreserves, ReplaceIfWithJumpIsExact DEF PerformReplaceIfWithJump
<1>5. CASE PerformReplaceSuccessor
  BY <1>0, <1>5, PerformPreserves, ReplaceSuccessorIsExact DEF PerformReplaceSuccessor
<1>6. CASE PerformRemoveBlocks
  BY <1>0, <1>6, PerformPreserves, RemoveBlocksIsExact DEF PerformRemoveBlocks
<1>7. CASE PerformMergeBlock
  BY <1>0, <1>7, PerformPreserves, MergeBlockIsExact DEF PerformMergeBlock
<1>8. CASE BeginRemoval
  BY <1>8, BeginRemovalPreserves
<1>9. CASE RemoveArgument
  BY <1>9, RemoveArgumentPreserves
<1>10. CASE EndRemoval
  BY <1>10, EndRemovalPreserves
<1> QED
  BY <1>1, <1>2, <1>3, <1>4, <1>5, <1>6, <1>7, <1>8, <1>9, <1>10 DEF Edit

\* A pass that plans leaves the function alone.
LEMMA NextPreserves ==
  ASSUME EditorInv, [Next]_optimizeVars
  PROVE  EditorInv'
<1>1. CASE MakeCall
  BY <1>1, EditPreserves DEF MakeCall
<1>2. CASE ~ MakeCall
  <2>1. UNCHANGED <<function, removal>>
    BY <1>2 DEF Next, optimizeVars, Rest, RunPass, PropagateConstants, FoldConstantIfs,
         PruneUnreachableBlocks, EliminateCommonSubexpressions, EliminateDeadCode,
         SimplifyControlFlow, StartSimplifyOperations, SimplifyOperation,
         StartSimplifyBlockParameters, SimplifyBlock, FinishWork
  <2> QED
    BY <2>1 DEF EditorInv, RemovedIsUnread
<1> QED
  BY <1>1, <1>2

\* Whatever the passes ask of the editor, on whatever functions: the use lists
\* are exact after every call and between the steps of a parameter's removal.
THEOREM UsesAlwaysExact == Spec => []UsesExact
<1>1. Init => EditorInv
  BY SourcesAreInOrder DEF IsInOrder, Init, EditorInv, IsExact, RemovedIsUnread
<1>2. EditorInv /\ [Next]_optimizeVars => EditorInv'
  BY NextPreserves
<1>3. EditorInv => UsesExact
  BY DEF EditorInv, IsExact, UsesExact
<1> QED
  BY <1>1, <1>2, <1>3, PTL DEF Spec

-----------------------------------------------------------------------------
(* Lists                                                                   *)

\* A set that holds 0, and k if it holds k - 1, holds all of 0..n.
LEMMA CountingUp ==
  ASSUME NEW n \in Nat, NEW T, 0 \in T, \A k \in 1..n : k - 1 \in T => k \in T
  PROVE  0..n \subseteq T
<1> DEFINE Missed == (0..n) \ T
<1> SUFFICES ASSUME Missed # {} PROVE FALSE
  OBVIOUS
<1>0. Missed \subseteq Nat
  OBVIOUS
<1>1. PICK k \in Missed : \A j \in Missed : ~(<<j, k>> \in OpToRel(<, Nat))
  BY <1>0, NatLessThanWellFounded, WFMin
<1>2. k \in 1..n /\ k - 1 \in 0..n /\ k - 1 < k
  OBVIOUS
<1>3. <<k - 1, k>> \in OpToRel(<, Nat)
  BY <1>2 DEF OpToRel
<1> QED
  BY <1>1, <1>2, <1>3

\* The loop that takes the members of S out of the first n elements of s.
IsSieve(f, s, S, n) ==
  f = [i \in 0..n |->
         IF i = 0 THEN <<>> ELSE IF s[i] \in S THEN f[i - 1] ELSE Append(f[i - 1], s[i])]

\* The loop has a result, however far it goes.
LEMMA SieveExists ==
  ASSUME NEW s, NEW S, NEW n \in Nat
  PROVE  \E f : IsSieve(f, s, S, n)
<1> DEFINE T == {k \in 0..n : \E f : IsSieve(f, s, S, k)}
           Kept(i, r) == IF s[i] \in S THEN r ELSE Append(r, s[i])
<1>1. \A f, k : IsSieve(f, s, S, k) <=>
        f = [i \in 0..k |-> IF i = 0 THEN <<>> ELSE Kept(i, f[i - 1])]
  BY DEF IsSieve
<1> HIDE DEF Kept
<1>2. 0 \in T
  <2> DEFINE f == [i \in 0..0 |-> <<>>]
  <2>1. f = [i \in 0..0 |-> IF i = 0 THEN <<>> ELSE Kept(i, f[i - 1])]
    OBVIOUS
  <2>2. IsSieve(f, s, S, 0)
    BY <1>1, <2>1, Zenon
  <2> QED
    BY <2>2
<1>3. ASSUME NEW k \in 1..n, k - 1 \in T PROVE k \in T
  <2>1. PICK f : IsSieve(f, s, S, k - 1)
    BY <1>3
  <2>2. f = [i \in 0..(k - 1) |-> IF i = 0 THEN <<>> ELSE Kept(i, f[i - 1])]
    BY <1>1, <2>1
  <2> DEFINE g == [i \in 0..k |-> IF i = 0 THEN <<>> ELSE Kept(i, f[i - 1])]
             h == [i \in 0..k |-> IF i = 0 THEN <<>> ELSE Kept(i, g[i - 1])]
  <2>3. ASSUME NEW i \in 1..k PROVE g[i - 1] = f[i - 1]
    <3>1. i - 1 \in 0..(k - 1) /\ i - 1 \in 0..k
      OBVIOUS
    <3> QED
      BY <2>2, <3>1
  <2>4. \A i \in 0..k : i # 0 => i \in 1..k
    OBVIOUS
  <2>5. g = h
    BY <2>3, <2>4
  <2>6. IsSieve(g, s, S, k)
    BY <1>1, <2>5, Zenon
  <2> QED
    BY <2>6
<1>4. 0..n \subseteq T
  BY <1>2, <1>3, CountingUp
<1> QED
  BY <1>4

\* What Without leaves are the elements that are not in S.
LEMMA WithoutHolds ==
  ASSUME NEW T, NEW s \in Seq(T), NEW S
  PROVE  Without(s, S) \in Seq(T \ S) /\ ToSet(Without(s, S)) = ToSet(s) \ S
<1> DEFINE n == Len(s)
<1>1. n \in Nat /\ DOMAIN s = 1..n /\ \A i \in 1..n : s[i] \in T
  BY LenProperties
<1> DEFINE f == CHOOSE g : IsSieve(g, s, S, n)
           Upto(k) == {s[i] : i \in 1..k} \ S
           C == {k \in 0..n : f[k] \in Seq(T \ S) /\ ToSet(f[k]) = Upto(k)}
<1>2. IsSieve(f, s, S, n)
  BY <1>1, SieveExists
<1>3. Without(s, S) = f[n]
  <2>1. f = CHOOSE g : g = [i \in 0..n |-> IF i = 0 THEN <<>> ELSE
                               IF s[i] \in S THEN g[i - 1] ELSE Append(g[i - 1], s[i])]
    BY DEF IsSieve
  <2> QED
    BY <2>1, Zenon DEF Without
<1>4. /\ f[0] = <<>>
      /\ \A k \in 1..n : f[k] = IF s[k] \in S THEN f[k - 1] ELSE Append(f[k - 1], s[k])
  <2>1. f = [i \in 0..n |-> IF i = 0 THEN <<>> ELSE
                               IF s[i] \in S THEN f[i - 1] ELSE Append(f[i - 1], s[i])]
    BY <1>2 DEF IsSieve
  <2> HIDE DEF f, n
  <2>2. 0 \in 0..n /\ \A k \in 1..n : k \in 0..n /\ k # 0
    BY <1>1
  <2> QED
    BY <2>1, <2>2
<1> HIDE DEF f
<1>5. 0 \in C
  <2>1. Upto(0) = {} /\ 0 \in 0..n /\ <<>> \in Seq(T \ S)
    BY <1>1
  <2>2. ToSet(<<>>) = {}
    BY DEF ToSet
  <2> HIDE DEF Upto
  <2> QED
    BY <1>4, <2>1, <2>2
<1>6. ASSUME NEW k \in 1..n, k - 1 \in C PROVE k \in C
  <2> DEFINE t == f[k - 1]
  <2>1. t \in Seq(T \ S) /\ ToSet(t) = Upto(k - 1) /\ k \in 0..n
    BY <1>6
  <2>2. Upto(k) = Upto(k - 1) \cup ({s[k]} \ S)
    <3>1. \A i : i \in 1..k <=> i \in 1..(k - 1) \/ i = k
      BY <1>1
    <3> QED
      BY <3>1
  <2>3. CASE s[k] \in S
    <3>1. Upto(k) = Upto(k - 1)
      BY <2>2, <2>3
    <3> HIDE DEF Upto
    <3> QED
      BY <1>4, <2>1, <2>3, <3>1
  <2>4. CASE s[k] \notin S
    <3>1. s[k] \in T \ S
      BY <1>1, <2>4
    <3> HIDE DEF t
    <3>2. Append(t, s[k]) \in Seq(T \ S) /\ ToSet(Append(t, s[k])) = ToSet(t) \cup {s[k]}
      <4>1. /\ Len(t) \in Nat /\ DOMAIN t = 1..Len(t)
            /\ DOMAIN Append(t, s[k]) = 1..(Len(t) + 1)
            /\ Append(t, s[k])[Len(t) + 1] = s[k]
            /\ \A i \in 1..Len(t) : Append(t, s[k])[i] = t[i]
        BY <2>1, <3>1
      <4>2. \A i : i \in 1..(Len(t) + 1) <=> i \in 1..Len(t) \/ i = Len(t) + 1
        BY <4>1
      <4>3. Append(t, s[k]) \in Seq(T \ S)
        BY <2>1, <3>1
      <4> QED
        BY <4>1, <4>2, <4>3 DEF ToSet
    <3>3. f[k] = Append(t, s[k])
      BY <1>4, <2>4 DEF t
    <3>4. Upto(k) = Upto(k - 1) \cup {s[k]}
      BY <2>2, <2>4
    <3> HIDE DEF Upto
    <3> QED
      BY <2>1, <3>2, <3>3, <3>4
  <2> QED
    BY <2>3, <2>4
<1>7. n \in C
  <2> HIDE DEF C
  <2>1. 0..n \subseteq C
    BY <1>1, <1>5, <1>6, CountingUp
  <2> QED
    BY <1>1, <2>1
<1>8. Upto(n) = ToSet(s) \ S
  BY <1>1 DEF ToSet
<1> QED
  BY <1>3, <1>7, <1>8

-----------------------------------------------------------------------------
(* Places and definitions: the calls that leave blocks alone               *)

\* All that the editor keeps but the use lists.
IsOrderly(f) ==
  IsFunction(f) /\ IsLaidOut(f) /\ PlacesAreExact(f) /\ DefinitionsAreExact(f)

\* Every operation has its place as before.
KeepsPlaces(f, g) ==
  /\ DOMAIN g.operations = DOMAIN f.operations
  /\ \A o \in DOMAIN f.operations :
       /\ DOMAIN g.operations[o] = DOMAIN f.operations[o]
       /\ g.operations[o].block = f.operations[o].block
       /\ g.operations[o].results = f.operations[o].results
       /\ g.operations[o].regions = f.operations[o].regions
       /\ g.operations[o].structural \subseteq f.operations[o].structural
       /\ IsTerminator(g, o) <=> IsTerminator(f, o)

\* What a block lists are operations.
LEMMA ListedOperations ==
  ASSUME NEW f, PlacesAreExact(f), NEW b \in DOMAIN f.blocks
  PROVE  /\ ToSet(f.blocks[b].contents) \subseteq DOMAIN f.operations
         /\ f.blocks[b].terminator # None => f.blocks[b].terminator \in DOMAIN f.operations
         /\ BlockOperations(f, b) \subseteq DOMAIN f.operations
         /\ \A o \in BlockOperations(f, b) : f.operations[o].block = b
<1>1. BlockOperations(f, b) = {o \in DOMAIN f.operations : f.operations[o].block = b}
  BY DEF PlacesAreExact
<1> QED
  BY <1>1 DEF BlockOperations

\* Where operations keep their places, a function keeps its order.
LEMMA AlikeIsOrderly ==
  ASSUME NEW f, IsOrderly(f), NEW g, IsFunction(g), KeepsPlaces(f, g),
         g.regions = f.regions, g.blocks = f.blocks, g.values = f.values
  PROVE  IsOrderly(g)
<1>1. IsLaidOut(g)
  BY DEF IsOrderly, IsLaidOut, KeepsPlaces
<1>2. PlacesAreExact(g)
  <2>1. ASSUME NEW b \in DOMAIN f.blocks
        PROVE  /\ g.blocks[b].region \in DOMAIN g.regions
               /\ BlockOperations(g, b) = {o \in DOMAIN g.operations : g.operations[o].block = b}
               /\ \A o \in ToSet(g.blocks[b].contents) : ~ IsTerminator(g, o)
               /\ g.blocks[b].terminator # None => IsTerminator(g, g.blocks[b].terminator)
    <3>1. /\ f.blocks[b].region \in DOMAIN f.regions
          /\ BlockOperations(f, b) = {o \in DOMAIN f.operations : f.operations[o].block = b}
          /\ \A o \in ToSet(f.blocks[b].contents) : ~ IsTerminator(f, o)
          /\ f.blocks[b].terminator # None => IsTerminator(f, f.blocks[b].terminator)
      BY DEF IsOrderly, PlacesAreExact
    <3>2. BlockOperations(g, b) = BlockOperations(f, b)
      BY DEF BlockOperations
    <3>3. /\ ToSet(f.blocks[b].contents) \subseteq DOMAIN f.operations
          /\ f.blocks[b].terminator # None => f.blocks[b].terminator \in DOMAIN f.operations
      BY ListedOperations DEF IsOrderly
    <3> QED
      BY <3>1, <3>2, <3>3 DEF KeepsPlaces
  <2>2. \A o \in DOMAIN g.operations : /\ g.operations[o].block \in DOMAIN g.blocks
                                       /\ g.operations[o].structural \subseteq DOMAIN g.blocks
                                       /\ g.operations[o].regions \subseteq DOMAIN g.regions
    BY DEF IsOrderly, PlacesAreExact, KeepsPlaces
  <2>3. \A r \in DOMAIN g.regions :
          ToSet(g.regions[r]) = {b \in DOMAIN g.blocks : g.blocks[b].region = r}
    BY DEF IsOrderly, PlacesAreExact
  <2> QED
    BY <2>1, <2>2, <2>3 DEF PlacesAreExact
<1>3. DefinitionsAreExact(g)
  <2>1. /\ DOMAIN g.operations = DOMAIN f.operations
        /\ \A o \in DOMAIN f.operations : g.operations[o].results = f.operations[o].results
    BY DEF KeepsPlaces
  <2>2. DefinitionsAreExact(f)
    BY DEF IsOrderly
  <2>3. \A v \in DOMAIN f.values : IsWhereDefined(f, v) => IsWhereDefined(g, v)
    BY <2>1 DEF IsWhereDefined
  <2>4. \A v, d : IsDefinedAs(f, v, d) => IsDefinedAs(g, v, d)
    BY DEF IsDefinedAs
  <2> QED
    BY <2>1, <2>2, <2>3, <2>4 DEF DefinitionsAreExact
<1> QED
  BY <1>1, <1>2, <1>3 DEF IsOrderly

\* An operation that is given other operands stays where it is.
LEMMA RewiredIsOrderly ==
  ASSUME NEW f, IsOrderly(f), NEW o \in DOMAIN f.operations, NEW update,
         DOMAIN update = DOMAIN f.operations[o],
         update.operands \in Seq(DOMAIN f.values),
         update.block = f.operations[o].block, update.results = f.operations[o].results,
         update.regions = f.operations[o].regions,
         update.structural \subseteq f.operations[o].structural,
         update.kind \in Terminators <=> f.operations[o].kind \in Terminators
  PROVE  IsOrderly(Rewired(f, o, update))
<1> DEFINE g == Rewired(f, o, update)
<1>1. /\ DOMAIN g = DOMAIN f /\ g.values = f.values /\ g.regions = f.regions
      /\ g.blocks = f.blocks
      /\ DOMAIN g.operations = DOMAIN f.operations
      /\ \A p \in DOMAIN f.operations : g.operations[p] = IF p = o THEN update ELSE f.operations[p]
  BY DEF Rewired, IsOrderly, IsFunction
<1> HIDE DEF g
<1>2. IsFunction(g)
  BY <1>1 DEF IsOrderly, IsFunction
<1>3. KeepsPlaces(f, g)
  BY <1>1 DEF KeepsPlaces, IsTerminator
<1>4. IsOrderly(g)
  BY <1>1, <1>2, <1>3, AlikeIsOrderly
<1> QED
  BY <1>4 DEF g

\* replace_operation_with_constant keeps every place.
LEMMA ReplaceWithConstantIsOrderly ==
  ASSUME NEW f, IsOrderly(f), NEW o, NEW constant, CanReplaceWithConstant(f, o)
  PROVE  IsOrderly(ReplaceWithConstant(f, o, constant))
<1> DEFINE op == f.operations[o]
           update == [op EXCEPT !.kind = "Constant", !.detail = constant,
                                !.own = 0, !.operands = <<>>]
<1>1. o \in DOMAIN f.operations /\ op.kind \notin Terminators
  BY DEF CanReplaceWithConstant, IsTerminator
<1>2. {"block", "kind", "operands", "targets", "results"} \subseteq DOMAIN op
  BY <1>1 DEF IsOrderly, IsFunction
<1>3. /\ DOMAIN update = DOMAIN op /\ update.operands = <<>> /\ update.kind = "Constant"
      /\ update.block = op.block /\ update.results = op.results
      /\ update.regions = op.regions /\ update.structural = op.structural
  <2> HIDE DEF op
  <2> QED
    BY <1>2
<1>4. update.operands \in Seq(DOMAIN f.values) /\ update.kind \notin Terminators
  BY <1>3 DEF Terminators
<1> HIDE DEF update
<1>5. IsOrderly(Rewired(f, o, update))
  BY <1>1, <1>3, <1>4, RewiredIsOrderly
<1> QED
  BY <1>5 DEF ReplaceWithConstant, update

\* replace_if_with_jump keeps every place; the jump names no structure.
LEMMA ReplaceIfWithJumpIsOrderly ==
  ASSUME NEW f, IsExact(f), IsOrderly(f), NEW o, NEW i, CanReplaceIfWithJump(f, o, i)
  PROVE  IsOrderly(ReplaceIfWithJump(f, o, i))
<1> DEFINE op == f.operations[o]
           update == [op EXCEPT !.kind = "Jump", !.own = 0, !.structural = {},
                                !.operands = Arguments(op, i), !.targets = <<op.targets[i]>>]
<1>1. o \in DOMAIN f.operations /\ op.kind = "If" /\ RangeIsValid(op, i)
  BY DEF CanReplaceIfWithJump
<1>2. /\ {"block", "kind", "operands", "targets", "results"} \subseteq DOMAIN op
      /\ {"structural", "regions"} \subseteq DOMAIN op
      /\ op.operands \in Seq(DOMAIN f.values)
  BY <1>1 DEF IsOrderly, IsFunction, IsLaidOut
<1>3. /\ DOMAIN update = DOMAIN op /\ update.operands = Arguments(op, i)
      /\ update.kind = "Jump" /\ update.structural = {}
      /\ update.block = op.block /\ update.results = op.results /\ update.regions = op.regions
  <2> HIDE DEF op
  <2> QED
    BY <1>2
<1>4. Arguments(op, i) \in Seq(DOMAIN f.values)
  <2> DEFINE first == FirstArgument(op, i)
             last  == first + op.targets[i].count
  <2>1. first \in Nat /\ last \in Nat /\ last <= Len(op.operands)
    BY <1>1 DEF RangeIsValid
  <2>2. Arguments(op, i) = SubSeq(op.operands, first + 1, last)
    BY DEF Arguments
  <2> HIDE DEF first, last, op
  <2> QED
    BY <2>1, <2>2, <1>2, PartOfOperands
<1>5. update.kind \in Terminators /\ op.kind \in Terminators
  BY <1>1, <1>3 DEF Terminators
<1> HIDE DEF update
<1>6. IsOrderly(Rewired(f, o, update))
  BY <1>1, <1>3, <1>4, <1>5, RewiredIsOrderly
<1> QED
  BY <1>6 DEF ReplaceIfWithJump, update

\* replace_successor keeps every place.
LEMMA ReplaceSuccessorIsOrderly ==
  ASSUME NEW f, IsExact(f), IsOrderly(f), NEW o, NEW i, NEW target, NEW arguments,
         CanReplaceSuccessor(f, o, i, target, arguments)
  PROVE  IsOrderly(ReplaceSuccessor(f, o, i, target, arguments))
<1> DEFINE op     == f.operations[o]
           first  == FirstArgument(op, i)
           after  == first + op.targets[i].count
           new    == SubSeq(op.operands, 1, first) \o arguments
                       \o SubSeq(op.operands, after + 1, Len(op.operands))
           update == [op EXCEPT !.operands = new,
                                !.targets[i].block = target, !.targets[i].count = Len(arguments)]
           g      == Rewired(f, o, update)
<1>1. o \in DOMAIN f.operations
  BY DEF CanReplaceSuccessor
<1>2. ReplaceSuccessor(f, o, i, target, arguments) = g
  BY DEF ReplaceSuccessor
<1>3. IsFunction(g)
  BY <1>2, ReplaceSuccessorIsExact DEF IsExact
<1>4. /\ DOMAIN update = DOMAIN op /\ update.kind = op.kind
      /\ update.block = op.block /\ update.results = op.results
      /\ update.regions = op.regions /\ update.structural = op.structural
  <2> HIDE DEF new
  <2> QED
    BY <1>1 DEF IsOrderly, IsFunction
<1> HIDE DEF update
<1>5. /\ g.values = f.values /\ g.regions = f.regions /\ g.blocks = f.blocks
      /\ DOMAIN g.operations = DOMAIN f.operations
      /\ \A p \in DOMAIN f.operations : g.operations[p] = IF p = o THEN update ELSE f.operations[p]
  BY DEF Rewired, IsOrderly, IsFunction
<1> HIDE DEF g
<1>6. KeepsPlaces(f, g)
  BY <1>1, <1>4, <1>5 DEF KeepsPlaces, IsTerminator
<1> QED
  BY <1>2, <1>3, <1>5, <1>6, AlikeIsOrderly

\* replace_all_uses keeps every place.
LEMMA ReplaceAllUsesIsOrderly ==
  ASSUME NEW f, IsExact(f), IsOrderly(f), NEW v, NEW w, CanReplaceAllUses(f, v, w)
  PROVE  IsOrderly(ReplaceAllUses(f, v, w))
<1> DEFINE g == ReplaceAllUses(f, v, w)
<1>1. CASE v = w
  BY <1>1 DEF ReplaceAllUses
<1>2. CASE v # w
  <2>1. /\ g.values = f.values /\ g.regions = f.regions /\ g.blocks = f.blocks
        /\ DOMAIN g.operations = DOMAIN f.operations
        /\ \A o \in DOMAIN f.operations : g.operations[o] = Rereading(f.operations[o], o, f.uses[v], w)
    BY <1>2 DEF ReplaceAllUses, IsOrderly, IsFunction
  <2>2. IsFunction(g)
    BY ReplaceAllUsesIsExact DEF IsExact
  <2> HIDE DEF g
  <2>3. ASSUME NEW o \in DOMAIN f.operations
        PROVE  LET op == Rereading(f.operations[o], o, f.uses[v], w)
               IN  /\ DOMAIN op = DOMAIN f.operations[o]
                   /\ op.kind = f.operations[o].kind /\ op.block = f.operations[o].block
                   /\ op.results = f.operations[o].results
                   /\ op.regions = f.operations[o].regions
                   /\ op.structural = f.operations[o].structural
    BY DEF Rereading
  <2>5. KeepsPlaces(f, g)
    BY <2>1, <2>3 DEF KeepsPlaces, IsTerminator
  <2>4. IsOrderly(g)
    BY <2>1, <2>2, <2>5, AlikeIsOrderly
  <2> QED
    BY <2>4 DEF g
<1> QED
  BY <1>1, <1>2

\* remove_successor_argument keeps every place.
LEMMA RemoveSuccessorArgumentIsOrderly ==
  ASSUME NEW f, IsExact(f), IsOrderly(f), NEW o, NEW i, NEW index,
         CanRemoveSuccessorArgument(f, o, i, index)
  PROVE  IsOrderly(RemoveSuccessorArgument(f, o, i, index))
<1> DEFINE g  == RemoveSuccessorArgument(f, o, i, index)
           op == f.operations[o]
           at == FirstArgument(op, i) + index
           t  == RemoveAt(op.operands, at)
           u  == Attached(Detached(f.uses, o, op.operands, at), o, t, at)
           update == [op EXCEPT !.operands = t, !.targets[i].count = @ - 1]
<1>1. o \in DOMAIN f.operations
  BY DEF CanRemoveSuccessorArgument
<1>2. g = [f EXCEPT !.operations[o] = update, !.uses = u]
  BY DEF RemoveSuccessorArgument
<1>3. IsFunction(g)
  BY RemoveSuccessorArgumentIsExact DEF IsExact
<1>4. /\ DOMAIN update = DOMAIN op /\ update.kind = op.kind
      /\ update.block = op.block /\ update.results = op.results
      /\ update.regions = op.regions /\ update.structural = op.structural
  <2> HIDE DEF t
  <2> QED
    BY <1>1 DEF IsOrderly, IsFunction
<1> HIDE DEF update, u, g
<1>5. /\ g.values = f.values /\ g.regions = f.regions /\ g.blocks = f.blocks
      /\ DOMAIN g.operations = DOMAIN f.operations
      /\ \A p \in DOMAIN f.operations : g.operations[p] = IF p = o THEN update ELSE f.operations[p]
  BY <1>1, <1>2 DEF IsOrderly, IsFunction
<1>6. KeepsPlaces(f, g)
  BY <1>1, <1>4, <1>5 DEF KeepsPlaces, IsTerminator
<1>7. IsOrderly(g)
  BY <1>3, <1>5, <1>6, AlikeIsOrderly
<1> QED
  BY <1>7 DEF g

-----------------------------------------------------------------------------
(* Blocks with all that is nested in them                                  *)

\* The blocks C and those of the regions that their operations own.
Opened(f, C) == C \cup UNION {ToSet(f.regions[r]) : r \in RegionsOf(f, OperationsOf(f, C))}

\* n rounds of opening, from the blocks B.
IsOpening(g, f, B, n) == g = [k \in 0..n |-> IF k = 0 THEN B ELSE Opened(f, g[k - 1])]

\* The loop over the nested regions has a result, however far it goes.
LEMMA OpeningExists ==
  ASSUME NEW f, NEW B, NEW n \in Nat
  PROVE  \E g : IsOpening(g, f, B, n)
<1> DEFINE T == {k \in 0..n : \E g : IsOpening(g, f, B, k)}
<1>1. 0 \in T
  <2> DEFINE g == [k \in 0..0 |-> B]
  <2>1. g = [k \in 0..0 |-> IF k = 0 THEN B ELSE Opened(f, g[k - 1])]
    OBVIOUS
  <2>2. IsOpening(g, f, B, 0)
    BY <2>1, Zenon DEF IsOpening
  <2> QED
    BY <2>2
<1>2. ASSUME NEW k \in 1..n, k - 1 \in T PROVE k \in T
  <2>1. PICK g : IsOpening(g, f, B, k - 1)
    BY <1>2
  <2>2. g = [j \in 0..(k - 1) |-> IF j = 0 THEN B ELSE Opened(f, g[j - 1])]
    BY <2>1 DEF IsOpening
  <2> DEFINE h == [j \in 0..k |-> IF j = 0 THEN B ELSE Opened(f, g[j - 1])]
             i == [j \in 0..k |-> IF j = 0 THEN B ELSE Opened(f, h[j - 1])]
  <2>3. ASSUME NEW j \in 1..k PROVE h[j - 1] = g[j - 1]
    <3>1. j - 1 \in 0..(k - 1) /\ j - 1 \in 0..k
      OBVIOUS
    <3> QED
      BY <2>2, <3>1
  <2>4. \A j \in 0..k : j # 0 => j \in 1..k
    OBVIOUS
  <2>5. h = i
    BY <2>3, <2>4
  <2>6. IsOpening(h, f, B, k)
    BY <2>5, Zenon DEF IsOpening
  <2> QED
    BY <2>6
<1>3. 0..n \subseteq T
  BY <1>1, <1>2, CountingUp
<1> QED
  BY <1>3

\* WithNested is the last round.
LEMMA WithNestedOpens ==
  ASSUME NEW f, IsFiniteSet(DOMAIN f.regions), NEW B
  PROVE  LET n == Cardinality(DOMAIN f.regions)
         IN  /\ n \in Nat
             /\ \E g : /\ WithNested(f, B) = g[n] /\ g[0] = B
                       /\ \A k \in 1..n : g[k] = Opened(f, g[k - 1])
<1> DEFINE n == Cardinality(DOMAIN f.regions)
           g == CHOOSE h : IsOpening(h, f, B, n)
<1>1. n \in Nat
  BY FS_CardinalityType
<1>2. IsOpening(g, f, B, n)
  BY <1>1, OpeningExists
<1>3. WithNested(f, B) = g[n]
  BY Zenon DEF WithNested, IsOpening, Opened
<1>4. g[0] = B /\ \A k \in 1..n : g[k] = Opened(f, g[k - 1])
  <2>1. g = [k \in 0..n |-> IF k = 0 THEN B ELSE Opened(f, g[k - 1])]
    BY <1>2 DEF IsOpening
  <2> HIDE DEF g, n
  <2>2. 0 \in 0..n /\ \A k \in 1..n : k \in 0..n /\ k # 0
    BY <1>1
  <2> QED
    BY <2>1, <2>2
<1> QED
  BY <1>1, <1>3, <1>4

\* The regions that blocks open are regions of the function, more for more
\* blocks.
LEMMA OpenedRegions ==
  ASSUME NEW f, IsOrderly(f), NEW C \in SUBSET DOMAIN f.blocks
  PROVE  /\ RegionsOf(f, OperationsOf(f, C)) \subseteq DOMAIN f.regions
         /\ C \subseteq Opened(f, C) /\ Opened(f, C) \subseteq DOMAIN f.blocks
<1>1. OperationsOf(f, C) \subseteq DOMAIN f.operations
  BY ListedOperations DEF OperationsOf, IsOrderly
<1>2. RegionsOf(f, OperationsOf(f, C)) \subseteq DOMAIN f.regions
  BY <1>1 DEF RegionsOf, IsOrderly, PlacesAreExact
<1>3. \A r \in DOMAIN f.regions : ToSet(f.regions[r]) \subseteq DOMAIN f.blocks
  BY DEF IsOrderly, PlacesAreExact
<1> QED
  BY <1>2, <1>3 DEF Opened

\* Opening stops: what is nested in blocks is among the blocks WithNested lists.
\* Every round that is not the last opens another region, and there are no more
\* rounds than regions.
LEMMA NestedIsClosed ==
  ASSUME NEW f, IsOrderly(f), NEW B \in SUBSET DOMAIN f.blocks
  PROVE  /\ B \subseteq WithNested(f, B) /\ WithNested(f, B) \subseteq DOMAIN f.blocks
         /\ \A r \in RegionsOf(f, OperationsOf(f, WithNested(f, B))) :
              ToSet(f.regions[r]) \subseteq WithNested(f, B)
<1> DEFINE n == Cardinality(DOMAIN f.regions)
           R(C) == RegionsOf(f, OperationsOf(f, C))
<1>1. IsFiniteSet(DOMAIN f.regions)
  BY DEF IsOrderly, IsLaidOut
<1>2. n \in Nat
  BY <1>1, FS_CardinalityType
<1>3. PICK g : /\ WithNested(f, B) = g[n] /\ g[0] = B
               /\ \A k \in 1..n : g[k] = Opened(f, g[k - 1])
  BY <1>1, WithNestedOpens
<1>4. \A C : Opened(f, C) = C \cup UNION {ToSet(f.regions[r]) : r \in R(C)}
  BY DEF Opened
<1>5. \A C \in SUBSET DOMAIN f.blocks :
        R(C) \subseteq DOMAIN f.regions /\ C \subseteq Opened(f, C) /\ Opened(f, C) \subseteq DOMAIN f.blocks
  BY OpenedRegions
<1>6. \A C, D : C \subseteq D => R(C) \subseteq R(D)
  BY DEF RegionsOf, OperationsOf
<1> HIDE DEF R, n
\* Either k regions and one more are open, or nothing is left to open.
<1> DEFINE T == {k \in 0..n :
                   /\ B \subseteq g[k] /\ g[k] \in SUBSET DOMAIN f.blocks
                   /\ \/ Opened(f, g[k]) = g[k]
                      \/ IsFiniteSet(R(g[k])) /\ Cardinality(R(g[k])) >= k + 1}
<1>7. 0 \in T
  <2>1. IsFiniteSet(R(B)) /\ Cardinality(R(B)) \in Nat
    BY <1>1, <1>5, FS_Subset, FS_CardinalityType
  <2>2. CASE R(B) = {}
    <3>1. UNION {ToSet(f.regions[r]) : r \in {}} = {}
      OBVIOUS
    <3>2. Opened(f, B) = B \cup UNION {ToSet(f.regions[r]) : r \in R(B)}
      BY <1>4
    <3>3. Opened(f, B) = B
      BY <2>2, <3>1, <3>2
    <3> QED
      BY <1>2, <1>3, <3>3
  <2>3. CASE R(B) # {}
    <3>1. Cardinality(R(B)) # 0
      BY <2>1, <2>3, FS_EmptySet
    <3>2. Cardinality(R(g[0])) >= 0 + 1 /\ IsFiniteSet(R(g[0]))
      BY <1>3, <2>1, <3>1
    <3> QED
      BY <1>2, <1>3, <3>2
  <2> QED
    BY <2>2, <2>3
<1>8. ASSUME NEW k \in 1..n, k - 1 \in T PROVE k \in T
  <2> DEFINE C == g[k - 1]
             D == g[k]
  <2>1. B \subseteq C /\ C \in SUBSET DOMAIN f.blocks /\ D = Opened(f, C)
    BY <1>3, <1>8
  <2>2. C \subseteq D /\ B \subseteq D /\ D \in SUBSET DOMAIN f.blocks /\ R(C) \subseteq R(D)
    BY <1>5, <1>6, <2>1
  <2>3. CASE Opened(f, D) = D
    BY <1>2, <2>2, <2>3
  <2>4. CASE Opened(f, D) # D
    <3>1. R(C) # R(D)
      <4>1. ASSUME R(C) = R(D) PROVE Opened(f, D) = D
        BY <1>4, <2>1, <4>1
      <4> QED
        BY <2>4, <4>1
    <3>2. Opened(f, C) # C
      BY <2>1, <2>4
    <3>3. Cardinality(R(C)) >= k
      BY <1>8, <3>2
    <3>4. IsFiniteSet(R(D)) /\ Cardinality(R(D)) \in Nat /\ Cardinality(R(C)) \in Nat
      BY <1>1, <1>5, <2>1, <2>2, FS_Subset, FS_CardinalityType
    <3>5. Cardinality(R(C)) < Cardinality(R(D))
      <4>1. PICK x \in R(D) : x \notin R(C)
        BY <2>2, <3>1
      <4>2. IsFiniteSet(R(D) \ {x}) /\ Cardinality(R(D) \ {x}) = Cardinality(R(D)) - 1
        BY <3>4, <4>1, FS_RemoveElement
      <4>3. Cardinality(R(C)) <= Cardinality(R(D) \ {x})
        BY <2>2, <4>1, <4>2, FS_Subset
      <4> QED
        BY <3>4, <4>2, <4>3
    <3>6. Cardinality(R(D)) >= k + 1
      BY <3>3, <3>4, <3>5
    <3> QED
      BY <1>2, <2>2, <3>4, <3>6
  <2> QED
    BY <2>3, <2>4
<1>9. n \in T
  <2> HIDE DEF T
  <2>1. 0..n \subseteq T
    BY <1>2, <1>7, <1>8, CountingUp
  <2> QED
    BY <1>2, <2>1
<1>10. Opened(f, g[n]) = g[n]
  <2>1. R(g[n]) \subseteq DOMAIN f.regions
    BY <1>5, <1>9
  <2>2. Cardinality(R(g[n])) <= n
    BY <1>1, <2>1, FS_Subset DEF n
  <2>3. ~ Cardinality(R(g[n])) >= n + 1
    BY <1>1, <1>2, <2>1, <2>2, FS_Subset, FS_CardinalityType
  <2> QED
    BY <1>9, <2>3
<1>11. \A r \in R(g[n]) : ToSet(f.regions[r]) \subseteq g[n]
  BY <1>4, <1>10
<1> QED
  BY <1>3, <1>9, <1>11 DEF R

-----------------------------------------------------------------------------
(* Places and definitions: the calls that remove operations and blocks     *)

\* A list whose members are all in T is a list over T.
LEMMA ListOverMembers ==
  ASSUME NEW S, NEW s \in Seq(S), NEW T, ToSet(s) \subseteq T
  PROVE  s \in Seq(T)
<1>1. Len(s) \in Nat /\ s \in [1..Len(s) -> S] /\ DOMAIN s = 1..Len(s)
  BY LenProperties
<1>2. \A i \in 1..Len(s) : s[i] \in T
  BY <1>1 DEF ToSet
<1>3. s \in [1..Len(s) -> T]
  BY <1>1, <1>2
<1> QED
  BY <1>1, <1>3

\* Operations O and blocks B go, with all the values V that they define.
Drops(f, g, O, B, V) ==
  /\ O \subseteq DOMAIN f.operations /\ B \subseteq DOMAIN f.blocks
  /\ V = (UNION {ParameterValues(f, b) : b \in B}) \cup ResultValues(f, O)
  /\ DOMAIN g.operations = DOMAIN f.operations \ O
  /\ \A o \in DOMAIN f.operations \ O : g.operations[o].results = f.operations[o].results
  /\ DOMAIN g.blocks = DOMAIN f.blocks \ B
  /\ \A b \in DOMAIN f.blocks \ B : g.blocks[b].parameters = f.blocks[b].parameters
  /\ DOMAIN g.values = DOMAIN f.values \ V
  /\ \A v \in DOMAIN f.values \ V : g.values[v] = f.values[v]

\* The definitions of the values that stay are exact.
LEMMA DroppedIsDefined ==
  ASSUME NEW f, DefinitionsAreExact(f), NEW g, NEW O, NEW B, NEW V, Drops(f, g, O, B, V)
  PROVE  DefinitionsAreExact(g)
<1> USE DEF Drops
<1>1. \A v : v \in V <=> \/ \E b \in B : v \in ParameterValues(f, b)
                         \/ \E o \in O : v \in ToSet(f.operations[o].results)
  BY DEF ResultValues
<1>2. \A b, k : k \in DOMAIN f.blocks[b].parameters =>
        f.blocks[b].parameters[k].value \in ParameterValues(f, b)
  BY DEF ParameterValues
<1>3. \A o, k : k \in DOMAIN f.operations[o].results =>
        f.operations[o].results[k] \in ToSet(f.operations[o].results)
  BY DEF ToSet
<1>4. ASSUME NEW v \in DOMAIN f.values \ V PROVE IsWhereDefined(g, v)
  <2>1. IsWhereDefined(f, v) /\ g.values[v] = f.values[v]
    BY DEF DefinitionsAreExact
  <2>2. f.values[v].kind = "BlockParameter" => f.values[v].block \notin B
    BY <1>1, <1>2, <2>1 DEF IsWhereDefined
  <2>3. f.values[v].kind = "OperationResult" => f.values[v].operation \notin O
    BY <1>1, <1>3, <2>1 DEF IsWhereDefined
  <2> QED
    BY <2>1, <2>2, <2>3 DEF IsWhereDefined
\* What defines a value that goes is a parameter or a result that goes.
<1>5. ASSUME NEW v \in V, v \in DOMAIN f.values
      PROVE  \/ f.values[v].kind = "BlockParameter" /\ f.values[v].block \in B
             \/ f.values[v].kind = "OperationResult" /\ f.values[v].operation \in O
  <2>1. CASE \E b \in B : v \in ParameterValues(f, b)
    <3>1. PICK b \in B : v \in ParameterValues(f, b)
      BY <2>1
    <3>2. PICK k \in DOMAIN f.blocks[b].parameters : v = f.blocks[b].parameters[k].value
      BY <3>1 DEF ParameterValues
    <3>3. f.values[v] = [kind |-> "BlockParameter", block |-> b, index |-> k]
      BY <3>2 DEF DefinitionsAreExact, IsDefinedAs
    <3> QED
      BY <3>3
  <2>2. CASE \E o \in O : v \in ToSet(f.operations[o].results)
    <3>1. PICK o \in O : v \in ToSet(f.operations[o].results)
      BY <2>2
    <3>2. PICK k \in DOMAIN f.operations[o].results : v = f.operations[o].results[k]
      BY <3>1 DEF ToSet
    <3>3. f.values[v] = [kind |-> "OperationResult", operation |-> o, index |-> k]
      BY <3>2 DEF DefinitionsAreExact, IsDefinedAs
    <3> QED
      BY <3>3
  <2> QED
    BY <1>1, <2>1, <2>2
<1>6. ASSUME NEW b \in DOMAIN f.blocks \ B, NEW k \in DOMAIN f.blocks[b].parameters
      PROVE  IsDefinedAs(g, f.blocks[b].parameters[k].value,
                         [kind |-> "BlockParameter", block |-> b, index |-> k])
  <2> DEFINE v == f.blocks[b].parameters[k].value
             d == [kind |-> "BlockParameter", block |-> b, index |-> k]
  <2>1. v \in DOMAIN f.values /\ f.values[v] = d
    BY DEF DefinitionsAreExact, IsDefinedAs
  <2>2. d.kind = "BlockParameter" /\ d.block = b
    OBVIOUS
  <2> HIDE DEF v, d
  <2>3. v \notin V
    BY <1>5, <2>1, <2>2
  <2>4. IsDefinedAs(g, v, d)
    BY <2>1, <2>3 DEF IsDefinedAs
  <2> QED
    BY <2>4 DEF v, d
<1>7. ASSUME NEW o \in DOMAIN f.operations \ O, NEW k \in DOMAIN f.operations[o].results
      PROVE  IsDefinedAs(g, f.operations[o].results[k],
                         [kind |-> "OperationResult", operation |-> o, index |-> k])
  <2> DEFINE v == f.operations[o].results[k]
             d == [kind |-> "OperationResult", operation |-> o, index |-> k]
  <2>1. v \in DOMAIN f.values /\ f.values[v] = d
    BY DEF DefinitionsAreExact, IsDefinedAs
  <2>2. d.kind = "OperationResult" /\ d.operation = o
    OBVIOUS
  <2> HIDE DEF v, d
  <2>3. v \notin V
    BY <1>5, <2>1, <2>2
  <2>4. IsDefinedAs(g, v, d)
    BY <2>1, <2>3 DEF IsDefinedAs
  <2> QED
    BY <2>4 DEF v, d
<1> QED
  BY <1>4, <1>6, <1>7 DEF DefinitionsAreExact

\* What remove_operations leaves.
LEMMA RemoveOperationsHolds ==
  ASSUME NEW f, IsOrderly(f), NEW O
  PROVE  LET g == RemoveOperations(f, O)
             V == ResultValues(f, O)
         IN  /\ g.regions = f.regions
             /\ DOMAIN g.operations = DOMAIN f.operations \ O
             /\ \A o \in DOMAIN f.operations \ O : g.operations[o] = f.operations[o]
             /\ DOMAIN g.blocks = DOMAIN f.blocks
             /\ \A b \in DOMAIN f.blocks : g.blocks[b] = Unlisted(f.blocks[b], O)
             /\ DOMAIN g.values = DOMAIN f.values \ V
             /\ \A v \in DOMAIN f.values \ V : g.values[v] = f.values[v]
BY DEF RemoveOperations, Restrict, IsOrderly, IsFunction

\* remove_operations takes operations out of the blocks that list them, and
\* their results with them.
LEMMA RemoveOperationsIsOrderly ==
  ASSUME NEW f, IsExact(f), IsOrderly(f), NEW O, CanRemoveOperations(f, O)
  PROVE  IsOrderly(RemoveOperations(f, O))
<1> DEFINE g == RemoveOperations(f, O)
           V == ResultValues(f, O)
<1>1. /\ g.regions = f.regions
      /\ DOMAIN g.operations = DOMAIN f.operations \ O
      /\ \A o \in DOMAIN f.operations \ O : g.operations[o] = f.operations[o]
      /\ DOMAIN g.blocks = DOMAIN f.blocks
      /\ \A b \in DOMAIN f.blocks : g.blocks[b] = Unlisted(f.blocks[b], O)
      /\ DOMAIN g.values = DOMAIN f.values \ V
      /\ \A v \in DOMAIN f.values \ V : g.values[v] = f.values[v]
  BY RemoveOperationsHolds
<1>2. IsFunction(g)
  BY RemoveOperationsIsExact DEF IsExact
<1>3. O \subseteq DOMAIN f.operations /\ \A o \in O : ~ IsTerminator(f, o)
  BY DEF CanRemoveOperations
<1> HIDE DEF g, V
<1>4. ASSUME NEW b \in DOMAIN f.blocks
      PROVE  /\ DOMAIN g.blocks[b] = DOMAIN f.blocks[b]
             /\ g.blocks[b].region = f.blocks[b].region
             /\ g.blocks[b].parameters = f.blocks[b].parameters
             /\ g.blocks[b].terminator = f.blocks[b].terminator
             /\ g.blocks[b].contents \in Seq(DOMAIN f.operations \ O)
             /\ ToSet(g.blocks[b].contents) = ToSet(f.blocks[b].contents) \ O
  <2>1. /\ {"region", "parameters", "contents", "terminator"} \subseteq DOMAIN f.blocks[b]
        /\ f.blocks[b].contents \in Seq(DOMAIN f.operations)
    BY DEF IsOrderly, IsLaidOut
  <2> DEFINE rest == Without(f.blocks[b].contents, O)
  <2>2. rest \in Seq(DOMAIN f.operations \ O) /\ ToSet(rest) = ToSet(f.blocks[b].contents) \ O
    BY <2>1, WithoutHolds
  <2>3. g.blocks[b] = [f.blocks[b] EXCEPT !.contents = rest]
    BY <1>1 DEF Unlisted
  <2> HIDE DEF rest
  <2> QED
    BY <2>1, <2>2, <2>3
<1>5. IsLaidOut(g)
  <2>1. \A b \in DOMAIN g.blocks :
          /\ {"region", "parameters", "contents", "terminator"} \subseteq DOMAIN g.blocks[b]
          /\ g.blocks[b].contents \in Seq(DOMAIN g.operations)
          /\ g.blocks[b].parameters \in Seq(ToSet(g.blocks[b].parameters))
    BY <1>1, <1>4 DEF IsOrderly, IsLaidOut
  <2>2. \A o \in DOMAIN g.operations : {"structural", "regions"} \subseteq DOMAIN g.operations[o]
    BY <1>1 DEF IsOrderly, IsLaidOut
  <2>3. IsFiniteSet(DOMAIN g.regions) /\ \A r \in DOMAIN g.regions : g.regions[r] \in Seq(DOMAIN g.blocks)
    BY <1>1 DEF IsOrderly, IsLaidOut
  <2> QED
    BY <2>1, <2>2, <2>3 DEF IsLaidOut
<1>6. PlacesAreExact(g)
  <2>1. ASSUME NEW b \in DOMAIN f.blocks
        PROVE  /\ g.blocks[b].region \in DOMAIN g.regions
               /\ BlockOperations(g, b) = {o \in DOMAIN g.operations : g.operations[o].block = b}
               /\ \A o \in ToSet(g.blocks[b].contents) : ~ IsTerminator(g, o)
               /\ g.blocks[b].terminator # None => IsTerminator(g, g.blocks[b].terminator)
    <3>1. /\ f.blocks[b].region \in DOMAIN f.regions
          /\ BlockOperations(f, b) = {o \in DOMAIN f.operations : f.operations[o].block = b}
          /\ \A o \in ToSet(f.blocks[b].contents) : ~ IsTerminator(f, o)
          /\ f.blocks[b].terminator # None => IsTerminator(f, f.blocks[b].terminator)
      BY DEF IsOrderly, PlacesAreExact
    <3>2. /\ ToSet(f.blocks[b].contents) \subseteq DOMAIN f.operations
          /\ f.blocks[b].terminator # None => f.blocks[b].terminator \in DOMAIN f.operations \ O
      BY <1>3, <3>1, ListedOperations DEF IsOrderly
    <3>3. BlockOperations(g, b) = BlockOperations(f, b) \ O
      BY <1>4, <3>2 DEF BlockOperations
    <3>4. \A o \in DOMAIN f.operations \ O : IsTerminator(g, o) <=> IsTerminator(f, o)
      BY <1>1 DEF IsTerminator
    <3>5. BlockOperations(g, b) = {o \in DOMAIN g.operations : g.operations[o].block = b}
      BY <1>1, <3>1, <3>3
    <3> QED
      BY <1>1, <1>4, <3>1, <3>2, <3>4, <3>5
  <2>2. \A o \in DOMAIN g.operations : /\ g.operations[o].block \in DOMAIN g.blocks
                                       /\ g.operations[o].structural \subseteq DOMAIN g.blocks
                                       /\ g.operations[o].regions \subseteq DOMAIN g.regions
    BY <1>1 DEF IsOrderly, PlacesAreExact
  <2>3. \A r \in DOMAIN g.regions :
          ToSet(g.regions[r]) = {b \in DOMAIN g.blocks : g.blocks[b].region = r}
    BY <1>1, <1>4 DEF IsOrderly, PlacesAreExact
  <2> QED
    BY <1>1, <2>1, <2>2, <2>3 DEF PlacesAreExact
<1>7. DefinitionsAreExact(g)
  <2> DEFINE B == {}
  <2>1. V = (UNION {ParameterValues(f, b) : b \in B}) \cup ResultValues(f, O)
    BY DEF V
  <2>2. DefinitionsAreExact(f) /\ B \subseteq DOMAIN f.blocks /\ DOMAIN g.blocks = DOMAIN f.blocks \ B
    BY <1>1 DEF IsOrderly
  <2>3. \A b \in DOMAIN f.blocks \ B : g.blocks[b].parameters = f.blocks[b].parameters
    BY <1>4
  <2>4. \A o \in DOMAIN f.operations \ O : g.operations[o].results = f.operations[o].results
    BY <1>1
  <2> HIDE DEF B
  <2>5. Drops(f, g, O, B, V)
    BY <1>1, <1>3, <2>1, <2>2, <2>3, <2>4 DEF Drops
  <2> QED
    BY <2>2, <2>5, DroppedIsDefined
<1>8. IsOrderly(g)
  BY <1>2, <1>5, <1>6, <1>7 DEF IsOrderly
<1> QED
  BY <1>8 DEF g

\* What remove_blocks leaves.
LEMMA RemoveBlocksHolds ==
  ASSUME NEW f, IsOrderly(f), NEW B
  PROVE  LET g == RemoveBlocks(f, B)
             W == WithNested(f, B)
             O == OperationsOf(f, W)
             R == RegionsOf(f, O)
             V == (UNION {ParameterValues(f, b) : b \in W}) \cup ResultValues(f, O)
         IN  /\ DOMAIN g.regions = DOMAIN f.regions \ R
             /\ \A r \in DOMAIN f.regions \ R : g.regions[r] = Without(f.regions[r], W)
             /\ DOMAIN g.operations = DOMAIN f.operations \ O
             /\ \A o \in DOMAIN f.operations \ O : g.operations[o] = f.operations[o]
             /\ DOMAIN g.blocks = DOMAIN f.blocks \ W
             /\ \A b \in DOMAIN f.blocks \ W : g.blocks[b] = f.blocks[b]
             /\ DOMAIN g.values = DOMAIN f.values \ V
             /\ \A v \in DOMAIN f.values \ V : g.values[v] = f.values[v]
<1> DEFINE g == RemoveBlocks(f, B)
           W == WithNested(f, B)
           O == OperationsOf(f, W)
           R == RegionsOf(f, O)
           V == (UNION {ParameterValues(f, b) : b \in W}) \cup ResultValues(f, O)
<1>1. /\ DOMAIN g.regions = DOMAIN f.regions \ R
      /\ \A r \in DOMAIN f.regions \ R : g.regions[r] = Without(f.regions[r], W)
      /\ DOMAIN g.operations = DOMAIN f.operations \ O
      /\ \A o \in DOMAIN f.operations \ O : g.operations[o] = f.operations[o]
      /\ DOMAIN g.blocks = DOMAIN f.blocks \ W
      /\ \A b \in DOMAIN f.blocks \ W : g.blocks[b] = f.blocks[b]
      /\ DOMAIN g.values = DOMAIN f.values \ V
      /\ \A v \in DOMAIN f.values \ V : g.values[v] = f.values[v]
  <2> DEFINE live == DOMAIN f.values \ V
             keptRegions == [r \in DOMAIN f.regions \ R |-> Without(f.regions[r], W)]
             keptBlocks == Restrict(f.blocks, DOMAIN f.blocks \ W)
             keptOperations == Restrict(f.operations, DOMAIN f.operations \ O)
             keptValues == Restrict(f.values, live)
             keptUses == Restrict(DetachedAll(f, O), live)
  <2>1. g = [f EXCEPT !.regions = keptRegions, !.blocks = keptBlocks, !.operations = keptOperations,
                      !.values = keptValues, !.uses = keptUses]
    BY DEF RemoveBlocks
  <2>2. {"regions", "blocks", "operations", "values", "uses"} \subseteq DOMAIN f
    BY DEF IsOrderly, IsFunction
  <2>3. /\ g.regions = keptRegions /\ g.blocks = keptBlocks /\ g.operations = keptOperations
        /\ g.values = keptValues
    <3> HIDE DEF g, keptRegions, keptBlocks, keptOperations, keptValues, keptUses
    <3> QED
      BY <2>1, <2>2
  <2> HIDE DEF g, W, O, R, V
  <2> QED
    BY <2>3 DEF Restrict
<1> QED
  BY <1>1

\* remove_blocks takes the nested blocks with it, and with these all that is in
\* them and the regions they open: no block that stays is in such a region.
LEMMA RemoveBlocksIsOrderly ==
  ASSUME NEW f, IsExact(f), IsOrderly(f), NEW B, CanRemoveBlocks(f, B)
  PROVE  IsOrderly(RemoveBlocks(f, B))
<1> DEFINE g == RemoveBlocks(f, B)
           W == WithNested(f, B)
           O == OperationsOf(f, W)
           R == RegionsOf(f, O)
           V == (UNION {ParameterValues(f, b) : b \in W}) \cup ResultValues(f, O)
<1>1. /\ DOMAIN g.regions = DOMAIN f.regions \ R
      /\ \A r \in DOMAIN f.regions \ R : g.regions[r] = Without(f.regions[r], W)
      /\ DOMAIN g.operations = DOMAIN f.operations \ O
      /\ \A o \in DOMAIN f.operations \ O : g.operations[o] = f.operations[o]
      /\ DOMAIN g.blocks = DOMAIN f.blocks \ W
      /\ \A b \in DOMAIN f.blocks \ W : g.blocks[b] = f.blocks[b]
      /\ DOMAIN g.values = DOMAIN f.values \ V
      /\ \A v \in DOMAIN f.values \ V : g.values[v] = f.values[v]
  BY RemoveBlocksHolds
<1>2. IsFunction(g)
  BY RemoveBlocksIsExact DEF IsExact
<1>3. B \in SUBSET DOMAIN f.blocks /\ NothingRefersTo(f, W, O, R)
  BY DEF CanRemoveBlocks
<1>4. W \subseteq DOMAIN f.blocks /\ \A r \in R : ToSet(f.regions[r]) \subseteq W
  BY <1>3, NestedIsClosed
<1> HIDE DEF g, W
<1>5. /\ O \subseteq DOMAIN f.operations
      /\ \A o \in DOMAIN f.operations : o \in O <=> f.operations[o].block \in W
  <2>1. \A b \in DOMAIN f.blocks :
          BlockOperations(f, b) = {o \in DOMAIN f.operations : f.operations[o].block = b}
    BY DEF IsOrderly, PlacesAreExact
  <2> QED
    BY <1>4, <2>1 DEF OperationsOf
<1> HIDE DEF O, R, V
<1>6. \A b \in DOMAIN f.blocks \ W :
        /\ BlockOperations(g, b) = BlockOperations(f, b)
        /\ BlockOperations(f, b) \subseteq DOMAIN f.operations \ O
  <2>1. \A b \in DOMAIN f.blocks :
          BlockOperations(f, b) = {o \in DOMAIN f.operations : f.operations[o].block = b}
    BY DEF IsOrderly, PlacesAreExact
  <2>2. \A b \in DOMAIN f.blocks \ W : BlockOperations(g, b) = BlockOperations(f, b)
    BY <1>1 DEF BlockOperations
  <2> QED
    BY <1>5, <2>1, <2>2
<1>7. ASSUME NEW r \in DOMAIN f.regions \ R
      PROVE  /\ g.regions[r] \in Seq(DOMAIN f.blocks \ W)
             /\ ToSet(g.regions[r]) = ToSet(f.regions[r]) \ W
  <2>1. f.regions[r] \in Seq(DOMAIN f.blocks)
    BY DEF IsOrderly, IsLaidOut
  <2> DEFINE s == f.regions[r]
             T == DOMAIN f.blocks
  <2>2. s \in Seq(T)
    BY <2>1
  <2> HIDE DEF s, T
  <2>3. Without(s, W) \in Seq(T \ W) /\ ToSet(Without(s, W)) = ToSet(s) \ W
    BY <2>2, WithoutHolds
  <2> QED
    BY <1>1, <2>3 DEF s, T
<1>8. IsLaidOut(g)
  <2>1. ASSUME NEW b \in DOMAIN f.blocks \ W
        PROVE  /\ {"region", "parameters", "contents", "terminator"} \subseteq DOMAIN f.blocks[b]
               /\ f.blocks[b].contents \in Seq(DOMAIN f.operations \ O)
               /\ f.blocks[b].parameters \in Seq(ToSet(f.blocks[b].parameters))
    <3>1. ToSet(f.blocks[b].contents) \subseteq DOMAIN f.operations \ O
      BY <1>6 DEF BlockOperations
    <3>2. f.blocks[b].contents \in Seq(DOMAIN f.operations)
      BY DEF IsOrderly, IsLaidOut
    <3>3. f.blocks[b].contents \in Seq(DOMAIN f.operations \ O)
      BY <3>1, <3>2, ListOverMembers
    <3> QED
      BY <3>3 DEF IsOrderly, IsLaidOut
  <2>2. IsFiniteSet(DOMAIN g.regions)
    <3>1. IsFiniteSet(DOMAIN f.regions)
      BY DEF IsOrderly, IsLaidOut
    <3> QED
      BY <1>1, <3>1, FS_Subset
  <2>3. \A o \in DOMAIN g.operations : {"structural", "regions"} \subseteq DOMAIN g.operations[o]
    BY <1>1 DEF IsOrderly, IsLaidOut
  <2>4. \A r \in DOMAIN g.regions : g.regions[r] \in Seq(DOMAIN g.blocks)
    BY <1>1, <1>7
  <2>5. \A b \in DOMAIN g.blocks :
          /\ {"region", "parameters", "contents", "terminator"} \subseteq DOMAIN g.blocks[b]
          /\ g.blocks[b].contents \in Seq(DOMAIN g.operations)
          /\ g.blocks[b].parameters \in Seq(ToSet(g.blocks[b].parameters))
    BY <1>1, <2>1
  <2> QED
    BY <2>2, <2>3, <2>4, <2>5 DEF IsLaidOut
<1>9. PlacesAreExact(g)
  <2>1. ASSUME NEW b \in DOMAIN f.blocks \ W
        PROVE  /\ g.blocks[b].region \in DOMAIN g.regions
               /\ BlockOperations(g, b) = {o \in DOMAIN g.operations : g.operations[o].block = b}
               /\ \A o \in ToSet(g.blocks[b].contents) : ~ IsTerminator(g, o)
               /\ g.blocks[b].terminator # None => IsTerminator(g, g.blocks[b].terminator)
    <3>1. /\ f.blocks[b].region \in DOMAIN f.regions
          /\ BlockOperations(f, b) = {o \in DOMAIN f.operations : f.operations[o].block = b}
          /\ \A o \in ToSet(f.blocks[b].contents) : ~ IsTerminator(f, o)
          /\ f.blocks[b].terminator # None => IsTerminator(f, f.blocks[b].terminator)
      BY DEF IsOrderly, PlacesAreExact
    <3>2. b \in ToSet(f.regions[f.blocks[b].region])
      BY <3>1 DEF IsOrderly, PlacesAreExact
    <3>3. f.blocks[b].region \notin R
      BY <1>4, <3>2
    <3>4. /\ ToSet(f.blocks[b].contents) \subseteq DOMAIN f.operations \ O
          /\ f.blocks[b].terminator # None => f.blocks[b].terminator \in DOMAIN f.operations \ O
      BY <1>6 DEF BlockOperations
    <3>5. \A o \in DOMAIN f.operations \ O : IsTerminator(g, o) <=> IsTerminator(f, o)
      BY <1>1 DEF IsTerminator
    <3>6. BlockOperations(g, b) = {o \in DOMAIN g.operations : g.operations[o].block = b}
      <4>1. \A o \in DOMAIN f.operations : f.operations[o].block = b => o \notin O
        BY <1>5
      <4> QED
        BY <1>1, <1>6, <3>1, <4>1
    <3> QED
      BY <1>1, <3>1, <3>3, <3>4, <3>5, <3>6
  <2>2. ASSUME NEW o \in DOMAIN f.operations \ O
        PROVE  /\ g.operations[o].block \in DOMAIN g.blocks
               /\ g.operations[o].structural \subseteq DOMAIN g.blocks
               /\ g.operations[o].regions \subseteq DOMAIN g.regions
    <3>1. /\ f.operations[o].block \in DOMAIN f.blocks
          /\ f.operations[o].structural \subseteq DOMAIN f.blocks
          /\ f.operations[o].regions \subseteq DOMAIN f.regions
      BY DEF IsOrderly, PlacesAreExact
    <3>2. f.operations[o].structural \cap W = {} /\ f.operations[o].regions \cap R = {}
      BY <1>3 DEF NothingRefersTo
    <3> QED
      BY <1>1, <1>5, <3>1, <3>2
  <2>3. ASSUME NEW r \in DOMAIN f.regions \ R
        PROVE  ToSet(g.regions[r]) = {b \in DOMAIN g.blocks : g.blocks[b].region = r}
    <3>1. ToSet(f.regions[r]) = {b \in DOMAIN f.blocks : f.blocks[b].region = r}
      BY DEF IsOrderly, PlacesAreExact
    <3> QED
      BY <1>1, <1>7, <3>1
  <2> QED
    BY <1>1, <2>1, <2>2, <2>3 DEF PlacesAreExact
<1>10. DefinitionsAreExact(g)
  <2>1. V = (UNION {ParameterValues(f, b) : b \in W}) \cup ResultValues(f, O)
    BY DEF V
  <2>2. \A o \in DOMAIN f.operations \ O : g.operations[o].results = f.operations[o].results
    BY <1>1
  <2>3. \A b \in DOMAIN f.blocks \ W : g.blocks[b].parameters = f.blocks[b].parameters
    BY <1>1
  <2>4. Drops(f, g, O, W, V)
    BY <1>1, <1>4, <1>5, <2>1, <2>2, <2>3 DEF Drops
  <2> QED
    BY <2>4, DroppedIsDefined DEF IsOrderly
<1>11. IsOrderly(g)
  BY <1>2, <1>8, <1>9, <1>10 DEF IsOrderly
<1> QED
  BY <1>11 DEF g

\* g is f with the operations of b at the end of p, whose jump is gone.
IsSpliceOf(g, f, p, b) ==
  /\ g.regions = f.regions /\ g.values = f.values
  /\ DOMAIN g.blocks = DOMAIN f.blocks
  /\ \A c \in DOMAIN f.blocks \ {p, b} : g.blocks[c] = f.blocks[c]
  /\ DOMAIN g.blocks[p] = DOMAIN f.blocks[p] /\ DOMAIN g.blocks[b] = DOMAIN f.blocks[b]
  /\ g.blocks[p].region = f.blocks[p].region /\ g.blocks[b].region = f.blocks[b].region
  /\ g.blocks[p].parameters = f.blocks[p].parameters
  /\ g.blocks[b].parameters = f.blocks[b].parameters
  /\ g.blocks[p].contents = f.blocks[p].contents \o f.blocks[b].contents
  /\ g.blocks[p].terminator = f.blocks[b].terminator
  /\ g.blocks[b].contents = <<>> /\ g.blocks[b].terminator = None
  /\ DOMAIN g.operations = DOMAIN f.operations \ {f.blocks[p].terminator}
  /\ \A o \in DOMAIN f.operations \ {f.blocks[p].terminator} :
       /\ DOMAIN g.operations[o] = DOMAIN f.operations[o]
       /\ g.operations[o].block = IF o \in BlockOperations(f, b) THEN p ELSE f.operations[o].block
       /\ g.operations[o].kind = f.operations[o].kind
       /\ g.operations[o].own = f.operations[o].own
       /\ g.operations[o].operands = f.operations[o].operands
       /\ g.operations[o].targets = f.operations[o].targets
       /\ g.operations[o].results = f.operations[o].results
       /\ g.operations[o].regions = f.operations[o].regions
       /\ g.operations[o].structural = f.operations[o].structural

\* So they are after a splice.
LEMMA SplicedHolds ==
  ASSUME NEW f, IsOrderly(f), NEW p, NEW b, CanMergeBlock(f, p, b)
  PROVE  IsSpliceOf(Spliced(f, p, b), f, p, b)
<1> DEFINE g     == Spliced(f, p, b)
           jump  == f.blocks[p].terminator
           moved == BlockOperations(f, b)
           ops   == [o \in DOMAIN f.operations \ {jump} |->
                       IF o \in moved THEN [f.operations[o] EXCEPT !.block = p] ELSE f.operations[o]]
<1>1. /\ p # b /\ p \in DOMAIN f.blocks /\ b \in DOMAIN f.blocks
      /\ jump # None /\ f.operations[jump].results = <<>>
      /\ f.blocks[p].region = f.blocks[b].region
  BY DEF CanMergeBlock
<1>2. \A c \in DOMAIN f.blocks :
        {"region", "parameters", "contents", "terminator"} \subseteq DOMAIN f.blocks[c]
  BY DEF IsOrderly, IsLaidOut
<1>3. /\ g.regions = f.regions /\ g.values = f.values /\ g.operations = ops
      /\ DOMAIN g.blocks = DOMAIN f.blocks
      /\ \A c \in DOMAIN f.blocks \ {p, b} : g.blocks[c] = f.blocks[c]
      /\ DOMAIN g.blocks[p] = DOMAIN f.blocks[p] /\ DOMAIN g.blocks[b] = DOMAIN f.blocks[b]
      /\ g.blocks[p].region = f.blocks[p].region /\ g.blocks[b].region = f.blocks[b].region
      /\ g.blocks[p].parameters = f.blocks[p].parameters
      /\ g.blocks[b].parameters = f.blocks[b].parameters
      /\ g.blocks[p].contents = f.blocks[p].contents \o f.blocks[b].contents
      /\ g.blocks[p].terminator = f.blocks[b].terminator
      /\ g.blocks[b].contents = <<>> /\ g.blocks[b].terminator = None
  <2> DEFINE uses == Detached(f.uses, jump, f.operations[jump].operands, 1)
             both == f.blocks[p].contents \o f.blocks[b].contents
  <2>1. g = [f EXCEPT !.blocks[p].contents = both,
                      !.blocks[p].terminator = f.blocks[b].terminator,
                      !.blocks[b].contents = <<>>, !.blocks[b].terminator = None,
                      !.operations = ops, !.uses = uses]
    BY DEF Spliced
  <2>2. {"regions", "blocks", "operations", "values", "uses"} \subseteq DOMAIN f
    BY DEF IsOrderly, IsFunction
  <2> HIDE DEF g, ops, uses, both
  <2>3. /\ g.regions = f.regions /\ g.values = f.values /\ g.operations = ops
        /\ g.blocks = [f.blocks EXCEPT ![p].contents = both, ![p].terminator = f.blocks[b].terminator,
                                       ![b].contents = <<>>, ![b].terminator = None]
    BY <2>1, <2>2
  <2> DEFINE atP == f.blocks[p]
             atB == f.blocks[b]
             newP == [atP EXCEPT !.contents = both, !.terminator = atB.terminator]
             newB == [atB EXCEPT !.contents = <<>>, !.terminator = None]
  <2>4. /\ DOMAIN g.blocks = DOMAIN f.blocks
        /\ \A c \in DOMAIN f.blocks \ {p, b} : g.blocks[c] = f.blocks[c]
        /\ g.blocks[p] = newP /\ g.blocks[b] = newB
    BY <2>3, <1>1
  <2>5. /\ {"region", "parameters", "contents", "terminator"} \subseteq DOMAIN atP
        /\ {"region", "parameters", "contents", "terminator"} \subseteq DOMAIN atB
    BY <1>1, <1>2
  <2>6. /\ DOMAIN newP = DOMAIN atP /\ newP.region = atP.region /\ newP.parameters = atP.parameters
        /\ newP.contents = both /\ newP.terminator = atB.terminator
    <3> HIDE DEF atP, atB
    <3> QED
      BY <2>5
  <2>7. /\ DOMAIN newB = DOMAIN atB /\ newB.region = atB.region /\ newB.parameters = atB.parameters
        /\ newB.contents = <<>> /\ newB.terminator = None
    <3> HIDE DEF atB
    <3> QED
      BY <2>5
  <2> HIDE DEF newP, newB
  <2> QED
    BY <2>3, <2>4, <2>6, <2>7 DEF both
<1> HIDE DEF g
<1>4. /\ DOMAIN g.operations = DOMAIN f.operations \ {jump}
      /\ \A o \in DOMAIN f.operations \ {jump} :
           /\ DOMAIN g.operations[o] = DOMAIN f.operations[o]
           /\ g.operations[o].block = IF o \in moved THEN p ELSE f.operations[o].block
           /\ g.operations[o].kind = f.operations[o].kind
           /\ g.operations[o].own = f.operations[o].own
           /\ g.operations[o].operands = f.operations[o].operands
           /\ g.operations[o].targets = f.operations[o].targets
           /\ g.operations[o].results = f.operations[o].results
           /\ g.operations[o].regions = f.operations[o].regions
           /\ g.operations[o].structural = f.operations[o].structural
  <2>1. g.operations = ops
    BY <1>3
  <2> SUFFICES ASSUME NEW o \in DOMAIN f.operations \ {jump}
               PROVE  /\ DOMAIN g.operations[o] = DOMAIN f.operations[o]
                      /\ g.operations[o].block = IF o \in moved THEN p ELSE f.operations[o].block
                      /\ g.operations[o].kind = f.operations[o].kind
                      /\ g.operations[o].own = f.operations[o].own
                      /\ g.operations[o].operands = f.operations[o].operands
                      /\ g.operations[o].targets = f.operations[o].targets
                      /\ g.operations[o].results = f.operations[o].results
                      /\ g.operations[o].regions = f.operations[o].regions
                      /\ g.operations[o].structural = f.operations[o].structural
    BY <2>1
  <2> DEFINE old == f.operations[o]
             new == g.operations[o]
  <2>2. "block" \in DOMAIN old
    BY DEF IsOrderly, IsFunction
  <2> HIDE DEF moved, jump
  <2>3. new = IF o \in moved THEN [old EXCEPT !.block = p] ELSE old
    BY <2>1
  <2> HIDE DEF old, new, ops
  <2>4. /\ DOMAIN new = DOMAIN old /\ new.block = IF o \in moved THEN p ELSE old.block
        /\ new.kind = old.kind /\ new.own = old.own /\ new.operands = old.operands
        /\ new.targets = old.targets /\ new.results = old.results
        /\ new.regions = old.regions /\ new.structural = old.structural
    BY <2>2, <2>3
  <2> QED
    BY <2>4, Zenon DEF old, new
<1> QED
  BY <1>3, <1>4 DEF g, IsSpliceOf

\* Half of merge_block: what moves is told, and nothing else is disturbed.
LEMMA SplicedIsOrderly ==
  ASSUME NEW f, IsExact(f), IsOrderly(f), NEW p, NEW b, CanMergeBlock(f, p, b)
  PROVE  IsOrderly(Spliced(f, p, b))
<1> DEFINE g     == Spliced(f, p, b)
           jump  == f.blocks[p].terminator
           moved == BlockOperations(f, b)
<1>1. /\ p # b /\ p \in DOMAIN f.blocks /\ b \in DOMAIN f.blocks
      /\ jump # None /\ f.operations[jump].results = <<>>
      /\ f.blocks[p].region = f.blocks[b].region
  BY DEF CanMergeBlock
<1>2. \A c \in DOMAIN f.blocks :
        {"region", "parameters", "contents", "terminator"} \subseteq DOMAIN f.blocks[c]
  BY DEF IsOrderly, IsLaidOut
<1>0. IsSpliceOf(g, f, p, b)
  BY SplicedHolds
<1> HIDE DEF g
<1>3. /\ g.regions = f.regions /\ g.values = f.values
      /\ DOMAIN g.blocks = DOMAIN f.blocks
      /\ \A c \in DOMAIN f.blocks \ {p, b} : g.blocks[c] = f.blocks[c]
      /\ DOMAIN g.blocks[p] = DOMAIN f.blocks[p] /\ DOMAIN g.blocks[b] = DOMAIN f.blocks[b]
      /\ g.blocks[p].region = f.blocks[p].region /\ g.blocks[b].region = f.blocks[b].region
      /\ g.blocks[p].parameters = f.blocks[p].parameters
      /\ g.blocks[b].parameters = f.blocks[b].parameters
      /\ g.blocks[p].contents = f.blocks[p].contents \o f.blocks[b].contents
      /\ g.blocks[p].terminator = f.blocks[b].terminator
      /\ g.blocks[b].contents = <<>> /\ g.blocks[b].terminator = None
  BY <1>0 DEF IsSpliceOf
<1>4. /\ DOMAIN g.operations = DOMAIN f.operations \ {jump}
      /\ \A o \in DOMAIN f.operations \ {jump} :
           /\ DOMAIN g.operations[o] = DOMAIN f.operations[o]
           /\ g.operations[o].block = IF o \in moved THEN p ELSE f.operations[o].block
           /\ g.operations[o].kind = f.operations[o].kind
           /\ g.operations[o].results = f.operations[o].results
           /\ g.operations[o].regions = f.operations[o].regions
           /\ g.operations[o].structural = f.operations[o].structural
  BY <1>0 DEF IsSpliceOf
<1>5. IsFunction(g)
  BY SplicedIsExact DEF IsExact, g
<1> DEFINE In(c) == {o \in DOMAIN f.operations : f.operations[o].block = c}
<1>6. \A c \in DOMAIN f.blocks :
        /\ BlockOperations(f, c) = In(c)
        /\ f.blocks[c].region \in DOMAIN f.regions
        /\ \A o \in ToSet(f.blocks[c].contents) : ~ IsTerminator(f, o)
        /\ f.blocks[c].terminator # None => IsTerminator(f, f.blocks[c].terminator)
        /\ f.blocks[c].contents \in Seq(DOMAIN f.operations)
        /\ ToSet(f.blocks[c].contents) \subseteq In(c)
        /\ f.blocks[c].terminator # None => f.blocks[c].terminator \in In(c)
  <2> HIDE DEF In
  <2>1. \A c \in DOMAIN f.blocks : BlockOperations(f, c) = In(c)
    BY DEF IsOrderly, PlacesAreExact, In
  <2> QED
    BY <2>1 DEF IsOrderly, IsLaidOut, PlacesAreExact, BlockOperations
<1>7. jump \in In(p) /\ moved = In(b) /\ jump \notin moved
  BY <1>1, <1>6
<1>8. \A c \in DOMAIN f.blocks : jump \notin ToSet(f.blocks[c].contents)
  BY <1>1, <1>6
<1>9. \A c \in DOMAIN f.blocks \ {p} : f.blocks[c].terminator # jump
  BY <1>1, <1>6, <1>7
<1>10. /\ g.blocks[p].contents \in Seq(DOMAIN f.operations \ {jump})
       /\ ToSet(g.blocks[p].contents) = ToSet(f.blocks[p].contents) \cup ToSet(f.blocks[b].contents)
  <2> DEFINE s == f.blocks[p].contents
             t == f.blocks[b].contents
             T == DOMAIN f.operations \ {jump}
  <2>1. s \in Seq(T) /\ t \in Seq(T)
    <3>1. /\ s \in Seq(DOMAIN f.operations) /\ t \in Seq(DOMAIN f.operations)
          /\ ToSet(s) \subseteq T /\ ToSet(t) \subseteq T
      BY <1>1, <1>6, <1>8
    <3> HIDE DEF s, t, T
    <3> QED
      BY <3>1, ListOverMembers
  <2>2. g.blocks[p].contents = s \o t
    BY <1>3
  <2> HIDE DEF s, t, T
  <2>3. s \o t \in Seq(T) /\ ToSet(s \o t) = ToSet(s) \cup ToSet(t)
    <3>1. /\ Len(s) \in Nat /\ Len(t) \in Nat /\ DOMAIN s = 1..Len(s) /\ DOMAIN t = 1..Len(t)
          /\ s \o t \in Seq(T) /\ DOMAIN (s \o t) = 1..(Len(s) + Len(t))
          /\ \A i \in 1..(Len(s) + Len(t)) :
               (s \o t)[i] = IF i <= Len(s) THEN s[i] ELSE t[i - Len(s)]
      BY <2>1, ConcatProperties, LenProperties
    <3>2. \A x \in ToSet(s) : x \in ToSet(s \o t)
      BY <3>1 DEF ToSet
    <3>3. ASSUME NEW x \in ToSet(t) PROVE x \in ToSet(s \o t)
      <4>1. PICK j \in 1..Len(t) : x = t[j]
        BY <3>1 DEF ToSet
      <4>2. Len(s) + j \in 1..(Len(s) + Len(t)) /\ (s \o t)[Len(s) + j] = t[j]
        BY <3>1
      <4> QED
        BY <3>1, <4>1, <4>2 DEF ToSet
    <3>4. \A x \in ToSet(s \o t) : x \in ToSet(s) \cup ToSet(t)
      <4> SUFFICES ASSUME NEW i \in 1..(Len(s) + Len(t))
                   PROVE  (s \o t)[i] \in ToSet(s) \cup ToSet(t)
        BY <3>1 DEF ToSet
      <4>1. i <= Len(s) => i \in DOMAIN s
        BY <3>1
      <4>2. ~ i <= Len(s) => i - Len(s) \in DOMAIN t
        BY <3>1
      <4> QED
        BY <3>1, <4>1, <4>2 DEF ToSet
    <3> QED
      BY <3>1, <3>2, <3>3, <3>4
  <2> QED
    BY <2>2, <2>3 DEF s, t, T
<1>11. IsLaidOut(g)
  <2>1. ASSUME NEW c \in DOMAIN f.blocks
        PROVE  /\ {"region", "parameters", "contents", "terminator"} \subseteq DOMAIN g.blocks[c]
               /\ g.blocks[c].contents \in Seq(DOMAIN g.operations)
               /\ g.blocks[c].parameters \in Seq(ToSet(g.blocks[c].parameters))
    <3>1. /\ {"region", "parameters", "contents", "terminator"} \subseteq DOMAIN g.blocks[c]
          /\ g.blocks[c].parameters = f.blocks[c].parameters
      BY <1>1, <1>2, <1>3
    <3>2. f.blocks[c].parameters \in Seq(ToSet(f.blocks[c].parameters))
      BY DEF IsOrderly, IsLaidOut
    <3>3. c \notin {p, b} => g.blocks[c].contents \in Seq(DOMAIN f.operations \ {jump})
      <4>1. /\ f.blocks[c].contents \in Seq(DOMAIN f.operations)
            /\ ToSet(f.blocks[c].contents) \subseteq DOMAIN f.operations \ {jump}
        BY <1>6, <1>8
      <4> HIDE DEF jump
      <4>2. f.blocks[c].contents \in Seq(DOMAIN f.operations \ {jump})
        BY <4>1, ListOverMembers
      <4> QED
        BY <1>3, <4>2
    <3>4. g.blocks[b].contents \in Seq(DOMAIN f.operations \ {jump})
      BY <1>3
    <3>5. g.blocks[c].contents \in Seq(DOMAIN f.operations \ {jump})
      BY <1>10, <3>3, <3>4
    <3> QED
      BY <1>4, <3>1, <3>2, <3>5
  <2>2. IsFiniteSet(DOMAIN g.regions) /\ \A r \in DOMAIN g.regions : g.regions[r] \in Seq(DOMAIN g.blocks)
    BY <1>3 DEF IsOrderly, IsLaidOut
  <2>3. \A o \in DOMAIN g.operations : {"structural", "regions"} \subseteq DOMAIN g.operations[o]
    BY <1>4 DEF IsOrderly, IsLaidOut
  <2> QED
    BY <1>3, <2>1, <2>2, <2>3 DEF IsLaidOut
<1>12. PlacesAreExact(g)
  <2>0. \A o \in DOMAIN f.operations \ {jump} : IsTerminator(g, o) <=> IsTerminator(f, o)
    BY <1>4 DEF IsTerminator
  <2>1. ASSUME NEW c \in DOMAIN f.blocks
        PROVE  BlockOperations(g, c) = {o \in DOMAIN g.operations : g.operations[o].block = c}
    <3>1. CASE c = p
      <4>1. BlockOperations(g, p) = (BlockOperations(f, p) \ {jump}) \cup BlockOperations(f, b)
        BY <1>1, <1>3, <1>7, <1>8, <1>10 DEF BlockOperations
      <4>2. \A o : o \in BlockOperations(g, p) <=>
                     /\ o \in DOMAIN f.operations \ {jump}
                     /\ f.operations[o].block = p \/ f.operations[o].block = b
        BY <1>1, <1>6, <1>7, <4>1
      <4>3. \A o \in DOMAIN g.operations :
              g.operations[o].block = p <=> f.operations[o].block = p \/ f.operations[o].block = b
        BY <1>4, <1>7
      <4> QED
        BY <3>1, <1>4, <4>2, <4>3
    <3>2. CASE c = b
      <4>1. BlockOperations(g, b) = {}
        BY <1>3 DEF BlockOperations, ToSet
      <4>2. \A o \in DOMAIN g.operations : g.operations[o].block # b
        <5> TAKE o \in DOMAIN g.operations
        <5>1. o \in DOMAIN f.operations \ {jump}
          BY <1>4
        <5>2. g.operations[o].block = IF o \in moved THEN p ELSE f.operations[o].block
          BY <1>4, <5>1
        <5>3. o \in moved <=> f.operations[o].block = b
          BY <1>7, <5>1
        <5> QED
          BY <1>1, <5>2, <5>3, Zenon
      <4> QED
        BY <3>2, <4>1, <4>2
    <3>3. CASE c \notin {p, b}
      <4>1. BlockOperations(g, c) = In(c)
        BY <1>3, <1>6, <3>3 DEF BlockOperations
      <4>2. \A o : o \in In(c) <=> o \in DOMAIN g.operations /\ g.operations[o].block = c
        BY <1>4, <1>7, <3>3
      <4> QED
        BY <4>1, <4>2
    <3> QED
      BY <3>1, <3>2, <3>3
  <2>2. ASSUME NEW c \in DOMAIN f.blocks
        PROVE  /\ g.blocks[c].region = f.blocks[c].region
               /\ \A o \in ToSet(g.blocks[c].contents) : ~ IsTerminator(g, o)
               /\ g.blocks[c].terminator # None => IsTerminator(g, g.blocks[c].terminator)
    <3>1. CASE c = p
      <4>1. \A o \in ToSet(g.blocks[p].contents) : o # jump /\ o \in DOMAIN f.operations /\ ~ IsTerminator(f, o)
        BY <1>1, <1>6, <1>8, <1>10
      <4>2. g.blocks[p].terminator # None =>
              /\ g.blocks[p].terminator \in DOMAIN f.operations \ {jump}
              /\ IsTerminator(f, g.blocks[p].terminator)
        BY <1>1, <1>3, <1>6, <1>9
      <4> QED
        BY <3>1, <1>3, <2>0, <4>1, <4>2
    <3>2. CASE c = b
      <4>1. ToSet(g.blocks[b].contents) = {} /\ g.blocks[b].terminator = None
        BY <1>3 DEF ToSet
      <4> QED
        BY <3>2, <1>3, <4>1
    <3>3. CASE c \notin {p, b}
      <4>1. \A o \in ToSet(f.blocks[c].contents) : o # jump /\ o \in DOMAIN f.operations /\ ~ IsTerminator(f, o)
        BY <1>6, <1>8
      <4>2. f.blocks[c].terminator # None =>
              /\ f.blocks[c].terminator \in DOMAIN f.operations \ {jump}
              /\ IsTerminator(f, f.blocks[c].terminator)
        BY <1>6, <1>9, <3>3
      <4> QED
        BY <3>3, <1>3, <2>0, <4>1, <4>2
    <3> QED
      BY <3>1, <3>2, <3>3
  <2>3. ASSUME NEW r \in DOMAIN f.regions
        PROVE  ToSet(g.regions[r]) = {c \in DOMAIN g.blocks : g.blocks[c].region = r}
    <3>1. ToSet(f.regions[r]) = {c \in DOMAIN f.blocks : f.blocks[c].region = r}
      BY DEF IsOrderly, PlacesAreExact
    <3> QED
      BY <1>3, <2>2, <3>1
  <2>4. ASSUME NEW o \in DOMAIN g.operations
        PROVE  /\ g.operations[o].block \in DOMAIN g.blocks
               /\ g.operations[o].structural \subseteq DOMAIN g.blocks
               /\ g.operations[o].regions \subseteq DOMAIN g.regions
    <3>1. /\ f.operations[o].block \in DOMAIN f.blocks
          /\ f.operations[o].structural \subseteq DOMAIN f.blocks
          /\ f.operations[o].regions \subseteq DOMAIN f.regions
      BY <1>4 DEF IsOrderly, PlacesAreExact
    <3>2. /\ g.operations[o].block \in {p, f.operations[o].block}
          /\ g.operations[o].structural = f.operations[o].structural
          /\ g.operations[o].regions = f.operations[o].regions
      BY <1>4
    <3> QED
      BY <1>1, <1>3, <3>1, <3>2
  <2>5. \A c \in DOMAIN g.blocks : g.blocks[c].region \in DOMAIN g.regions
    <3> TAKE c \in DOMAIN g.blocks
    <3>1. c \in DOMAIN f.blocks /\ DOMAIN g.regions = DOMAIN f.regions
      BY <1>3
    <3>2. f.blocks[c].region \in DOMAIN f.regions
      BY <1>6, <3>1
    <3>3. g.blocks[c].region = f.blocks[c].region
      BY <2>2, <3>1
    <3> QED
      BY <3>1, <3>2, <3>3
  <2>6. DOMAIN g.blocks = DOMAIN f.blocks /\ DOMAIN g.regions = DOMAIN f.regions
    BY <1>3
  <2> HIDE DEF g, In, moved, jump
  <2> QED
    BY <2>1, <2>2, <2>3, <2>4, <2>5, <2>6, Zenon DEF PlacesAreExact
<1>13. DefinitionsAreExact(g)
  <2> DEFINE O == {jump}
             B == {}
             V == {}
  <2>1. O \subseteq DOMAIN f.operations /\ B \subseteq DOMAIN f.blocks
    BY <1>7
  <2>2. V = (UNION {ParameterValues(f, c) : c \in B}) \cup ResultValues(f, O)
    BY <1>1 DEF ResultValues, ToSet
  <2>3. \A c \in DOMAIN f.blocks \ B : g.blocks[c].parameters = f.blocks[c].parameters
    BY <1>1, <1>3
  <2>4. /\ DOMAIN g.operations = DOMAIN f.operations \ O
        /\ \A o \in DOMAIN f.operations \ O : g.operations[o].results = f.operations[o].results
        /\ DOMAIN g.blocks = DOMAIN f.blocks \ B
        /\ DOMAIN g.values = DOMAIN f.values \ V
        /\ \A v \in DOMAIN f.values \ V : g.values[v] = f.values[v]
    BY <1>3, <1>4
  <2> HIDE DEF O, B, V
  <2>5. Drops(f, g, O, B, V)
    BY <2>1, <2>2, <2>3, <2>4 DEF Drops
  <2> QED
    BY <2>5, DroppedIsDefined DEF IsOrderly
<1>14. IsOrderly(g)
  BY <1>5, <1>11, <1>12, <1>13 DEF IsOrderly
<1> QED
  BY <1>14 DEF g

\* merge_block keeps every place.
LEMMA MergeBlockIsOrderly ==
  ASSUME NEW f, IsExact(f), IsOrderly(f), NEW p, NEW b, CanMergeBlock(f, p, b)
  PROVE  IsOrderly(MergeBlock(f, p, b))
<1>1. CanRemoveBlocks(Spliced(f, p, b), {b})
  BY DEF CanMergeBlock
<1>2. IsExact(Spliced(f, p, b)) /\ IsOrderly(Spliced(f, p, b))
  BY SplicedIsExact, SplicedIsOrderly
<1> QED
  BY <1>1, <1>2, RemoveBlocksIsOrderly DEF MergeBlock

-----------------------------------------------------------------------------
(* Places and definitions: the removal of a block parameter                *)

\* The parameter that goes takes its definition with it, and those behind it
\* move down by one, in the block and in their definitions.
LEMMA RemoveParameterIsOrderly ==
  ASSUME NEW f, IsExact(f), IsOrderly(f), NEW b \in DOMAIN f.blocks,
         NEW k \in DOMAIN f.blocks[b].parameters, IsUnread(f, f.blocks[b].parameters[k].value)
  PROVE  IsOrderly(RemoveParameter(f, b, k))
<1> DEFINE g       == RemoveParameter(f, b, k)
           s       == f.blocks[b].parameters
           t       == RemoveAt(s, k)
           w       == s[k].value
           n       == Len(s)
           shifted == {s[j].value : j \in (k + 1)..n}
<1>1. /\ s \in Seq(ToSet(s)) /\ n \in Nat /\ DOMAIN s = 1..n /\ k \in 1..n
      /\ "parameters" \in DOMAIN f.blocks[b]
  <2>1. s \in Seq(ToSet(s)) /\ "parameters" \in DOMAIN f.blocks[b] /\ k \in DOMAIN s
    BY DEF IsOrderly, IsLaidOut
  <2> HIDE DEF s
  <2>2. n \in Nat /\ DOMAIN s = 1..n
    BY <2>1, LenProperties
  <2> QED
    BY <2>1, <2>2
<1>2. /\ t \in Seq(ToSet(s)) /\ Len(t) = n - 1 /\ DOMAIN t = 1..(n - 1)
      /\ \A i \in 1..(n - 1) : t[i] = IF i < k THEN s[i] ELSE s[i + 1]
  <2> HIDE DEF s
  <2>1. k \in 1..Len(s)
    BY <1>1
  <2> QED
    <3>1. /\ t \in Seq(ToSet(s)) /\ Len(t) = n - 1
          /\ \A i \in 1..(n - 1) : t[i] = IF i < k THEN s[i] ELSE s[i + 1]
      BY <1>1, <2>1, RemoveAtMovesDown
    <3> HIDE DEF t, n
    <3>2. DOMAIN t = 1..Len(t)
      BY <3>1, LenProperties
    <3> QED
      BY <3>1, <3>2
<1>3. /\ g.regions = f.regions /\ g.operations = f.operations
      /\ DOMAIN g.blocks = DOMAIN f.blocks
      /\ \A c \in DOMAIN f.blocks \ {b} : g.blocks[c] = f.blocks[c]
      /\ g.blocks[b] = [f.blocks[b] EXCEPT !.parameters = t]
      /\ DOMAIN g.values = DOMAIN f.values \ {w}
      /\ \A v \in DOMAIN f.values \ {w} :
           g.values[v] = IF v \in shifted THEN MovedDown(f.values[v]) ELSE f.values[v]
  <2> DEFINE live      == DOMAIN f.values \ {w}
             newValues == [v \in live |-> IF v \in shifted THEN MovedDown(f.values[v]) ELSE f.values[v]]
             newUses   == Restrict(f.uses, live)
  <2>1. g = [f EXCEPT !.blocks[b].parameters = t, !.values = newValues, !.uses = newUses]
    BY DEF RemoveParameter
  <2>2. {"regions", "blocks", "operations", "values", "uses"} \subseteq DOMAIN f
    BY DEF IsOrderly, IsFunction
  <2> HIDE DEF g, newUses, t
  <2>3. /\ g.regions = f.regions /\ g.operations = f.operations
        /\ DOMAIN g.blocks = DOMAIN f.blocks
        /\ \A c \in DOMAIN f.blocks \ {b} : g.blocks[c] = f.blocks[c]
        /\ g.blocks[b] = [f.blocks[b] EXCEPT !.parameters = t]
        /\ g.values = newValues
    <3> HIDE DEF newValues
    <3> QED
      BY <2>1, <2>2
  <2> HIDE DEF w, shifted
  <2> QED
    BY <2>3
<1>4. IsFunction(g)
  BY RemoveParameterIsExact DEF IsExact
<1> HIDE DEF g, t
<1>5. \A c \in DOMAIN f.blocks :
        /\ DOMAIN g.blocks[c] = DOMAIN f.blocks[c]
        /\ g.blocks[c].region = f.blocks[c].region
        /\ g.blocks[c].contents = f.blocks[c].contents
        /\ g.blocks[c].terminator = f.blocks[c].terminator
        /\ g.blocks[c].parameters = IF c = b THEN t ELSE f.blocks[c].parameters
  <2> DEFINE block == f.blocks[b]
             without == [block EXCEPT !.parameters = t]
  <2>1. /\ DOMAIN without = DOMAIN block
        /\ without.region = block.region /\ without.contents = block.contents
        /\ without.terminator = block.terminator /\ without.parameters = t
    <3>1. "parameters" \in DOMAIN block
      BY <1>1
    <3> HIDE DEF block
    <3> QED
      BY <3>1
  <2>2. g.blocks[b] = without
    BY <1>3
  <2> HIDE DEF without, s, w, shifted
  <2> QED
    BY <1>3, <2>1, <2>2
<1>6. IsLaidOut(g)
  <2>1. t \in Seq(ToSet(t))
    BY <1>2, ListOverMembers
  <2>2. \A c \in DOMAIN g.blocks :
          /\ {"region", "parameters", "contents", "terminator"} \subseteq DOMAIN g.blocks[c]
          /\ g.blocks[c].contents \in Seq(DOMAIN g.operations)
          /\ g.blocks[c].parameters \in Seq(ToSet(g.blocks[c].parameters))
    <3> HIDE DEF s, w, shifted
    <3> SUFFICES ASSUME NEW c \in DOMAIN f.blocks
                 PROVE  /\ {"region", "parameters", "contents", "terminator"} \subseteq DOMAIN g.blocks[c]
                        /\ g.blocks[c].contents \in Seq(DOMAIN g.operations)
                        /\ g.blocks[c].parameters \in Seq(ToSet(g.blocks[c].parameters))
      BY <1>3
    <3>1. /\ {"region", "parameters", "contents", "terminator"} \subseteq DOMAIN f.blocks[c]
          /\ f.blocks[c].contents \in Seq(DOMAIN f.operations)
          /\ f.blocks[c].parameters \in Seq(ToSet(f.blocks[c].parameters))
      BY DEF IsOrderly, IsLaidOut
    <3> QED
      BY <1>3, <1>5, <2>1, <3>1
  <2>3. IsFiniteSet(DOMAIN g.regions) /\ \A r \in DOMAIN g.regions : g.regions[r] \in Seq(DOMAIN g.blocks)
    BY <1>3 DEF IsOrderly, IsLaidOut
  <2>4. \A o \in DOMAIN g.operations : {"structural", "regions"} \subseteq DOMAIN g.operations[o]
    BY <1>3 DEF IsOrderly, IsLaidOut
  <2> QED
    BY <2>2, <2>3, <2>4 DEF IsLaidOut
<1>7. PlacesAreExact(g)
  <2>1. ASSUME NEW c \in DOMAIN f.blocks
        PROVE  /\ g.blocks[c].region \in DOMAIN g.regions
               /\ BlockOperations(g, c) = {o \in DOMAIN g.operations : g.operations[o].block = c}
               /\ \A o \in ToSet(g.blocks[c].contents) : ~ IsTerminator(g, o)
               /\ g.blocks[c].terminator # None => IsTerminator(g, g.blocks[c].terminator)
    <3>1. BlockOperations(g, c) = BlockOperations(f, c)
      BY <1>5 DEF BlockOperations
    <3>2. \A o : IsTerminator(g, o) <=> IsTerminator(f, o)
      BY <1>3 DEF IsTerminator
    <3> QED
      BY <1>3, <1>5, <3>1, <3>2 DEF IsOrderly, PlacesAreExact
  <2>2. \A r \in DOMAIN g.regions :
          ToSet(g.regions[r]) = {c \in DOMAIN g.blocks : g.blocks[c].region = r}
    BY <1>3, <1>5 DEF IsOrderly, PlacesAreExact
  <2>3. \A o \in DOMAIN g.operations : /\ g.operations[o].block \in DOMAIN g.blocks
                                       /\ g.operations[o].structural \subseteq DOMAIN g.blocks
                                       /\ g.operations[o].regions \subseteq DOMAIN g.regions
    BY <1>3 DEF IsOrderly, PlacesAreExact
  <2> QED
    BY <1>3, <2>1, <2>2, <2>3 DEF PlacesAreExact
\* How the parameters of b are defined, and so which of them shift.
<1> DEFINE At(c, j) == [kind |-> "BlockParameter", block |-> c, index |-> j]
<1>8. /\ \A c \in DOMAIN f.blocks : \A j \in DOMAIN f.blocks[c].parameters :
           LET v == f.blocks[c].parameters[j].value
           IN  v \in DOMAIN f.values /\ f.values[v] = At(c, j)
      /\ \A j \in 1..n : s[j].value \in DOMAIN f.values /\ f.values[s[j].value] = At(b, j)
      /\ \A c, j : At(c, j).kind = "BlockParameter" /\ At(c, j).block = c /\ At(c, j).index = j
  BY <1>1 DEF IsOrderly, DefinitionsAreExact, IsDefinedAs
<1>9. f.values[w] = At(b, k)
  BY <1>1, <1>8
<1>10. \A v : v \in shifted <=> \E j \in (k + 1)..n : v = s[j].value
  OBVIOUS
<1>11. \A j \in 1..n : /\ s[j].value \in shifted <=> j > k
                       /\ s[j].value = w <=> j = k
  <2> SUFFICES ASSUME NEW j \in 1..n
               PROVE  /\ s[j].value \in shifted <=> j > k
                      /\ s[j].value = w <=> j = k
    OBVIOUS
  <2>1. ASSUME s[j].value \in shifted PROVE j > k
    <3>1. PICK i \in (k + 1)..n : s[j].value = s[i].value
      BY <1>10, <2>1
    <3>2. i \in 1..n
      BY <1>1
    <3>3. At(b, j) = At(b, i)
      BY <1>8, <3>1, <3>2
    <3>4. j = i
      BY <1>8, <3>3
    <3> QED
      BY <1>1, <3>4
  <2>2. j > k => j \in (k + 1)..n
    BY <1>1
  <2>3. ASSUME s[j].value = w PROVE j = k
    <3>1. At(b, j) = At(b, k)
      BY <1>1, <1>8, <1>9, <2>3
    <3> QED
      BY <1>8, <3>1
  <2> QED
    BY <1>10, <2>1, <2>2, <2>3
<1>12. \A v \in shifted \cup {w} : v \in DOMAIN f.values /\ f.values[v].kind = "BlockParameter"
                                     /\ f.values[v].block = b
  <2> SUFFICES ASSUME NEW v \in shifted \cup {w}
               PROVE  v \in DOMAIN f.values /\ f.values[v].kind = "BlockParameter"
                        /\ f.values[v].block = b
    OBVIOUS
  <2>1. PICK j \in 1..n : v = s[j].value
    <3>1. \A j \in (k + 1)..n : j \in 1..n
      BY <1>1
    <3>2. w = s[k].value
      OBVIOUS
    <3> HIDE DEF shifted, w
    <3> QED
      BY <1>1, <1>10, <3>1, <3>2
  <2> HIDE DEF shifted, w, s, n, At
  <2> QED
    BY <1>8, <2>1
<1>13. \A j \in (k + 1)..n : MovedDown(At(b, j)) = At(b, j - 1)
  BY DEF MovedDown
<1> HIDE DEF At, shifted, w, s, n
<1>14. ASSUME NEW v \in DOMAIN f.values \ {w} PROVE IsWhereDefined(g, v)
  <2>1. IsWhereDefined(f, v)
    BY DEF IsOrderly, DefinitionsAreExact
  <2>2. CASE v \in shifted
    <3>1. PICK j \in (k + 1)..n : v = s[j].value
      BY <1>10, <2>2
    <3>2. j \in 1..n /\ j - 1 \in 1..(n - 1) /\ ~ (j - 1 < k) /\ (j - 1) + 1 = j
      BY <1>1
    <3>3. f.values[v] = At(b, j)
      BY <1>8, <3>1, <3>2
    <3>4. g.values[v] = At(b, j - 1)
      BY <1>3, <1>13, <2>2, <3>3
    <3>5. j - 1 \in DOMAIN t /\ t[j - 1].value = v
      BY <1>2, <3>1, <3>2
    <3>6. g.blocks[b].parameters = t
      BY <1>5
    <3>7. /\ g.values[v].kind = "BlockParameter" /\ g.values[v].block = b
          /\ g.values[v].index = j - 1
      BY <1>8, <3>4
    <3> QED
      BY <1>3, <3>5, <3>6, <3>7 DEF IsWhereDefined
  <2>3. CASE v \notin shifted
    <3>1. g.values[v] = f.values[v]
      BY <1>3, <2>3
    <3>2. CASE f.values[v].kind = "BlockParameter" /\ f.values[v].block = b
      <4>1. f.values[v].index \in DOMAIN f.blocks[b].parameters
            /\ f.blocks[b].parameters[f.values[v].index].value = v
        BY <2>1, <3>2 DEF IsWhereDefined
      <4>2. PICK j \in 1..n : j = f.values[v].index /\ s[j].value = v
        BY <1>1, <4>1 DEF s
      <4>3. j < k
        BY <1>1, <1>11, <2>3, <4>2
      <4>4. j \in 1..(n - 1)
        BY <1>1, <4>3
      <4>5. j \in DOMAIN t /\ t[j].value = v
        BY <1>2, <4>2, <4>3, <4>4
      <4>6. g.blocks[b].parameters = t
        BY <1>5
      <4> QED
        BY <1>3, <3>1, <3>2, <4>2, <4>5, <4>6 DEF IsWhereDefined
    <3>3. CASE f.values[v].kind = "BlockParameter" /\ f.values[v].block # b
      <4>1. f.values[v].block \in DOMAIN f.blocks
        BY <2>1, <3>3 DEF IsWhereDefined
      <4>2. g.blocks[f.values[v].block] = f.blocks[f.values[v].block]
        BY <1>3, <3>3, <4>1
      <4> QED
        BY <1>3, <2>1, <3>1, <3>3, <4>2 DEF IsWhereDefined
    <3>4. CASE f.values[v].kind # "BlockParameter"
      BY <1>3, <2>1, <3>1, <3>4 DEF IsWhereDefined
    <3> QED
      BY <3>2, <3>3, <3>4
  <2> QED
    BY <2>2, <2>3
<1>15. ASSUME NEW c \in DOMAIN f.blocks, NEW j \in DOMAIN g.blocks[c].parameters
       PROVE  IsDefinedAs(g, g.blocks[c].parameters[j].value, At(c, j))
  <2>1. CASE c = b
    <3>1. g.blocks[c].parameters = t /\ j \in 1..(n - 1)
      BY <1>2, <1>5, <2>1
    <3>2. CASE j < k
      <4>1. t[j] = s[j] /\ j \in 1..n /\ ~ j > k /\ j # k
        BY <1>1, <1>2, <3>1, <3>2
      <4>2. s[j].value \in DOMAIN f.values \ {w} /\ s[j].value \notin shifted
        BY <1>8, <1>11, <4>1
      <4>3. g.values[s[j].value] = At(b, j)
        BY <1>3, <1>8, <4>1, <4>2
      <4> QED
        BY <1>3, <2>1, <3>1, <4>1, <4>2, <4>3 DEF IsDefinedAs
    <3>3. CASE ~ j < k
      <4>1. t[j] = s[j + 1] /\ j + 1 \in 1..n /\ j + 1 \in (k + 1)..n /\ j + 1 > k /\ j + 1 # k
            /\ (j + 1) - 1 = j
        <5>1. k \in 1..n /\ n \in Nat /\ j \in 1..(n - 1) /\ ~ j < k
          BY <1>1, <3>1, <3>3
        <5>2. t[j] = s[j + 1]
          BY <1>2, <5>1
        <5> QED
          BY <5>1, <5>2
      <4>2. s[j + 1].value \in DOMAIN f.values \ {w} /\ s[j + 1].value \in shifted
        BY <1>8, <1>11, <4>1
      <4>3. g.values[s[j + 1].value] = At(b, j)
        BY <1>3, <1>8, <1>13, <4>1, <4>2
      <4> QED
        BY <1>3, <2>1, <3>1, <4>1, <4>2, <4>3 DEF IsDefinedAs
    <3> QED
      BY <3>2, <3>3
  <2>2. CASE c # b
    <3> DEFINE v == f.blocks[c].parameters[j].value
    <3>1. g.blocks[c].parameters = f.blocks[c].parameters
      BY <1>5, <2>2
    <3>2. v \in DOMAIN f.values /\ f.values[v] = At(c, j)
      BY <1>8, <3>1
    <3>3. v \notin shifted \cup {w}
      BY <1>8, <1>12, <2>2, <3>2
    <3>4. v \in DOMAIN g.values /\ g.values[v] = At(c, j)
      BY <1>3, <3>2, <3>3
    <3> QED
      BY <3>1, <3>4 DEF IsDefinedAs
  <2> QED
    BY <2>1, <2>2
<1>16. ASSUME NEW o \in DOMAIN f.operations, NEW j \in DOMAIN f.operations[o].results
       PROVE  IsDefinedAs(g, f.operations[o].results[j],
                          [kind |-> "OperationResult", operation |-> o, index |-> j])
  <2> DEFINE v == f.operations[o].results[j]
             d == [kind |-> "OperationResult", operation |-> o, index |-> j]
  <2>1. v \in DOMAIN f.values /\ f.values[v] = d
    BY DEF IsOrderly, DefinitionsAreExact, IsDefinedAs
  <2>2. d.kind # "BlockParameter"
    OBVIOUS
  <2> HIDE DEF v, d
  <2>3. v \notin shifted \cup {w}
    BY <1>12, <2>1, <2>2
  <2>4. IsDefinedAs(g, v, d)
    BY <1>3, <2>1, <2>3 DEF IsDefinedAs
  <2> QED
    BY <2>4 DEF v, d
<1>17. DefinitionsAreExact(g)
  BY <1>3, <1>14, <1>15, <1>16 DEF DefinitionsAreExact, At
<1>18. IsOrderly(g)
  BY <1>4, <1>6, <1>7, <1>17 DEF IsOrderly
<1> QED
  BY <1>18 DEF g

\* Among the numbers of a set there is one that as many as asked for are up to.
LEMMA PositionOfIndex ==
  ASSUME NEW n \in Nat, NEW S \in SUBSET (1..n), NEW index \in 1..Cardinality(S)
  PROVE  \E k \in S : Cardinality({j \in S : j <= k}) = index
<1> DEFINE Upto(k) == {j \in S : j <= k}
           Card(k) == Cardinality(Upto(k))
<1>0. \A j \in S : j \in Nat /\ 1 <= j /\ j <= n
  OBVIOUS
<1>1. IsFiniteSet(S)
  <2>1. IsFiniteSet(1..n)
    BY FS_Interval
  <2> QED
    BY <2>1, FS_Subset
<1>2. \A k : IsFiniteSet(Upto(k)) /\ Card(k) \in Nat
  <2>1. \A k : Upto(k) \in SUBSET S
    OBVIOUS
  <2> HIDE DEF Upto
  <2> QED
    BY <1>1, <2>1, FS_Subset, FS_CardinalityType
<1>3. Card(0) = 0 /\ Card(n) = Cardinality(S) /\ index \in Nat /\ index >= 1
  <2>1. Upto(0) = {} /\ Upto(n) = S
    <3>1. \A j \in S : ~ (j <= 0) /\ j <= n
      BY <1>0
    <3> QED
      BY <3>1
  <2>2. Cardinality(S) \in Nat
    BY <1>1, FS_CardinalityType
  <2> QED
    BY <2>1, <2>2, FS_EmptySet
<1>4. ASSUME NEW k \in 1..n
      PROVE  IF k \in S THEN Card(k) = Card(k - 1) + 1 ELSE Card(k) = Card(k - 1)
  <2>1. CASE k \in S
    <3>1. Upto(k) = Upto(k - 1) \cup {k} /\ k \notin Upto(k - 1)
      <4>1. ~ (k <= k - 1) /\ \A j \in S : j <= k <=> j <= k - 1 \/ j = k
        BY <1>0
      <4> QED
        BY <2>1, <4>1
    <3>2. IsFiniteSet(Upto(k - 1))
      BY <1>2
    <3> HIDE DEF Upto
    <3> QED
      BY <2>1, <3>1, <3>2, FS_AddElement
  <2>2. CASE k \notin S
    <3>1. Upto(k) = Upto(k - 1)
      <4>1. \A j \in S : j <= k <=> j <= k - 1
        BY <1>0, <2>2
      <4> QED
        BY <4>1
    <3> HIDE DEF Upto
    <3> QED
      BY <2>2, <3>1
  <2> QED
    BY <2>1, <2>2
<1> HIDE DEF Card
\* If none is asked for, no prefix gets there.
<1>5. SUFFICES ASSUME \A k \in S : Card(k) # index PROVE FALSE
  BY DEF Card
<1> DEFINE T == {k \in 0..n : Card(k) < index}
<1>6. 0 \in T
  BY <1>3
<1>7. ASSUME NEW k \in 1..n, k - 1 \in T PROVE k \in T
  <2>1. Card(k) \in Nat /\ Card(k - 1) \in Nat
    BY <1>2 DEF Card
  <2> QED
    BY <1>3, <1>4, <1>5, <1>7, <2>1
<1>8. n \in T
  <2> HIDE DEF T
  <2>1. 0..n \subseteq T
    BY <1>6, <1>7, CountingUp
  <2> QED
    BY <2>1
<1>9. Cardinality(S) \in Nat
  BY <1>1, FS_CardinalityType
<1> QED
  BY <1>3, <1>8, <1>9

\* The parameter to be removed is a forwarded one.
LEMMA ForwardedIsForwarded ==
  ASSUME NEW f, IsOrderly(f), NEW b \in DOMAIN f.blocks, NEW index, HasForwarded(f, b, index)
  PROVE  ForwardedPosition(f, b, index) \in ForwardedPositions(f, b)
<1> DEFINE S == ForwardedPositions(f, b)
           n == Len(f.blocks[b].parameters)
<1>1. n \in Nat /\ DOMAIN f.blocks[b].parameters = 1..n
  <2>1. f.blocks[b].parameters \in Seq(ToSet(f.blocks[b].parameters))
    BY DEF IsOrderly, IsLaidOut
  <2> QED
    BY <2>1, LenProperties
<1>2. S \in SUBSET (1..n) /\ index \in 1..Cardinality(S)
  BY <1>1 DEF ForwardedPositions, HasForwarded
<1> HIDE DEF S, n
<1>3. \E k \in S : Cardinality({j \in S : j <= k}) = index
  BY <1>1, <1>2, PositionOfIndex
<1>4. (CHOOSE k \in S : Cardinality({j \in S : j <= k}) = index) \in S
  BY <1>3
<1>5. ForwardedPosition(f, b, index) = CHOOSE k \in S : Cardinality({j \in S : j <= k}) = index
  BY DEF ForwardedPosition, S
<1> QED
  BY <1>4, <1>5 DEF S

\* It is one of its block.
LEMMA ForwardedIsParameter ==
  ASSUME NEW f, IsOrderly(f), NEW b \in DOMAIN f.blocks, NEW index, HasForwarded(f, b, index)
  PROVE  ForwardedPosition(f, b, index) \in DOMAIN f.blocks[b].parameters
BY ForwardedIsForwarded DEF ForwardedPositions

-----------------------------------------------------------------------------
(* Places and definitions: every step of OptimizeFunction                  *)

\* While a parameter is being removed, it is a parameter of its block.
RemovedIsParameter ==
  removal # NoRemoval =>
    /\ removal.block \in DOMAIN function.blocks
    /\ removal.position \in DOMAIN function.blocks[removal.block].parameters

OrderInv == EditorInv /\ IsOrderly(function) /\ RemovedIsParameter

\* A call that keeps the order if its assertions hold preserves it.
LEMMA PerformKeepsOrder ==
  ASSUME NEW call, NEW asserts, NEW result,
         OrderInv, EditorInv', Perform(call, asserts, result), asserts => IsOrderly(result)
  PROVE  OrderInv'
<1>1. CASE asserts
  <2>1. function' = result /\ removal' = NoRemoval
    BY <1>1 DEF Perform
  <2> QED
    BY <2>1, <1>1 DEF OrderInv, RemovedIsParameter, NoRemoval
<1>2. CASE ~ asserts
  <2>1. UNCHANGED <<function, removal>>
    BY <1>2 DEF Perform
  <2> QED
    BY <2>1 DEF OrderInv, RemovedIsParameter, NoRemoval
<1> QED
  BY <1>1, <1>2

\* The parameter to be removed is found by its index among the forwarded ones.
LEMMA BeginRemovalKeepsOrder ==
  ASSUME OrderInv, EditorInv', BeginRemoval
  PROVE  OrderInv'
<1>1. CASE CanRemoveForwardedParameter(function, Call.block, Call.index)
  <2> DEFINE k == ForwardedPosition(function, Call.block, Call.index)
  <2>1. /\ function' = function
        /\ removal' = [block |-> Call.block, index |-> Call.index, position |-> k,
                       edges |-> EdgesInOrder(IncomingEdges(function, Call.block))]
    BY <1>1 DEF BeginRemoval
  <2>2. Call.block \in DOMAIN function.blocks /\ HasForwarded(function, Call.block, Call.index)
    BY <1>1 DEF CanRemoveForwardedParameter
  <2>3. k \in DOMAIN function.blocks[Call.block].parameters
    BY <2>2, ForwardedIsParameter DEF OrderInv
  <2>4. removal'.block = Call.block /\ removal'.position = k
    <3> HIDE DEF k
    <3> QED
      BY <2>1
  <2> HIDE DEF k
  <2> QED
    BY <2>1, <2>2, <2>3, <2>4 DEF OrderInv, RemovedIsParameter
<1>2. CASE ~ CanRemoveForwardedParameter(function, Call.block, Call.index)
  BY <1>2 DEF BeginRemoval, OrderInv, RemovedIsParameter
<1> QED
  BY <1>1, <1>2

\* An argument goes, and the blocks stay as they are.
LEMMA RemoveArgumentKeepsOrder ==
  ASSUME OrderInv, EditorInv', RemoveArgument
  PROVE  OrderInv'
<1> DEFINE o == Head(removal.edges)[1]
           i == Head(removal.edges)[2]
           g == RemoveSuccessorArgument(function, o, i, removal.index)
<1>1. CASE CanRemoveSuccessorArgument(function, o, i, removal.index)
  <2>1. function' = g /\ removal' = [removal EXCEPT !.edges = Tail(@)]
    BY <1>1 DEF RemoveArgument
  <2>2. IsExact(function) /\ IsOrderly(function)
    BY DEF OrderInv, EditorInv
  <2>3. IsOrderly(g)
    BY <1>1, <2>2, RemoveSuccessorArgumentIsOrderly
  <2>4. g.blocks = function.blocks
    BY <1>1, <2>2, RemoveSuccessorArgumentIsExact
  <2>5. {"block", "index", "position", "edges"} \subseteq DOMAIN removal
    BY DEF RemoveArgument, OrderInv, EditorInv, RemovedIsUnread
  <2>6. removal'.block = removal.block /\ removal'.position = removal.position
    BY <2>1, <2>5
  <2>7. removal # NoRemoval
    BY DEF RemoveArgument
  <2> HIDE DEF g
  <2> QED
    BY <2>1, <2>3, <2>4, <2>6, <2>7 DEF OrderInv, RemovedIsParameter
<1>2. CASE ~ CanRemoveSuccessorArgument(function, o, i, removal.index)
  BY <1>2 DEF RemoveArgument, OrderInv, RemovedIsParameter
<1> QED
  BY <1>1, <1>2

\* The parameter goes, and the definitions of those behind it move down.
LEMMA EndRemovalKeepsOrder ==
  ASSUME OrderInv, EditorInv', EndRemoval
  PROVE  OrderInv'
<1> DEFINE g == RemoveParameter(function, removal.block, removal.position)
<1>1. function' = g /\ removal' = NoRemoval /\ removal # NoRemoval
  BY DEF EndRemoval
<1>2. /\ removal.block \in DOMAIN function.blocks
      /\ removal.position \in DOMAIN function.blocks[removal.block].parameters
      /\ IsUnread(function, function.blocks[removal.block].parameters[removal.position].value)
  BY <1>1 DEF OrderInv, RemovedIsParameter, EditorInv, RemovedIsUnread
<1>3. IsOrderly(g)
  BY <1>2, RemoveParameterIsOrderly DEF OrderInv, EditorInv
<1> HIDE DEF g
<1> QED
  BY <1>1, <1>3 DEF OrderInv, RemovedIsParameter

\* Every editor call keeps the order that its assertions and its bookkeeping
\* rely on.
LEMMA EditKeepsOrder ==
  ASSUME OrderInv, EditorInv', Edit
  PROVE  OrderInv'
<1>0. IsExact(function) /\ IsOrderly(function)
  BY DEF OrderInv, EditorInv
<1>1. CASE PerformReplaceAllUses
  BY <1>0, <1>1, PerformKeepsOrder, ReplaceAllUsesIsOrderly DEF PerformReplaceAllUses
<1>2. CASE PerformRemoveOperations
  BY <1>0, <1>2, PerformKeepsOrder, RemoveOperationsIsOrderly DEF PerformRemoveOperations
<1>3. CASE PerformReplaceWithConstant
  BY <1>0, <1>3, PerformKeepsOrder, ReplaceWithConstantIsOrderly DEF PerformReplaceWithConstant
<1>4. CASE PerformReplaceIfWithJump
  BY <1>0, <1>4, PerformKeepsOrder, ReplaceIfWithJumpIsOrderly DEF PerformReplaceIfWithJump
<1>5. CASE PerformReplaceSuccessor
  BY <1>0, <1>5, PerformKeepsOrder, ReplaceSuccessorIsOrderly DEF PerformReplaceSuccessor
<1>6. CASE PerformRemoveBlocks
  BY <1>0, <1>6, PerformKeepsOrder, RemoveBlocksIsOrderly DEF PerformRemoveBlocks
<1>7. CASE PerformMergeBlock
  BY <1>0, <1>7, PerformKeepsOrder, MergeBlockIsOrderly DEF PerformMergeBlock
<1>8. CASE BeginRemoval
  BY <1>8, BeginRemovalKeepsOrder
<1>9. CASE RemoveArgument
  BY <1>9, RemoveArgumentKeepsOrder
<1>10. CASE EndRemoval
  BY <1>10, EndRemovalKeepsOrder
<1> QED
  BY <1>1, <1>2, <1>3, <1>4, <1>5, <1>6, <1>7, <1>8, <1>9, <1>10 DEF Edit

\* So does every step of a pass.
LEMMA NextKeepsOrder == OrderInv /\ [Next]_optimizeVars => OrderInv'
<1> SUFFICES ASSUME OrderInv, [Next]_optimizeVars PROVE OrderInv'
  OBVIOUS
<1>0. EditorInv'
  BY NextPreserves DEF OrderInv
<1>1. CASE MakeCall
  BY <1>0, <1>1, EditKeepsOrder DEF MakeCall
<1>2. CASE ~ MakeCall
  <2>1. UNCHANGED <<function, removal>>
    BY <1>2 DEF Next, optimizeVars, Rest, RunPass, PropagateConstants, FoldConstantIfs,
         PruneUnreachableBlocks, EliminateCommonSubexpressions, EliminateDeadCode,
         SimplifyControlFlow, StartSimplifyOperations, SimplifyOperation,
         StartSimplifyBlockParameters, SimplifyBlock, FinishWork
  <2> QED
    BY <1>0, <2>1 DEF OrderInv, RemovedIsParameter
<1> QED
  BY <1>1, <1>2

\* A function comes to the passes in order.
LEMMA InitIsOrderly == Init => OrderInv
BY SourcesAreInOrder DEF IsInOrder, Init, OrderInv, EditorInv, IsExact, RemovedIsUnread, IsOrderly,
     RemovedIsParameter

\* Whatever the passes ask of the editor, on whatever functions: every value is
\* where its definition says it is, after every call and between the steps of a
\* parameter's removal, and every place is so defined.
THEOREM DefinitionsAlwaysExact == Spec => []DefinitionsExact
<1>1. OrderInv => DefinitionsExact
  BY DEF OrderInv, IsOrderly, DefinitionsExact
<1> QED
  BY InitIsOrderly, NextKeepsOrder, <1>1, PTL DEF Spec

\* Whatever the passes ask of the editor: what is listed in a block or region
\* exists and knows where it is, nothing that is removed is still listed, and
\* no block outlives the region it is in.
THEOREM PlacesAlwaysExact == Spec => []PlacesExact
<1>1. OrderInv => PlacesExact
  BY DEF OrderInv, IsOrderly, PlacesExact
<1> QED
  BY InitIsOrderly, NextKeepsOrder, <1>1, PTL DEF Spec

-----------------------------------------------------------------------------
(* Edges in order                                                          *)

\* A list of all members of S, each once.
Enumerates(s, S) ==
  /\ s \in Seq(S) /\ ToSet(s) = S
  /\ \A i, j \in DOMAIN s : s[i] = s[j] => i = j

\* Of two numbers of a finite set, fewer are up to the smaller one.
LEMMA RankGrows ==
  ASSUME NEW S \in SUBSET Nat, IsFiniteSet(S), NEW x \in S, NEW y \in S, x < y
  PROVE  Cardinality({z \in S : z <= x}) < Cardinality({z \in S : z <= y})
<1> DEFINE A == {z \in S : z <= x}
           B == {z \in S : z <= y}
<1>1. A \subseteq B /\ y \in B /\ y \notin A
  <2>1. x \in Nat /\ y \in Nat /\ \A z \in S : z \in Nat
    OBVIOUS
  <2>2. \A z \in S : z <= x => z <= y
    BY <2>1
  <2>3. y <= y /\ ~ (y <= x)
    BY <2>1
  <2> QED
    BY <2>2, <2>3
<1>2. IsFiniteSet(B)
  BY FS_Subset
<1> HIDE DEF A, B
<1>3. /\ IsFiniteSet(A) /\ Cardinality(A) <= Cardinality(B)
      /\ Cardinality(B) = Cardinality(A) => B = A
  BY <1>1, <1>2, FS_Subset
<1>4. Cardinality(A) \in Nat /\ Cardinality(B) \in Nat
  BY <1>2, <1>3, FS_CardinalityType
<1>5. Cardinality(A) < Cardinality(B)
  BY <1>1, <1>3, <1>4
<1> QED
  BY <1>5 DEF A, B

\* InOrder lists a finite set of numbers.
LEMMA InOrderEnumerates ==
  ASSUME NEW S \in SUBSET Nat, IsFiniteSet(S)
  PROVE  Enumerates(InOrder(S), S)
<1> DEFINE n == Cardinality(S)
           Upto(x) == {z \in S : z <= x}
           rank == [x \in S |-> Cardinality(Upto(x))]
<1>1. n \in Nat
  BY FS_CardinalityType
<1>2. \A x \in S : rank[x] \in 1..n
  <2> TAKE x \in S
  <2>1. Upto(x) \subseteq S /\ x \in Upto(x)
    OBVIOUS
  <2> HIDE DEF Upto
  <2>2. IsFiniteSet(Upto(x)) /\ Cardinality(Upto(x)) <= n
    BY <2>1, FS_Subset
  <2>3. Cardinality(Upto(x)) \in Nat
    BY <2>2, FS_CardinalityType
  <2>4. Cardinality(Upto(x)) # 0
    BY <2>1, <2>2, FS_EmptySet
  <2> QED
    BY <1>1, <2>2, <2>3, <2>4
<1>3. \A x, y \in S : x # y => rank[x] # rank[y]
  <2> SUFFICES ASSUME NEW x \in S, NEW y \in S, x < y PROVE rank[x] # rank[y]
    OBVIOUS
  <2>1. rank[x] < rank[y]
    BY RankGrows
  <2> QED
    BY <1>1, <1>2, <2>1
<1>4. \A i \in 1..n : \E x \in S : rank[x] = i
  <2> SUFFICES ASSUME NEW i \in 1..n, \A x \in S : rank[x] # i PROVE FALSE
    OBVIOUS
  <2> DEFINE R == (1..n) \ {i}
  <2>1. IsFiniteSet(1..n) /\ Cardinality(1..n) = n
    BY <1>1, FS_Interval
  <2>2. IsFiniteSet(R) /\ Cardinality(R) = n - 1
    <3> DEFINE I == 1..n
    <3>1. IsFiniteSet(I) /\ Cardinality(I) = n /\ i \in I
      BY <2>1
    <3> HIDE DEF I
    <3>2. IsFiniteSet(I \ {i}) /\ Cardinality(I \ {i}) = Cardinality(I) - 1
      BY <3>1, FS_RemoveElement
    <3> QED
      BY <3>1, <3>2 DEF I
  <2>3. rank \in [S -> R]
    BY <1>2
  <2>4. Cardinality(R) < Cardinality(S)
    BY <1>1, <2>2
  <2> HIDE DEF rank, R
  <2>5. \E x, y \in S : x # y /\ rank[x] = rank[y]
    BY <2>2, <2>3, <2>4, FS_PigeonHole
  <2> QED
    BY <2>5, <1>3
<1> DEFINE Has(x, i) == Cardinality(Upto(x)) = i
           s == [i \in 1..n |-> CHOOSE x \in S : Has(x, i)]
<1>5. InOrder(S) = s
  BY DEF InOrder
<1>6. \A i \in 1..n : s[i] \in S /\ rank[s[i]] = i
  <2> TAKE i \in 1..n
  <2>1. \E x \in S : Has(x, i)
    BY <1>4
  <2> HIDE DEF Has
  <2>2. s[i] \in S /\ Has(s[i], i)
    BY <2>1
  <2> HIDE DEF s
  <2> QED
    BY <2>2 DEF Has
<1>7. DOMAIN s = 1..n
  OBVIOUS
<1> HIDE DEF rank, Has
<1>8. s \in Seq(S)
  <2>1. s \in [1..n -> S]
    BY <1>6
  <2> HIDE DEF s
  <2> QED
    BY <1>1, <2>1
<1> HIDE DEF s
<1>9. ToSet(s) = S
  <2>1. \A x \in S : s[rank[x]] = x
    BY <1>2, <1>3, <1>6
  <2>2. \A x \in S : rank[x] \in DOMAIN s
    BY <1>2, <1>7
  <2>3. \A i \in DOMAIN s : s[i] \in S
    BY <1>6, <1>7
  <2> QED
    BY <2>1, <2>2, <2>3, Zenon DEF ToSet
<1> QED
  BY <1>5, <1>6, <1>7, <1>8, <1>9 DEF Enumerates


\* The loop that joins the first n lists of ss.
IsFlat(g, ss, n) == g = [i \in 1..n |-> IF i = 1 THEN ss[i] ELSE g[i - 1] \o ss[i]]

\* The loop has a result, however far it goes.
LEMMA FlatExists ==
  ASSUME NEW ss, NEW n \in Nat
  PROVE  \E g : IsFlat(g, ss, n)
<1> DEFINE T == {k \in 0..n : \E g : IsFlat(g, ss, k)}
<1>1. 0 \in T
  <2> DEFINE g == [i \in 1..0 |-> <<>>]
  <2>1. g = [i \in 1..0 |-> IF i = 1 THEN ss[i] ELSE g[i - 1] \o ss[i]]
    <3>1. 1..0 = {}
      OBVIOUS
    <3> QED
      BY <3>1
  <2>2. IsFlat(g, ss, 0)
    BY <2>1, Zenon DEF IsFlat
  <2> QED
    BY <2>2
<1>2. ASSUME NEW k \in 1..n, k - 1 \in T PROVE k \in T
  <2>1. PICK g : IsFlat(g, ss, k - 1)
    BY <1>2
  <2>2. g = [i \in 1..(k - 1) |-> IF i = 1 THEN ss[i] ELSE g[i - 1] \o ss[i]]
    BY <2>1 DEF IsFlat
  <2> DEFINE h == [i \in 1..k |-> IF i = 1 THEN ss[i] ELSE g[i - 1] \o ss[i]]
             r == [i \in 1..k |-> IF i = 1 THEN ss[i] ELSE h[i - 1] \o ss[i]]
  <2>3. ASSUME NEW i \in 1..k, i # 1 PROVE h[i - 1] = g[i - 1]
    <3>1. i - 1 \in 1..(k - 1) /\ i - 1 \in 1..k
      BY <2>3
    <3> QED
      BY <2>2, <3>1
  <2>4. h = r
    BY <2>3
  <2>5. IsFlat(h, ss, k)
    BY <2>4, Zenon DEF IsFlat
  <2> QED
    BY <2>5
<1>3. 0..n \subseteq T
  BY <1>1, <1>2, CountingUp
<1> QED
  BY <1>3

\* Lists of which no two share a member, joined, list all members.
LEMMA ConcatEnumerates ==
  ASSUME NEW A, NEW B, A \cap B = {}, NEW s, NEW t, Enumerates(s, A), Enumerates(t, B)
  PROVE  Enumerates(s \o t, A \cup B)
<1> DEFINE m == Len(s)
           n == Len(t)
           u == s \o t
<1>1. /\ m \in Nat /\ DOMAIN s = 1..m /\ \A i \in 1..m : s[i] \in A
      /\ n \in Nat /\ DOMAIN t = 1..n /\ \A i \in 1..n : t[i] \in B
  BY LenProperties DEF Enumerates
<1>2. s \in Seq(A \cup B) /\ t \in Seq(A \cup B)
  BY DEF Enumerates
<1>3. /\ u \in Seq(A \cup B) /\ Len(u) = m + n
      /\ \A i \in 1..(m + n) : u[i] = IF i <= m THEN s[i] ELSE t[i - m]
  BY <1>2, ConcatProperties
<1>4. DOMAIN u = 1..(m + n)
  BY <1>3, LenProperties
<1> HIDE DEF u, m, n
<1>5. \A i \in 1..(m + n) : \/ i \in 1..m /\ u[i] = s[i] /\ u[i] \in A
                            \/ i - m \in 1..n /\ u[i] = t[i - m] /\ u[i] \in B
  <2> TAKE i \in 1..(m + n)
  <2>1. CASE i <= m
    <3>1. i \in 1..m
      BY <1>1, <2>1
    <3> QED
      BY <1>1, <1>3, <2>1, <3>1
  <2>2. CASE ~ (i <= m)
    <3> DEFINE j == i - m
    <3>1. j \in 1..n
      BY <1>1, <2>2
    <3>2. u[i] = t[j]
      BY <1>3, <2>2
    <3> HIDE DEF j
    <3>3. u[i] \in B
      BY <1>1, <3>1, <3>2
    <3> QED
      BY <3>1, <3>2, <3>3 DEF j
  <2> QED
    BY <2>1, <2>2
<1>6. \A i \in 1..m : i \in 1..(m + n) /\ u[i] = s[i]
  BY <1>1, <1>3
<1>7. \A i \in 1..n : m + i \in 1..(m + n) /\ u[m + i] = t[i]
  <2> TAKE i \in 1..n
  <2> DEFINE j == m + i
  <2>1. j \in 1..(m + n) /\ ~ (j <= m) /\ j - m = i
    BY <1>1
  <2> HIDE DEF j
  <2>2. u[j] = t[j - m]
    BY <1>3, <2>1
  <2>3. u[j] = t[i]
    BY <2>1, <2>2
  <2> QED
    BY <2>1, <2>3 DEF j
<1>8. ToSet(u) = A \cup B
  <2>1. ToSet(u) \subseteq A \cup B
    BY <1>4, <1>5 DEF ToSet
  <2>2. \A x \in A : x \in ToSet(u)
    BY <1>1, <1>4, <1>6 DEF ToSet, Enumerates
  <2>3. \A x \in B : x \in ToSet(u)
    <3> TAKE x \in B
    <3>1. PICK i \in 1..n : t[i] = x
      BY <1>1 DEF ToSet, Enumerates
    <3>2. m + i \in DOMAIN u /\ u[m + i] = x
      BY <1>4, <1>7, <3>1
    <3> QED
      BY <3>2, Zenon DEF ToSet
  <2> QED
    BY <2>1, <2>2, <2>3
<1>9. \A i, j \in 1..(m + n) : u[i] = u[j] => i = j
  <2> SUFFICES ASSUME NEW i \in 1..(m + n), NEW j \in 1..(m + n), u[i] = u[j] PROVE i = j
    OBVIOUS
  <2>1. CASE u[i] \in A
    <3>1. i \in 1..m /\ j \in 1..m /\ s[i] = s[j]
      BY <1>5, <2>1
    <3> QED
      BY <1>1, <3>1 DEF Enumerates
  <2>2. CASE u[i] \notin A
    <3>1. i - m \in 1..n /\ j - m \in 1..n /\ t[i - m] = t[j - m]
      BY <1>5, <2>2
    <3>2. i - m = j - m
      BY <1>1, <3>1 DEF Enumerates
    <3> QED
      BY <1>1, <3>2
  <2> QED
    BY <2>1, <2>2
<1>10. Enumerates(u, A \cup B)
  BY <1>3, <1>4, <1>8, <1>9 DEF Enumerates
<1> QED
  BY <1>10 DEF u

\* FlattenSeq joins lists of which no two share a member.
LEMMA FlattenEnumerates ==
  ASSUME NEW n \in Nat, NEW P, NEW ss, DOMAIN ss = 1..n, Len(ss) = n, n = 0 => ss = <<>>,
         \A k \in 1..n : Enumerates(ss[k], P[k]),
         \A k, l \in 1..n : k # l => P[k] \cap P[l] = {}
  PROVE  Enumerates(FlattenSeq(ss), UNION {P[k] : k \in 1..n})
<1>1. CASE n = 0
  <2>1. FlattenSeq(ss) = <<>>
    BY <1>1 DEF FlattenSeq
  <2>2. 1..n = {} /\ ToSet(<<>>) = {} /\ <<>> \in Seq({})
    BY <1>1 DEF ToSet
  <2>3. Enumerates(<<>>, {})
    BY <2>2 DEF Enumerates
  <2>4. UNION {P[k] : k \in 1..n} = {}
    BY <2>2
  <2> QED
    BY <2>1, <2>3, <2>4
<1>2. CASE n # 0
  <2> DEFINE g == CHOOSE h : IsFlat(h, ss, n)
             Upto(k) == UNION {P[l] : l \in 1..k}
             T == {k \in 0..n : k # 0 => Enumerates(g[k], Upto(k))}
  <2>1. IsFlat(g, ss, n)
    BY FlatExists
  <2>2. FlattenSeq(ss) = g[n]
    <3>1. g = CHOOSE h : h = [i \in 1..n |-> IF i = 1 THEN ss[i] ELSE h[i - 1] \o ss[i]]
      BY DEF IsFlat
    <3>2. FlattenSeq(ss) = LET h[i \in 1..n] == IF i = 1 THEN ss[i] ELSE h[i - 1] \o ss[i] IN h[n]
      BY <1>2, Zenon DEF FlattenSeq
    <3> QED
      BY <3>1, <3>2, Zenon
  <2>3. g[1] = ss[1] /\ \A k \in 1..n : k # 1 => g[k] = g[k - 1] \o ss[k]
    <3>1. g = [i \in 1..n |-> IF i = 1 THEN ss[i] ELSE g[i - 1] \o ss[i]]
      BY <2>1 DEF IsFlat
    <3>2. 1 \in 1..n
      BY <1>2
    <3> HIDE DEF g
    <3> QED
      BY <3>1, <3>2
  <2> HIDE DEF g
  <2>4. 0 \in T
    OBVIOUS
  <2>5. ASSUME NEW k \in 1..n, k - 1 \in T PROVE k \in T
    <3>1. CASE k = 1
      <4>1. Upto(1) = P[1]
        <5>1. 1..1 = {1}
          OBVIOUS
        <5> QED
          BY <5>1
      <4> HIDE DEF Upto
      <4> QED
        BY <2>3, <3>1, <4>1
    <3>2. CASE k # 1
      <4>1. k - 1 \in 1..n /\ k \in 0..n /\ \A l : l \in 1..k <=> l \in 1..(k - 1) \/ l = k
        BY <3>2
      <4>2. Upto(k) = Upto(k - 1) \cup P[k]
        BY <4>1
      <4>3. Upto(k - 1) \cap P[k] = {}
        <5>1. \A l \in 1..(k - 1) : l \in 1..n /\ l # k
          OBVIOUS
        <5> QED
          BY <5>1
      <4>4. Enumerates(g[k - 1], Upto(k - 1))
        BY <2>5, <4>1
      <4> HIDE DEF Upto
      <4>5. Enumerates(g[k - 1] \o ss[k], Upto(k - 1) \cup P[k])
        BY <4>3, <4>4, ConcatEnumerates
      <4> QED
        BY <2>3, <3>2, <4>1, <4>2, <4>5
    <3> QED
      BY <3>1, <3>2
  <2>6. n \in T
    <3> HIDE DEF T
    <3>1. 0..n \subseteq T
      BY <2>4, <2>5, CountingUp
    <3> QED
      BY <3>1
  <2> QED
    BY <1>2, <2>2, <2>6
<1> QED
  BY <1>1, <1>2

\* A loop over edges in their order meets every one of them once.
LEMMA EdgesInOrderEnumerates ==
  ASSUME NEW E, \A e \in E : e = <<e[1], e[2]>>,
         NEW O \in SUBSET Nat, IsFiniteSet(O), \A e \in E : e[1] \in O,
         \A o \in O : {e[2] : e \in {x \in E : x[1] = o}} \in SUBSET Nat
                        /\ IsFiniteSet({e[2] : e \in {x \in E : x[1] = o}})
  PROVE  Enumerates(EdgesInOrder(E), E)
<1> DEFINE F == {e[1] : e \in E}
           n == Cardinality(F)
           Second(o) == {e[2] : e \in {x \in E : x[1] = o}}
           os == InOrder(F)
           At(o) == {o} \X Second(o)
           EdgesAt(o) == [i \in DOMAIN InOrder(Second(o)) |-> <<o, InOrder(Second(o))[i]>>]
           ss == [k \in 1..n |-> EdgesAt(os[k])]
           P == [k \in 1..n |-> At(os[k])]
<1>1. F \in SUBSET Nat /\ F \subseteq O
  OBVIOUS
<1>2. IsFiniteSet(F) /\ n \in Nat
  <2> HIDE DEF F
  <2> QED
    BY <1>1, FS_Subset, FS_CardinalityType
<1>3. Enumerates(os, F) /\ DOMAIN os = 1..n
  <2>1. DOMAIN os = 1..n
    BY DEF InOrder
  <2> HIDE DEF F
  <2> QED
    BY <1>1, <1>2, <2>1, InOrderEnumerates
<1>4. EdgesInOrder(E) = FlattenSeq(ss)
  BY DEF EdgesInOrder
<1>5. \A o \in F : Enumerates(EdgesAt(o), At(o))
  <2> TAKE o \in F
  <2> DEFINE S == Second(o)
             s == InOrder(S)
  <2>1. S \in SUBSET Nat /\ IsFiniteSet(S)
    BY <1>1
  <2> HIDE DEF S
  <2>2. Enumerates(s, S)
    BY <2>1, InOrderEnumerates
  <2> DEFINE t == [i \in DOMAIN s |-> <<o, s[i]>>]
  <2>3. Len(s) \in Nat /\ DOMAIN s = 1..Len(s) /\ \A i \in 1..Len(s) : s[i] \in S
    BY <2>2, LenProperties DEF Enumerates
  <2> HIDE DEF s
  <2>4. t \in [1..Len(s) -> {o} \X S]
    BY <2>3
  <2>5. DOMAIN t = DOMAIN s /\ \A i \in DOMAIN s : t[i] = <<o, s[i]>>
    OBVIOUS
  <2> HIDE DEF t
  <2>6. t \in Seq({o} \X S)
    BY <2>3, <2>4
  <2>7. ToSet(t) = {o} \X S
    <3>1. \A x \in S : \E i \in DOMAIN s : s[i] = x
      BY <2>2 DEF Enumerates, ToSet
    <3>2. \A x \in S : <<o, x>> \in ToSet(t)
      BY <2>5, <3>1 DEF ToSet
    <3>3. ToSet(t) \subseteq {o} \X S
      BY <2>3, <2>4, <2>5 DEF ToSet
    <3> QED
      BY <3>2, <3>3
  <2>8. \A i, j \in DOMAIN t : t[i] = t[j] => i = j
    BY <2>2, <2>5 DEF Enumerates
  <2>9. Enumerates(t, {o} \X S)
    BY <2>6, <2>7, <2>8 DEF Enumerates
  <2> QED
    BY <2>9 DEF t, s, S
<1> HIDE DEF EdgesAt, At, os, F
<1>6. \A k \in 1..n : os[k] \in F
  <2>1. os \in Seq(F)
    BY <1>3 DEF Enumerates
  <2>2. os \in [1..Len(os) -> F] /\ DOMAIN os = 1..Len(os)
    BY <2>1, LenProperties, Zenon
  <2> QED
    BY <1>3, <2>2, Zenon
<1>7. DOMAIN ss = 1..n /\ Len(ss) = n /\ \A k \in 1..n : ss[k] = EdgesAt(os[k])
  <2> DEFINE V == {EdgesAt(os[k]) : k \in 1..n}
  <2>1. ss \in [1..n -> V] /\ \A k \in 1..n : ss[k] = EdgesAt(os[k])
    OBVIOUS
  <2> HIDE DEF ss, V, n
  <2>2. ss \in Seq(V) /\ Len(ss) = n
    BY <1>2, <2>1
  <2> QED
    BY <2>1, <2>2
<1>8. n = 0 => ss = <<>>
  BY <1>2, <1>7
<1>9. \A k \in 1..n : P[k] = At(os[k])
  OBVIOUS
<1> HIDE DEF ss, P
<1>10. \A k \in 1..n : Enumerates(ss[k], P[k])
  BY <1>5, <1>6, <1>7, <1>9
<1>11. \A k, l \in 1..n : k # l => P[k] \cap P[l] = {}
  <2> SUFFICES ASSUME NEW k \in 1..n, NEW l \in 1..n, k # l PROVE P[k] \cap P[l] = {}
    OBVIOUS
  <2>1. os[k] # os[l]
    BY <1>3 DEF Enumerates
  <2> QED
    BY <1>9, <2>1 DEF At
<1>12. Enumerates(FlattenSeq(ss), UNION {P[k] : k \in 1..n})
  <2> HIDE DEF n
  <2> QED
    BY <1>2, <1>7, <1>8, <1>10, <1>11, FlattenEnumerates
<1>13. UNION {P[k] : k \in 1..n} = E
  <2>1. ASSUME NEW e \in E PROVE e \in UNION {P[k] : k \in 1..n}
    <3>1. e[1] \in F /\ e[2] \in Second(e[1]) /\ e = <<e[1], e[2]>>
      BY DEF F
    <3>2. PICK k \in 1..n : os[k] = e[1]
      BY <1>3, <3>1 DEF Enumerates, ToSet
    <3>3. e \in P[k]
      BY <1>9, <3>1, <3>2 DEF At
    <3> QED
      BY <3>3
  <2>2. ASSUME NEW k \in 1..n, NEW x \in P[k] PROVE x \in E
    <3>1. x \in {os[k]} \X Second(os[k])
      BY <1>9 DEF At
    <3>2. PICK e \in E : e[1] = os[k] /\ x = <<os[k], e[2]>>
      BY <3>1
    <3> QED
      BY <3>2
  <2> QED
    BY <2>1, <2>2
<1> QED
  BY <1>4, <1>12, <1>13

-----------------------------------------------------------------------------
(* Operands and arguments                                                  *)

\* An operation says how many operands are its own and how many it passes to
\* each of its successors.
CountsArguments(op) ==
  /\ op.own \in Nat
  /\ op.targets \in Seq(ToSet(op.targets))
  /\ \A i \in DOMAIN op.targets : op.targets[i].count \in Nat

\* The loop that adds up to n arguments.
IsSum(g, op, n) == g = [k \in 0..n |-> IF k = 0 THEN op.own ELSE g[k - 1] + op.targets[k].count]

\* The loop has a result, however far it goes.
LEMMA SumExists ==
  ASSUME NEW op, NEW n \in Nat
  PROVE  \E g : IsSum(g, op, n)
<1> DEFINE T == {k \in 0..n : \E g : IsSum(g, op, k)}
           Sum(r, k) == r + op.targets[k].count
<1>0. \A g, k : IsSum(g, op, k) <=>
        g = [j \in 0..k |-> IF j = 0 THEN op.own ELSE Sum(g[j - 1], j)]
  BY DEF IsSum
<1> HIDE DEF Sum
<1>1. 0 \in T
  <2> DEFINE g == [k \in 0..0 |-> op.own]
  <2>1. g = [k \in 0..0 |-> IF k = 0 THEN op.own ELSE Sum(g[k - 1], k)]
    OBVIOUS
  <2>2. IsSum(g, op, 0)
    BY <1>0, <2>1, Zenon
  <2> QED
    BY <2>2
<1>2. ASSUME NEW k \in 1..n, k - 1 \in T PROVE k \in T
  <2>1. PICK g : IsSum(g, op, k - 1)
    BY <1>2
  <2>2. g = [j \in 0..(k - 1) |-> IF j = 0 THEN op.own ELSE Sum(g[j - 1], j)]
    BY <1>0, <2>1
  <2> DEFINE h == [j \in 0..k |-> IF j = 0 THEN op.own ELSE Sum(g[j - 1], j)]
             r == [j \in 0..k |-> IF j = 0 THEN op.own ELSE Sum(h[j - 1], j)]
  <2>3. ASSUME NEW j \in 1..k PROVE h[j - 1] = g[j - 1]
    <3>1. j - 1 \in 0..(k - 1) /\ j - 1 \in 0..k
      OBVIOUS
    <3> QED
      BY <2>2, <3>1
  <2>4. \A j \in 0..k : j # 0 => j \in 1..k
    OBVIOUS
  <2>5. h = r
    BY <2>3, <2>4
  <2>6. IsSum(h, op, k)
    BY <1>0, <2>5, Zenon
  <2> QED
    BY <2>6
<1>3. 0..n \subseteq T
  BY <1>1, <1>2, CountingUp
<1> QED
  BY <1>3

\* The arguments of a successor follow those of the successors before it.
LEMMA FirstArgumentHolds ==
  ASSUME NEW op, CountsArguments(op)
  PROVE  LET n == Len(op.targets)
         IN  /\ n \in Nat /\ DOMAIN op.targets = 1..n
             /\ FirstArgument(op, 1) = op.own
             /\ \A i \in 1..n : FirstArgument(op, i + 1) = FirstArgument(op, i) + op.targets[i].count
             /\ \A i \in 1..(n + 1) : FirstArgument(op, i) \in Nat
             /\ \A i \in 1..n : /\ FirstArgument(op, i) + op.targets[i].count <= FirstArgument(op, n + 1)
                                /\ op.own <= FirstArgument(op, i)
             /\ op.own <= FirstArgument(op, n + 1)
<1> DEFINE n == Len(op.targets)
           g == CHOOSE h : IsSum(h, op, n)
           c(i) == op.targets[i].count
<1>1. n \in Nat /\ DOMAIN op.targets = 1..n /\ op.own \in Nat /\ \A i \in 1..n : c(i) \in Nat
  BY LenProperties DEF CountsArguments
<1>2. \A i : FirstArgument(op, i) = g[i - 1]
  <2> TAKE i
  <2>1. g = CHOOSE h : h = [k \in 0..n |-> IF k = 0 THEN op.own ELSE h[k - 1] + op.targets[k].count]
    BY DEF IsSum
  <2> QED
    BY <2>1, Zenon DEF FirstArgument
<1>3. g[0] = op.own /\ \A k \in 1..n : g[k] = g[k - 1] + c(k)
  <2>1. IsSum(g, op, n)
    BY <1>1, SumExists
  <2>2. g = [k \in 0..n |-> IF k = 0 THEN op.own ELSE g[k - 1] + c(k)]
    BY <2>1 DEF IsSum
  <2> HIDE DEF g, n, c
  <2>3. 0 \in 0..n /\ \A k \in 1..n : k \in 0..n /\ k # 0
    BY <1>1
  <2> QED
    BY <2>2, <2>3
<1> HIDE DEF g, n, c
<1> DEFINE T == {k \in 0..n : /\ g[k] \in Nat /\ op.own <= g[k]
                              /\ \A j \in 0..k : g[j] \in Nat /\ op.own <= g[j] /\ g[j] <= g[k]}
<1>4. 0 \in T
  BY <1>1, <1>3
<1>5. ASSUME NEW k \in 1..n, k - 1 \in T PROVE k \in T
  <2>1. g[k] = g[k - 1] + c(k) /\ c(k) \in Nat /\ g[k - 1] \in Nat /\ op.own <= g[k - 1]
    BY <1>1, <1>3, <1>5
  <2>2. g[k] \in Nat /\ op.own <= g[k] /\ g[k - 1] <= g[k]
    BY <1>1, <2>1
  <2>3. ASSUME NEW j \in 0..k PROVE g[j] \in Nat /\ op.own <= g[j] /\ g[j] <= g[k]
    <3>1. CASE j = k
      BY <2>2, <3>1
    <3>2. CASE j # k
      <4>1. j \in 0..(k - 1)
        BY <3>2
      <4> QED
        BY <1>1, <1>5, <2>1, <2>2, <4>1
    <3> QED
      BY <3>1, <3>2
  <2> QED
    BY <2>2, <2>3
<1>6. n \in T
  <2> HIDE DEF T
  <2>1. 0..n \subseteq T
    BY <1>1, <1>4, <1>5, CountingUp
  <2> QED
    BY <1>1, <2>1
<1>7. FirstArgument(op, 1) = op.own /\ FirstArgument(op, n + 1) = g[n]
  BY <1>1, <1>2, <1>3
<1>8. \A i \in 1..n : /\ FirstArgument(op, i) = g[i - 1] /\ FirstArgument(op, i + 1) = g[i]
                      /\ g[i] = g[i - 1] + c(i) /\ i - 1 \in 0..n /\ i \in 0..n
  <2> TAKE i \in 1..n
  <2>1. i + 1 - 1 = i /\ i - 1 \in 0..n /\ i \in 0..n
    BY <1>1
  <2> QED
    BY <1>2, <1>3, <2>1
<1>9. \A i \in 1..(n + 1) : FirstArgument(op, i) \in Nat
  <2> TAKE i \in 1..(n + 1)
  <2>1. i - 1 \in 0..n
    BY <1>1
  <2> QED
    BY <1>2, <1>6, <2>1
<1>10. \A i \in 1..n : /\ FirstArgument(op, i) + c(i) <= FirstArgument(op, n + 1)
                       /\ op.own <= FirstArgument(op, i)
  BY <1>6, <1>7, <1>8
<1>11. op.own <= FirstArgument(op, n + 1)
  BY <1>6, <1>7
<1> QED
  BY <1>1, <1>7, <1>8, <1>9, <1>10, <1>11 DEF n, c

\* When one successor is passed another number of arguments, those of the
\* successors behind it move by the difference.
LEMMA ArgumentsMove ==
  ASSUME NEW op, NEW update, CountsArguments(op), CountsArguments(update),
         update.own = op.own, Len(update.targets) = Len(op.targets),
         NEW i \in 1..Len(op.targets),
         \A j \in 1..Len(op.targets) : j # i => update.targets[j].count = op.targets[j].count
  PROVE  FirstArgument(update, Len(update.targets) + 1) + op.targets[i].count
           = FirstArgument(op, Len(op.targets) + 1) + update.targets[i].count
<1> DEFINE n == Len(op.targets)
           F(k) == FirstArgument(op, k)
           G(k) == FirstArgument(update, k)
           c(k) == op.targets[k].count
           d(k) == update.targets[k].count
           T == {k \in 0..n : IF k < i THEN G(k + 1) = F(k + 1) ELSE G(k + 1) + c(i) = F(k + 1) + d(i)}
<1>1. /\ n \in Nat /\ i \in 1..n
      /\ \A k \in 1..n : c(k) \in Nat /\ d(k) \in Nat /\ (k # i => d(k) = c(k))
  BY LenProperties DEF CountsArguments
<1>2. /\ F(1) = op.own /\ G(1) = op.own
      /\ \A k \in 1..n : F(k + 1) = F(k) + c(k) /\ G(k + 1) = G(k) + d(k)
      /\ \A k \in 1..(n + 1) : F(k) \in Nat /\ G(k) \in Nat
  BY FirstArgumentHolds
<1> HIDE DEF F, G, c, d, n
<1>3. 0 \in T
  BY <1>1, <1>2
<1>4. ASSUME NEW k \in 1..n, k - 1 \in T PROVE k \in T
  <2>1. k - 1 + 1 = k /\ k \in 1..(n + 1) /\ k \in 0..n
    BY <1>1
  <2>2. IF k - 1 < i THEN G(k) = F(k) ELSE G(k) + c(i) = F(k) + d(i)
    BY <1>4, <2>1
  <2>3. /\ F(k + 1) = F(k) + c(k) /\ G(k + 1) = G(k) + d(k) /\ F(k) \in Nat /\ G(k) \in Nat
        /\ c(k) \in Nat /\ d(k) \in Nat /\ c(i) \in Nat /\ d(i) \in Nat
    BY <1>1, <1>2, <2>1
  <2>4. CASE k < i
    <3>1. d(k) = c(k) /\ k - 1 < i
      BY <1>1, <2>4
    <3> QED
      BY <2>1, <2>2, <2>3, <2>4, <3>1
  <2>5. CASE k = i
    BY <1>1, <2>1, <2>2, <2>3, <2>5
  <2>6. CASE k > i
    <3>1. d(k) = c(k) /\ ~ (k - 1 < i) /\ ~ (k < i)
      BY <1>1, <2>6
    <3>2. G(k) + c(i) = F(k) + d(i)
      BY <2>2, <3>1
    <3>3. G(k + 1) = G(k) + c(k) /\ F(k + 1) = F(k) + c(k)
      BY <2>3, <3>1
    <3>4. PICK a \in Nat, b \in Nat, p \in Nat, q \in Nat, x \in Nat :
            a = G(k) /\ b = F(k) /\ p = c(i) /\ q = d(i) /\ x = c(k)
      BY <2>3
    <3>5. a + p = b + q
      BY <3>2, <3>4
    <3>6. a + x + p = b + x + q
      BY <3>5
    <3>7. G(k) + c(k) + c(i) = F(k) + c(k) + d(i)
      BY <3>4, <3>6, Zenon
    <3> QED
      BY <2>1, <3>1, <3>3, <3>7
  <2> QED
    BY <1>1, <2>4, <2>5, <2>6
<1>5. n \in T
  <2> HIDE DEF T
  <2>1. 0..n \subseteq T
    BY <1>1, <1>3, <1>4, CountingUp
  <2> QED
    BY <1>1, <2>1
<1>6. G(n + 1) + c(i) = F(n + 1) + d(i)
  BY <1>1, <1>5
<1> QED
  BY <1>6 DEF F, G, c, d, n

-----------------------------------------------------------------------------
(* Edges that fit, operation by operation                                  *)

\* A successor is passed and produced what the parameters stand for.
Agrees(op, i, parameters) ==
  /\ Len(parameters) = op.targets[i].produced + op.targets[i].count
  /\ \A k \in 1..Len(parameters) :
       parameters[k].source = IF k <= op.targets[i].produced THEN ProducedSource(op, i) ELSE Forwarded

\* The parameters that the i-th successor of o is for.  The edges of Lost have
\* already lost the argument for the k-th parameter of their target.
Expected(f, o, i, Lost, k) ==
  LET parameters == f.blocks[f.operations[o].targets[i].block].parameters
  IN  IF <<o, i>> \in Lost THEN RemoveAt(parameters, k) ELSE parameters

\* o has its own operands and the arguments of its edges, and these fit.
IsWiredAt(f, o, Lost, k) ==
  LET op == f.operations[o]
  IN  /\ "own" \in DOMAIN op /\ CountsArguments(op)
      /\ IsTerminator(f, o) \/ op.targets = <<>>
      /\ Len(op.operands) = FirstArgument(op, Len(op.targets) + 1)
      /\ \A i \in DOMAIN op.targets :
           /\ {"block", "count", "produced"} \subseteq DOMAIN op.targets[i]
           /\ op.targets[i].produced \in Nat
           /\ op.targets[i].block \in DOMAIN f.blocks
           /\ f.blocks[op.block].region = f.blocks[op.targets[i].block].region
           /\ Agrees(op, i, Expected(f, o, i, Lost, k))

IsWired(f, Lost, k) ==
  /\ DOMAIN f.operations \subseteq Nat /\ IsFiniteSet(DOMAIN f.operations)
  /\ \A o \in DOMAIN f.operations : IsWiredAt(f, o, Lost, k)

\* An edge passes as many arguments as it says.
LEMMA ArgumentsCounted ==
  ASSUME NEW op, NEW T, op.operands \in Seq(T), CountsArguments(op),
         Len(op.operands) = FirstArgument(op, Len(op.targets) + 1),
         NEW i \in DOMAIN op.targets
  PROVE  RangeIsValid(op, i) /\ Len(Arguments(op, i)) = op.targets[i].count
<1> DEFINE first == FirstArgument(op, i)
           c == op.targets[i].count
           s == op.operands
<1>1. first \in Nat /\ c \in Nat /\ first + c <= Len(s) /\ Len(s) \in Nat
  <2> DEFINE n == Len(op.targets)
  <2>1. /\ n \in Nat /\ DOMAIN op.targets = 1..n
        /\ \A j \in 1..(n + 1) : FirstArgument(op, j) \in Nat
        /\ \A j \in 1..n : FirstArgument(op, j) + op.targets[j].count <= FirstArgument(op, n + 1)
    BY FirstArgumentHolds
  <2>2. c \in Nat
    BY DEF CountsArguments
  <2>3. Len(s) \in Nat
    BY LenProperties
  <2> HIDE DEF n
  <2>4. i \in 1..n /\ i \in 1..(n + 1)
    BY <2>1
  <2> QED
    BY <2>1, <2>2, <2>3, <2>4 DEF n
<1>2. RangeIsValid(op, i)
  BY <1>1 DEF RangeIsValid
<1>3. \A j \in (first + 1)..(first + c) : s[j] \in T
  BY <1>1, LenProperties
<1>4. Arguments(op, i) = SubSeq(s, first + 1, first + c)
  BY DEF Arguments
<1> HIDE DEF first, c, s
<1>5. Len(SubSeq(s, first + 1, first + c)) = IF first + 1 <= first + c THEN first + c - (first + 1) + 1 ELSE 0
  BY <1>1, <1>3, SubSeqProperties
<1>6. Len(SubSeq(s, first + 1, first + c)) = c
  BY <1>1, <1>5
<1> QED
  BY <1>2, <1>4, <1>6 DEF c

\* Operation by operation, the same as the edges of the function all fit.
LEMMA WiredIsFit ==
  ASSUME NEW f, IsFunction(f)
  PROVE  IsWired(f, {}, 0) <=> HasSuccessors(f) /\ EdgesAreFit(f)
<1> DEFINE Op(o) == f.operations[o]
           Sound(o) ==
             /\ "own" \in DOMAIN Op(o) /\ CountsArguments(Op(o))
             /\ IsTerminator(f, o) \/ Op(o).targets = <<>>
             /\ \A i \in DOMAIN Op(o).targets :
                  /\ {"block", "count", "produced"} \subseteq DOMAIN Op(o).targets[i]
                  /\ Op(o).targets[i].produced \in Nat
           Full(o) == Len(Op(o).operands) = FirstArgument(Op(o), Len(Op(o).targets) + 1)
           Ends(o, i) ==
             /\ Op(o).targets[i].block \in DOMAIN f.blocks
             /\ f.blocks[Op(o).block].region = f.blocks[Op(o).targets[i].block].region
           Params(o, i) == f.blocks[Op(o).targets[i].block].parameters
<1>1. HasSuccessors(f) <=> /\ DOMAIN f.operations \subseteq Nat /\ IsFiniteSet(DOMAIN f.operations)
                           /\ \A o \in DOMAIN f.operations : Sound(o)
  BY DEF HasSuccessors, CountsArguments
<1>2. \A o : IsWiredAt(f, o, {}, 0) <=>
               /\ Sound(o) /\ Full(o)
               /\ \A i \in DOMAIN Op(o).targets : Ends(o, i) /\ Agrees(Op(o), i, Params(o, i))
  BY DEF IsWiredAt, Expected
<1>3. \A e : e \in Edges(f) <=> \E o \in DOMAIN f.operations : \E i \in DOMAIN Op(o).targets : e = <<o, i>>
  BY DEF Edges, EdgesOf
<1>4. \A o, i, n : FitsTarget(f, Op(o), i, Op(o).targets[i].block, n) <=>
                     /\ Len(Params(o, i)) = Op(o).targets[i].produced + n
                     /\ \A k \in 1..Len(Params(o, i)) :
                          Params(o, i)[k].source =
                            IF k <= Op(o).targets[i].produced THEN ProducedSource(Op(o), i) ELSE Forwarded
  BY DEF FitsTarget
<1>5. ASSUME NEW o \in DOMAIN f.operations, NEW i \in DOMAIN Op(o).targets, Sound(o), Full(o)
      PROVE  FitsTarget(f, Op(o), i, Op(o).targets[i].block, Len(Arguments(Op(o), i)))
               <=> Agrees(Op(o), i, Params(o, i))
  <2>1. Op(o).operands \in Seq(DOMAIN f.values)
    BY DEF IsFunction
  <2>2. Len(Arguments(Op(o), i)) = Op(o).targets[i].count
    BY <1>5, <2>1, ArgumentsCounted
  <2> HIDE DEF Op, Params
  <2>3. Agrees(Op(o), i, Params(o, i)) <=>
          /\ Len(Params(o, i)) = Op(o).targets[i].produced + Op(o).targets[i].count
          /\ \A k \in 1..Len(Params(o, i)) :
               Params(o, i)[k].source =
                 IF k <= Op(o).targets[i].produced THEN ProducedSource(Op(o), i) ELSE Forwarded
    BY DEF Agrees
  <2>4. FitsTarget(f, Op(o), i, Op(o).targets[i].block, Op(o).targets[i].count)
          <=> Agrees(Op(o), i, Params(o, i))
    BY <1>4, <2>3, Zenon
  <2> QED
    BY <2>2, <2>4
<1>6. EdgesAreFit(f) <=>
        /\ \A o \in DOMAIN f.operations : Full(o)
        /\ \A o \in DOMAIN f.operations : \A i \in DOMAIN Op(o).targets :
             /\ Ends(o, i)
             /\ FitsTarget(f, Op(o), i, Op(o).targets[i].block, Len(Arguments(Op(o), i)))
  <2>1. \A o, i : /\ Target(f, <<o, i>>) = Op(o).targets[i].block /\ Source(f, <<o, i>>) = Op(o).block
                  /\ EdgeArguments(f, <<o, i>>) = Arguments(Op(o), i)
                  /\ <<o, i>>[1] = o /\ <<o, i>>[2] = i
    BY DEF Target, Source, EdgeArguments
  <2> DEFINE Right(e) ==
               /\ Target(f, e) \in DOMAIN f.blocks
               /\ f.blocks[Source(f, e)].region = f.blocks[Target(f, e)].region
               /\ FitsTarget(f, f.operations[e[1]], e[2], Target(f, e), Len(EdgeArguments(f, e)))
  <2>2. \A o, i : Right(<<o, i>>) <=>
                    /\ Ends(o, i)
                    /\ FitsTarget(f, Op(o), i, Op(o).targets[i].block, Len(Arguments(Op(o), i)))
    BY <2>1
  <2>3. EdgesAreFit(f) <=> (\A o \in DOMAIN f.operations : Full(o)) /\ \A e \in Edges(f) : Right(e)
    BY DEF EdgesAreFit
  <2> HIDE DEF Op, Right, Ends, Full
  <2>4. (\A e \in Edges(f) : Right(e)) <=>
          \A o \in DOMAIN f.operations : \A i \in DOMAIN Op(o).targets : Right(<<o, i>>)
    BY <1>3
  <2> QED
    BY <2>2, <2>3, <2>4
<1> HIDE DEF Sound, Full, Ends, Params
<1> QED
  BY <1>1, <1>2, <1>5, <1>6 DEF IsWired

\* An operation that keeps its successors and its number of operands stays
\* wired where its blocks stay as they are.
LEMMA SameSuccessors ==
  ASSUME NEW f, NEW g, NEW o, NEW Lost, NEW Later, NEW k, IsWiredAt(f, o, Lost, k),
         "own" \in DOMAIN g.operations[o],
         g.operations[o].own = f.operations[o].own,
         g.operations[o].kind = f.operations[o].kind,
         g.operations[o].targets = f.operations[o].targets,
         Len(g.operations[o].operands) = Len(f.operations[o].operands),
         g.blocks[g.operations[o].block].region = f.blocks[f.operations[o].block].region,
         \A i \in DOMAIN f.operations[o].targets :
           /\ <<o, i>> \in Lost <=> <<o, i>> \in Later
           /\ f.operations[o].targets[i].block \in DOMAIN g.blocks
           /\ LET b == f.operations[o].targets[i].block
              IN  g.blocks[b].region = f.blocks[b].region /\ g.blocks[b].parameters = f.blocks[b].parameters
  PROVE  IsWiredAt(g, o, Later, k)
<1> DEFINE op == f.operations[o]
           update == g.operations[o]
<1>1. FirstArgument(update, Len(update.targets) + 1) = FirstArgument(op, Len(op.targets) + 1)
  BY DEF FirstArgument
<1>2. CountsArguments(update) /\ (IsTerminator(g, o) \/ update.targets = <<>>)
  BY DEF IsWiredAt, CountsArguments, IsTerminator
<1>3. ASSUME NEW i \in DOMAIN op.targets
      PROVE  Agrees(update, i, Expected(g, o, i, Later, k))
  <2>1. Expected(g, o, i, Later, k) = Expected(f, o, i, Lost, k)
    BY DEF Expected
  <2>2. ProducedSource(update, i) = ProducedSource(op, i)
    BY DEF ProducedSource
  <2>3. Agrees(op, i, Expected(f, o, i, Lost, k))
    BY DEF IsWiredAt
  <2> QED
    BY <2>1, <2>2, <2>3 DEF Agrees
<1> QED
  BY <1>1, <1>2, <1>3 DEF IsWiredAt

-----------------------------------------------------------------------------
(* Edges: the calls that leave successors alone                            *)

\* replace_all_uses replaces operands one for one.
LEMMA ReplaceAllUsesIsWired ==
  ASSUME NEW f, IsExact(f), IsOrderly(f), IsWired(f, {}, 0), NEW v, NEW w,
         CanReplaceAllUses(f, v, w)
  PROVE  IsWired(ReplaceAllUses(f, v, w), {}, 0)
<1> DEFINE g == ReplaceAllUses(f, v, w)
<1>1. CASE v = w
  BY <1>1 DEF ReplaceAllUses
<1>2. CASE v # w
  <2>1. /\ g.blocks = f.blocks /\ DOMAIN g.operations = DOMAIN f.operations
        /\ \A o \in DOMAIN f.operations : g.operations[o] = Rereading(f.operations[o], o, f.uses[v], w)
    BY <1>2 DEF ReplaceAllUses, IsOrderly, IsFunction
  <2>2. IsFunction(g)
    BY ReplaceAllUsesIsExact DEF IsExact
  <2> HIDE DEF g
  <2>3. ASSUME NEW o \in DOMAIN f.operations PROVE IsWiredAt(g, o, {}, 0)
    <3> DEFINE op == f.operations[o]
               update == g.operations[o]
               new == [i \in DOMAIN op.operands |-> IF <<o, i>> \in f.uses[v] THEN w ELSE op.operands[i]]
    <3>1. update = [op EXCEPT !.operands = new]
      BY <2>1 DEF Rereading
    <3>2. IsWiredAt(f, o, {}, 0)
      BY DEF IsWired
    <3>3. /\ {"block", "kind", "operands", "targets", "results"} \subseteq DOMAIN op
          /\ "own" \in DOMAIN op
      BY <3>2 DEF IsOrderly, IsFunction, IsWiredAt
    <3>4. DOMAIN new = DOMAIN op.operands
      OBVIOUS
    <3> HIDE DEF new, op
    <3>5. /\ DOMAIN update = DOMAIN op /\ update.operands = new
          /\ update.own = op.own /\ update.kind = op.kind
          /\ update.targets = op.targets /\ update.block = op.block
      BY <3>1, <3>3
    <3>6. Len(update.operands) = Len(op.operands)
      <4>1. op.operands \in Seq(DOMAIN f.values) /\ update.operands \in Seq(DOMAIN g.values)
        BY <2>1, <2>2 DEF IsOrderly, IsFunction, op
      <4> QED
        BY <3>4, <3>5, <4>1, LenProperties
    <3>7. /\ \A i \in DOMAIN op.targets : op.targets[i].block \in DOMAIN f.blocks
          /\ f.blocks[update.block].region = f.blocks[op.block].region
      BY <3>2, <3>5 DEF IsWiredAt, op
    <3> QED
      BY <2>1, <3>2, <3>3, <3>5, <3>6, <3>7, SameSuccessors DEF op
  <2>4. IsWired(g, {}, 0)
    BY <2>1, <2>3 DEF IsWired
  <2> QED
    BY <2>4 DEF g
<1> QED
  BY <1>1, <1>2

\* A function that loses operations, and of its blocks none that is a target of
\* what stays, has edges that fit.
LEMMA PartIsWired ==
  ASSUME NEW f, IsWired(f, {}, 0), NEW g,
         DOMAIN g.operations \subseteq DOMAIN f.operations,
         \A o \in DOMAIN g.operations :
           /\ DOMAIN g.operations[o] = DOMAIN f.operations[o]
           /\ g.operations[o].own = f.operations[o].own
           /\ g.operations[o].kind = f.operations[o].kind
           /\ g.operations[o].targets = f.operations[o].targets
           /\ g.operations[o].operands = f.operations[o].operands
           /\ g.blocks[g.operations[o].block].region = f.blocks[f.operations[o].block].region
           /\ \A i \in DOMAIN f.operations[o].targets :
                f.operations[o].targets[i].block \in DOMAIN g.blocks,
         \A b \in DOMAIN g.blocks : /\ g.blocks[b].region = f.blocks[b].region
                                    /\ g.blocks[b].parameters = f.blocks[b].parameters
  PROVE  IsWired(g, {}, 0)
<1>1. DOMAIN g.operations \subseteq Nat /\ IsFiniteSet(DOMAIN g.operations)
  BY FS_Subset DEF IsWired
<1>2. ASSUME NEW o \in DOMAIN g.operations PROVE IsWiredAt(g, o, {}, 0)
  <2>1. IsWiredAt(f, o, {}, 0)
    BY DEF IsWired
  <2>2. "own" \in DOMAIN g.operations[o]
    BY <2>1 DEF IsWiredAt
  <2>3. /\ g.operations[o].own = f.operations[o].own
        /\ g.operations[o].kind = f.operations[o].kind
        /\ g.operations[o].targets = f.operations[o].targets
        /\ Len(g.operations[o].operands) = Len(f.operations[o].operands)
        /\ g.blocks[g.operations[o].block].region = f.blocks[f.operations[o].block].region
    OBVIOUS
  <2>4. ASSUME NEW i \in DOMAIN f.operations[o].targets
        PROVE  /\ <<o, i>> \in {} <=> <<o, i>> \in {}
               /\ f.operations[o].targets[i].block \in DOMAIN g.blocks
               /\ LET b == f.operations[o].targets[i].block
                  IN  g.blocks[b].region = f.blocks[b].region /\ g.blocks[b].parameters = f.blocks[b].parameters
    OBVIOUS
  <2> QED
    BY <2>1, <2>2, <2>3, <2>4, SameSuccessors, Zenon
<1> QED
  BY <1>1, <1>2 DEF IsWired

\* remove_operations leaves the edges of the others.
LEMMA RemoveOperationsIsWired ==
  ASSUME NEW f, IsExact(f), IsOrderly(f), IsWired(f, {}, 0), NEW O, CanRemoveOperations(f, O)
  PROVE  IsWired(RemoveOperations(f, O), {}, 0)
<1> DEFINE g == RemoveOperations(f, O)
<1>1. /\ DOMAIN g.operations = DOMAIN f.operations \ O
      /\ \A o \in DOMAIN f.operations \ O : g.operations[o] = f.operations[o]
      /\ DOMAIN g.blocks = DOMAIN f.blocks
      /\ \A b \in DOMAIN f.blocks : g.blocks[b] = Unlisted(f.blocks[b], O)
  BY RemoveOperationsHolds
<1> HIDE DEF g
<1>2. ASSUME NEW b \in DOMAIN f.blocks
      PROVE  g.blocks[b].region = f.blocks[b].region /\ g.blocks[b].parameters = f.blocks[b].parameters
  <2>1. {"region", "parameters", "contents", "terminator"} \subseteq DOMAIN f.blocks[b]
    BY DEF IsOrderly, IsLaidOut
  <2> DEFINE rest == Without(f.blocks[b].contents, O)
  <2>2. g.blocks[b] = [f.blocks[b] EXCEPT !.contents = rest]
    BY <1>1 DEF Unlisted
  <2> HIDE DEF rest
  <2> QED
    BY <2>1, <2>2
<1>3. \A o \in DOMAIN f.operations :
        /\ f.operations[o].block \in DOMAIN f.blocks
        /\ \A i \in DOMAIN f.operations[o].targets : f.operations[o].targets[i].block \in DOMAIN f.blocks
  BY DEF IsWired, IsWiredAt, IsOrderly, PlacesAreExact
<1>4. IsWired(g, {}, 0)
  BY <1>1, <1>2, <1>3, PartIsWired
<1> QED
  BY <1>4 DEF g

\* remove_blocks removes no block that an edge leads to.
LEMMA RemoveBlocksIsWired ==
  ASSUME NEW f, IsExact(f), IsOrderly(f), IsWired(f, {}, 0), NEW B, CanRemoveBlocks(f, B)
  PROVE  IsWired(RemoveBlocks(f, B), {}, 0)
<1> DEFINE g == RemoveBlocks(f, B)
           W == WithNested(f, B)
           O == OperationsOf(f, W)
           R == RegionsOf(f, O)
<1>1. /\ DOMAIN g.operations = DOMAIN f.operations \ O
      /\ \A o \in DOMAIN f.operations \ O : g.operations[o] = f.operations[o]
      /\ DOMAIN g.blocks = DOMAIN f.blocks \ W
      /\ \A b \in DOMAIN f.blocks \ W : g.blocks[b] = f.blocks[b]
  BY RemoveBlocksHolds
<1>2. NothingRefersTo(f, W, O, R)
  BY DEF CanRemoveBlocks
<1>3. IsOrderly(g)
  BY RemoveBlocksIsOrderly
<1> HIDE DEF g, W, O, R
<1>4. \A o \in DOMAIN f.operations \ O :
        \A i \in DOMAIN f.operations[o].targets : f.operations[o].targets[i].block \in DOMAIN f.blocks \ W
  BY <1>2 DEF IsWired, IsWiredAt, NothingRefersTo
<1>5. \A o \in DOMAIN g.operations : g.operations[o].block \in DOMAIN g.blocks
  BY <1>3 DEF IsOrderly, PlacesAreExact
<1>6. IsWired(g, {}, 0)
  BY <1>1, <1>4, <1>5, PartIsWired
<1> QED
  BY <1>6 DEF g

\* Half of merge_block: the edges that move to the predecessor leave from the
\* same region.
LEMMA SplicedIsWired ==
  ASSUME NEW f, IsExact(f), IsOrderly(f), IsWired(f, {}, 0), NEW p, NEW b, CanMergeBlock(f, p, b)
  PROVE  IsWired(Spliced(f, p, b), {}, 0)
<1> DEFINE g == Spliced(f, p, b)
<1>1. IsSpliceOf(g, f, p, b)
  BY SplicedHolds
<1>2. p \in DOMAIN f.blocks /\ b \in DOMAIN f.blocks /\ f.blocks[p].region = f.blocks[b].region
  BY DEF CanMergeBlock
<1> HIDE DEF g
<1>3. /\ DOMAIN g.blocks = DOMAIN f.blocks
      /\ \A c \in DOMAIN f.blocks : /\ g.blocks[c].region = f.blocks[c].region
                                    /\ g.blocks[c].parameters = f.blocks[c].parameters
  BY <1>1, <1>2 DEF IsSpliceOf
<1>4. /\ DOMAIN g.operations \subseteq DOMAIN f.operations
      /\ \A o \in DOMAIN g.operations :
           /\ DOMAIN g.operations[o] = DOMAIN f.operations[o]
           /\ g.operations[o].own = f.operations[o].own
           /\ g.operations[o].kind = f.operations[o].kind
           /\ g.operations[o].targets = f.operations[o].targets
           /\ g.operations[o].operands = f.operations[o].operands
           /\ g.operations[o].block =
                IF o \in BlockOperations(f, b) THEN p ELSE f.operations[o].block
  BY <1>1 DEF IsSpliceOf
<1>5. \A o \in BlockOperations(f, b) : f.operations[o].block = b
  BY <1>2, ListedOperations DEF IsOrderly
<1>6. \A o \in DOMAIN f.operations :
        /\ f.operations[o].block \in DOMAIN f.blocks
        /\ \A i \in DOMAIN f.operations[o].targets : f.operations[o].targets[i].block \in DOMAIN f.blocks
  BY DEF IsWired, IsWiredAt, IsOrderly, PlacesAreExact
<1>7. \A o \in DOMAIN g.operations :
        g.blocks[g.operations[o].block].region = f.blocks[f.operations[o].block].region
  BY <1>2, <1>3, <1>4, <1>5, <1>6
<1>8. IsWired(g, {}, 0)
  BY <1>3, <1>4, <1>6, <1>7, PartIsWired
<1> QED
  BY <1>8 DEF g

\* merge_block is a splice and the removal of an empty block.
LEMMA MergeBlockIsWired ==
  ASSUME NEW f, IsExact(f), IsOrderly(f), IsWired(f, {}, 0), NEW p, NEW b, CanMergeBlock(f, p, b)
  PROVE  IsWired(MergeBlock(f, p, b), {}, 0)
<1>1. CanRemoveBlocks(Spliced(f, p, b), {b})
  BY DEF CanMergeBlock
<1>2. IsExact(Spliced(f, p, b)) /\ IsOrderly(Spliced(f, p, b)) /\ IsWired(Spliced(f, p, b), {}, 0)
  BY SplicedIsExact, SplicedIsOrderly, SplicedIsWired
<1> QED
  BY <1>1, <1>2, RemoveBlocksIsWired DEF MergeBlock

-----------------------------------------------------------------------------
(* Edges: the calls that give an operation other successors or operands    *)

\* If one operation changes and stays wired, the function does.
LEMMA OneOperationIsWired ==
  ASSUME NEW f, NEW Lost, NEW k, IsWired(f, Lost, k), NEW g, NEW o, NEW Later,
         g.blocks = f.blocks, DOMAIN g.operations = DOMAIN f.operations,
         \A p \in DOMAIN f.operations \ {o} : g.operations[p] = f.operations[p],
         \A p \in DOMAIN f.operations \ {o} : \A i : <<p, i>> \in Lost <=> <<p, i>> \in Later,
         IsWiredAt(g, o, Later, k)
  PROVE  IsWired(g, Later, k)
<1>1. ASSUME NEW p \in DOMAIN f.operations \ {o} PROVE IsWiredAt(g, p, Later, k)
  <2>1. IsWiredAt(f, p, Lost, k)
    BY DEF IsWired
  <2>2. /\ "own" \in DOMAIN g.operations[p]
        /\ \A i \in DOMAIN f.operations[p].targets : f.operations[p].targets[i].block \in DOMAIN f.blocks
    BY <2>1 DEF IsWiredAt
  <2>3. g.operations[p] = f.operations[p]
    OBVIOUS
  <2> QED
    BY <2>1, <2>2, <2>3, SameSuccessors
<1> QED
  BY <1>1 DEF IsWired

\* The rest of a function whose operation o is given other operands.
LEMMA RewiredHolds ==
  ASSUME NEW f, IsOrderly(f), NEW o \in DOMAIN f.operations, NEW update
  PROVE  LET g == Rewired(f, o, update)
         IN  /\ g.blocks = f.blocks /\ DOMAIN g.operations = DOMAIN f.operations
             /\ \A p \in DOMAIN f.operations : g.operations[p] = IF p = o THEN update ELSE f.operations[p]
BY DEF Rewired, IsOrderly, IsFunction

\* replace_operation_with_constant leaves no operand, where there was no edge.
LEMMA ReplaceWithConstantIsWired ==
  ASSUME NEW f, IsExact(f), IsOrderly(f), IsWired(f, {}, 0), NEW o, NEW constant,
         CanReplaceWithConstant(f, o)
  PROVE  IsWired(ReplaceWithConstant(f, o, constant), {}, 0)
<1> DEFINE op == f.operations[o]
           update == [op EXCEPT !.kind = "Constant", !.detail = constant,
                                !.own = 0, !.operands = <<>>]
           g == Rewired(f, o, update)
<1>1. o \in DOMAIN f.operations /\ ~ IsTerminator(f, o)
  BY DEF CanReplaceWithConstant
<1>2. IsWiredAt(f, o, {}, 0)
  BY <1>1 DEF IsWired
<1>3. /\ {"block", "kind", "operands", "targets", "results", "own"} \subseteq DOMAIN op
      /\ op.targets = <<>>
  BY <1>1, <1>2 DEF IsWiredAt, IsOrderly, IsFunction
<1>4. /\ DOMAIN update = DOMAIN op /\ update.operands = <<>> /\ update.own = 0
      /\ update.targets = <<>>
  <2> HIDE DEF op
  <2> QED
    BY <1>3
<1> HIDE DEF update
<1>5. CountsArguments(update)
  BY <1>4 DEF CountsArguments, ToSet
<1>6. Len(update.operands) = FirstArgument(update, Len(update.targets) + 1)
  <2>1. FirstArgument(update, 1) = 0 /\ Len(<<>>) = 0 /\ Len(<<>>) + 1 = 1
    BY <1>4, <1>5, FirstArgumentHolds
  <2> QED
    BY <1>4, <2>1
<1>7. /\ g.blocks = f.blocks /\ DOMAIN g.operations = DOMAIN f.operations
      /\ \A p \in DOMAIN f.operations : g.operations[p] = IF p = o THEN update ELSE f.operations[p]
  BY <1>1, RewiredHolds
<1> HIDE DEF g
<1>8. IsWiredAt(g, o, {}, 0)
  BY <1>1, <1>3, <1>4, <1>5, <1>6, <1>7 DEF IsWiredAt
<1>9. IsWired(g, {}, 0)
  BY <1>7, <1>8, OneOperationIsWired
<1> QED
  BY <1>9 DEF ReplaceWithConstant, update, g

\* replace_if_with_jump keeps one edge and the arguments that it had.
LEMMA ReplaceIfWithJumpIsWired ==
  ASSUME NEW f, IsExact(f), IsOrderly(f), IsWired(f, {}, 0), NEW o, NEW i,
         CanReplaceIfWithJump(f, o, i)
  PROVE  IsWired(ReplaceIfWithJump(f, o, i), {}, 0)
<1> DEFINE op == f.operations[o]
           update == [op EXCEPT !.kind = "Jump", !.own = 0, !.structural = {},
                                !.operands = Arguments(op, i), !.targets = <<op.targets[i]>>]
           g == Rewired(f, o, update)
           t == op.targets[i]
<1>1. /\ o \in DOMAIN f.operations /\ op.kind = "If"
      /\ i \in DOMAIN op.targets /\ t.produced = 0
  BY DEF CanReplaceIfWithJump
<1>2. IsWiredAt(f, o, {}, 0)
  BY <1>1 DEF IsWired
<1>3. /\ {"block", "kind", "operands", "targets", "results", "own"} \subseteq DOMAIN op
      /\ op.operands \in Seq(DOMAIN f.values)
  BY <1>1, <1>2 DEF IsWiredAt, IsOrderly, IsFunction
<1>4. /\ DOMAIN update = DOMAIN op /\ update.operands = Arguments(op, i) /\ update.own = 0
      /\ update.targets = <<t>> /\ update.kind = "Jump" /\ update.block = op.block
  <2> HIDE DEF op, t
  <2> QED
    BY <1>3 DEF t
<1> HIDE DEF update
<1>5. /\ CountsArguments(op) /\ t.count \in Nat
      /\ {"block", "count", "produced"} \subseteq DOMAIN t
      /\ t.block \in DOMAIN f.blocks /\ f.blocks[op.block].region = f.blocks[t.block].region
      /\ Agrees(op, i, f.blocks[t.block].parameters)
      /\ Len(op.operands) = FirstArgument(op, Len(op.targets) + 1)
  BY <1>1, <1>2 DEF IsWiredAt, CountsArguments, Expected
<1>6. Len(update.operands) = t.count
  BY <1>1, <1>3, <1>4, <1>5, ArgumentsCounted
<1> HIDE DEF op, t
<1>7. DOMAIN update.targets = {1} /\ update.targets[1] = t /\ Len(update.targets) = 1
  BY <1>4
<1>8. CountsArguments(update)
  BY <1>4, <1>5, <1>7 DEF CountsArguments, ToSet
<1>9. Len(update.operands) = FirstArgument(update, Len(update.targets) + 1)
  <2>1. FirstArgument(update, 1) = 0 /\ FirstArgument(update, 1 + 1) = 0 + t.count
    <3>1. FirstArgument(update, 1) = update.own
      BY <1>8, FirstArgumentHolds
    <3>2. FirstArgument(update, 1 + 1) = FirstArgument(update, 1) + update.targets[1].count
      <4>1. 1 \in 1..Len(update.targets)
        BY <1>7
      <4> QED
        BY <1>8, <4>1, FirstArgumentHolds
    <3> QED
      BY <1>4, <1>7, <3>1, <3>2
  <2> QED
    BY <1>5, <1>6, <1>7, <2>1
<1>10. Agrees(update, 1, f.blocks[t.block].parameters)
  <2>1. op.targets[i] = t
    BY DEF t
  <2> QED
    BY <1>1, <1>5, <1>7, <2>1 DEF Agrees
<1>11. /\ g.blocks = f.blocks /\ DOMAIN g.operations = DOMAIN f.operations
       /\ \A p \in DOMAIN f.operations : g.operations[p] = IF p = o THEN update ELSE f.operations[p]
  BY <1>1, RewiredHolds
<1> HIDE DEF g
<1>12. g.operations[o] = update /\ IsTerminator(g, o)
  BY <1>1, <1>4, <1>11 DEF IsTerminator, Terminators
<1>13. IsWiredAt(g, o, {}, 0)
  <2>1. \A j \in DOMAIN update.targets : j = 1 /\ update.targets[j] = t
    BY <1>7
  <2>2. Expected(g, o, 1, {}, 0) = f.blocks[t.block].parameters
    BY <1>7, <1>11, <1>12 DEF Expected
  <2>3. ASSUME NEW j \in DOMAIN update.targets
        PROVE  /\ {"block", "count", "produced"} \subseteq DOMAIN update.targets[j]
               /\ update.targets[j].produced \in Nat
               /\ update.targets[j].block \in DOMAIN g.blocks
               /\ g.blocks[update.block].region = g.blocks[update.targets[j].block].region
               /\ Agrees(update, j, Expected(g, o, j, {}, 0))
    <3>1. j = 1 /\ update.targets[j] = t
      BY <2>1
    <3> QED
      BY <1>1, <1>4, <1>5, <1>10, <1>11, <2>2, <3>1
  <2>4. "own" \in DOMAIN update
    BY <1>3, <1>4
  <2> QED
    BY <1>8, <1>9, <1>12, <2>3, <2>4 DEF IsWiredAt
<1>14. IsWired(g, {}, 0)
  BY <1>11, <1>13, OneOperationIsWired
<1> QED
  BY <1>14 DEF ReplaceIfWithJump, update, g, op, t

\* How many operands a part of the operands has.
LEMMA PartCounted ==
  ASSUME NEW T, NEW s \in Seq(T), NEW m \in Nat, NEW n \in Nat, m <= n, n <= Len(s)
  PROVE  SubSeq(s, m + 1, n) \in Seq(T) /\ Len(SubSeq(s, m + 1, n)) = n - m
<1>1. Len(s) \in Nat /\ \A i \in 1..Len(s) : s[i] \in T
  BY LenProperties
<1>2. \A i \in (m + 1)..n : s[i] \in T
  BY <1>1
<1>3. /\ SubSeq(s, m + 1, n) \in Seq(T)
      /\ Len(SubSeq(s, m + 1, n)) = IF m + 1 <= n THEN n - (m + 1) + 1 ELSE 0
  BY <1>2, SubSeqProperties
<1> QED
  BY <1>3

\* How many there are when c of them are replaced by others.
LEMMA ReplacedCounted ==
  ASSUME NEW T, NEW s \in Seq(T), NEW a \in Seq(T), NEW m \in Nat, NEW c \in Nat, m + c <= Len(s)
  PROVE  LET r == SubSeq(s, 1, m) \o a \o SubSeq(s, m + c + 1, Len(s))
         IN  Len(r) \in Nat /\ Len(r) + c = Len(s) + Len(a)
<1> DEFINE before == SubSeq(s, 1, m)
           behind == SubSeq(s, m + c + 1, Len(s))
<1>1. Len(s) \in Nat /\ Len(a) \in Nat /\ m + c \in Nat /\ m <= Len(s)
  BY LenProperties
<1>2. before \in Seq(T) /\ Len(before) = m
  <2>1. SubSeq(s, 0 + 1, m) \in Seq(T) /\ Len(SubSeq(s, 0 + 1, m)) = m - 0
    BY <1>1, PartCounted
  <2> QED
    BY <2>1
<1>3. behind \in Seq(T) /\ Len(behind) = Len(s) - (m + c)
  BY <1>1, PartCounted
<1> HIDE DEF before, behind
<1> DEFINE both == before \o a
<1>4. both \in Seq(T) /\ Len(both) = m + Len(a)
  BY <1>2, ConcatProperties
<1>5. Len(both \o behind) = Len(both) + Len(behind)
  <2>1. both \in Seq(T) /\ behind \in Seq(T)
    BY <1>3, <1>4
  <2> HIDE DEF both
  <2> QED
    BY <2>1, ConcatProperties, Zenon
<1>6. Len(before \o a \o behind) \in Nat /\ Len(before \o a \o behind) + c = Len(s) + Len(a)
  <2> HIDE DEF both
  <2>1. Len(both \o behind) = m + Len(a) + (Len(s) - (m + c))
    BY <1>3, <1>4, <1>5
  <2>2. Len(both \o behind) \in Nat /\ Len(both \o behind) + c = Len(s) + Len(a)
    BY <1>1, <2>1
  <2> QED
    BY <2>2 DEF both
<1> QED
  BY <1>6 DEF before, behind

\* replace_successor checks the two ends of the new edge, and the other edges of
\* the operation keep their arguments.
LEMMA ReplaceSuccessorIsWired ==
  ASSUME NEW f, IsExact(f), IsOrderly(f), IsWired(f, {}, 0), NEW o, NEW i, NEW target, NEW arguments,
         CanReplaceSuccessor(f, o, i, target, arguments)
  PROVE  IsWired(ReplaceSuccessor(f, o, i, target, arguments), {}, 0)
<1> DEFINE op     == f.operations[o]
           s      == op.operands
           first  == FirstArgument(op, i)
           after  == first + op.targets[i].count
           new    == SubSeq(s, 1, first) \o arguments \o SubSeq(s, after + 1, Len(s))
           t      == op.targets[i]
           moved  == [t EXCEPT !.block = target, !.count = Len(arguments)]
           update == [op EXCEPT !.operands = new,
                                !.targets[i].block = target, !.targets[i].count = Len(arguments)]
           g      == Rewired(f, o, update)
<1>1. /\ o \in DOMAIN f.operations /\ i \in DOMAIN op.targets /\ target \in DOMAIN f.blocks
      /\ f.blocks[op.block].region = f.blocks[target].region
      /\ FitsTarget(f, op, i, target, Len(arguments))
      /\ arguments \in Seq(DOMAIN f.values) /\ RangeIsValid(op, i)
  BY DEF CanReplaceSuccessor
<1>2. IsWiredAt(f, o, {}, 0)
  BY <1>1 DEF IsWired
<1>3. /\ {"block", "kind", "operands", "targets", "results", "own"} \subseteq DOMAIN op
      /\ s \in Seq(DOMAIN f.values)
      /\ CountsArguments(op) /\ Len(s) = FirstArgument(op, Len(op.targets) + 1)
      /\ IsTerminator(f, o) \/ op.targets = <<>>
      /\ {"block", "count", "produced"} \subseteq DOMAIN t /\ t.produced \in Nat
  BY <1>1, <1>2 DEF IsWiredAt, IsOrderly, IsFunction
<1>4. /\ DOMAIN moved = DOMAIN t /\ moved.block = target /\ moved.count = Len(arguments)
      /\ moved.produced = t.produced
  <2> HIDE DEF t
  <2> QED
    BY <1>3
<1>5. /\ DOMAIN update = DOMAIN op /\ update.operands = new /\ update.own = op.own
      /\ update.kind = op.kind /\ update.block = op.block
      /\ update.targets = [op.targets EXCEPT ![i] = moved]
  <2> DEFINE targets == [op.targets EXCEPT ![i] = moved]
  <2>1. update = [op EXCEPT !.operands = new, !.targets = targets]
    OBVIOUS
  <2> HIDE DEF op, new, targets, update
  <2> QED
    BY <1>3, <2>1 DEF targets
<1> HIDE DEF update, moved
<1>6. /\ Len(op.targets) \in Nat /\ DOMAIN op.targets = 1..Len(op.targets)
      /\ Len(arguments) \in Nat /\ Len(s) \in Nat
  BY <1>1, <1>3, LenProperties DEF CountsArguments
<1>7. /\ update.targets \in Seq(ToSet(update.targets)) /\ Len(update.targets) = Len(op.targets)
      /\ DOMAIN update.targets = DOMAIN op.targets
      /\ \A j \in DOMAIN op.targets : update.targets[j] = IF j = i THEN moved ELSE op.targets[j]
  <2> DEFINE n == Len(op.targets)
             u == update.targets
  <2>1. DOMAIN u = 1..n /\ \A j \in 1..n : u[j] = IF j = i THEN moved ELSE op.targets[j]
    BY <1>5, <1>6
  <2> HIDE DEF u
  <2>2. u \in [1..n -> ToSet(u)]
    <3>1. u = [j \in 1..n |-> u[j]]
      BY <1>5, <1>6 DEF u
    <3>2. \A j \in 1..n : u[j] \in ToSet(u)
      BY <2>1 DEF ToSet
    <3> QED
      BY <3>1, <3>2
  <2>3. u \in Seq(ToSet(u))
    <3> HIDE DEF n
    <3> QED
      BY <1>6, <2>2 DEF n
  <2> QED
    BY <1>6, <2>1, <2>3, LenProperties DEF u
<1>8. CountsArguments(update)
  BY <1>3, <1>4, <1>5, <1>6, <1>7 DEF CountsArguments
<1>9. Len(update.operands) = FirstArgument(update, Len(update.targets) + 1)
  <2> DEFINE c == t.count
  <2>1. first \in Nat /\ c \in Nat /\ first + c <= Len(s)
    BY <1>1 DEF RangeIsValid
  <2>2. Len(new) \in Nat /\ Len(new) + c = Len(s) + Len(arguments)
    <3> HIDE DEF first, c, s
    <3>1. LET r == SubSeq(s, 1, first) \o arguments \o SubSeq(s, first + c + 1, Len(s))
          IN  Len(r) \in Nat /\ Len(r) + c = Len(s) + Len(arguments)
      BY <1>1, <1>3, <2>1, ReplacedCounted
    <3> QED
      BY <3>1 DEF c
  <2> HIDE DEF new, op, s
  <2>3. FirstArgument(update, Len(update.targets) + 1) + c
          = FirstArgument(op, Len(op.targets) + 1) + Len(arguments)
    <3>1. update.targets[i].count = Len(arguments) /\ i \in 1..Len(op.targets)
      BY <1>1, <1>4, <1>6, <1>7
    <3>2. \A j \in 1..Len(op.targets) : j # i => update.targets[j].count = op.targets[j].count
      BY <1>6, <1>7
    <3>3. CountsArguments(op) /\ update.own = op.own /\ Len(update.targets) = Len(op.targets)
      BY <1>3, <1>5, <1>7
    <3> HIDE DEF t, c
    <3>4. FirstArgument(update, Len(update.targets) + 1) + op.targets[i].count
            = FirstArgument(op, Len(op.targets) + 1) + update.targets[i].count
      BY <1>8, <3>1, <3>2, <3>3, ArgumentsMove
    <3>5. c = op.targets[i].count
      BY DEF c, t
    <3> QED
      BY <3>1, <3>4, <3>5, Zenon
  <2>4. FirstArgument(update, Len(update.targets) + 1) \in Nat
    <3>1. Len(update.targets) + 1 \in 1..(Len(update.targets) + 1)
      BY <1>6, <1>7
    <3> QED
      BY <1>8, <3>1, FirstArgumentHolds
  <2>5. Len(update.operands) = Len(new)
    BY <1>5
  <2> HIDE DEF c
  <2> QED
    BY <1>3, <1>6, <2>1, <2>2, <2>3, <2>4, <2>5
<1>10. /\ g.blocks = f.blocks /\ DOMAIN g.operations = DOMAIN f.operations
       /\ \A p \in DOMAIN f.operations : g.operations[p] = IF p = o THEN update ELSE f.operations[p]
  BY <1>1, RewiredHolds
<1> HIDE DEF g
<1>11. ASSUME NEW j \in DOMAIN op.targets
       PROVE  /\ {"block", "count", "produced"} \subseteq DOMAIN update.targets[j]
              /\ update.targets[j].produced \in Nat
              /\ update.targets[j].block \in DOMAIN f.blocks
              /\ f.blocks[op.block].region = f.blocks[update.targets[j].block].region
              /\ Agrees(update, j, f.blocks[update.targets[j].block].parameters)
  <2>1. ProducedSource(update, j) = ProducedSource(op, j)
    BY <1>5 DEF ProducedSource
  <2>2. CASE j = i
    <3>1. update.targets[j] = moved
      BY <1>7, <2>2
    <3>2. Agrees(update, j, f.blocks[target].parameters)
      BY <1>1, <1>4, <2>1, <2>2, <3>1 DEF Agrees, FitsTarget
    <3> QED
      BY <1>1, <1>3, <1>4, <3>1, <3>2
  <2>3. CASE j # i
    <3>1. update.targets[j] = op.targets[j]
      BY <1>7, <2>3
    <3>2. /\ {"block", "count", "produced"} \subseteq DOMAIN op.targets[j]
          /\ op.targets[j].produced \in Nat /\ op.targets[j].block \in DOMAIN f.blocks
          /\ f.blocks[op.block].region = f.blocks[op.targets[j].block].region
          /\ Agrees(op, j, f.blocks[op.targets[j].block].parameters)
      BY <1>2 DEF IsWiredAt, Expected
    <3>3. Agrees(update, j, f.blocks[op.targets[j].block].parameters)
      BY <2>1, <3>1, <3>2 DEF Agrees
    <3> QED
      BY <3>1, <3>2, <3>3
  <2> QED
    BY <2>2, <2>3
<1>12. IsWiredAt(g, o, {}, 0)
  <2>1. g.operations[o] = update
    BY <1>1, <1>10
  <2>2. IsTerminator(g, o)
    <3>1. IsTerminator(f, o)
      BY <1>1, <1>3, <1>6
    <3> QED
      BY <1>5, <2>1, <3>1 DEF IsTerminator
  <2>3. \A j : Expected(g, o, j, {}, 0) = f.blocks[update.targets[j].block].parameters
    BY <1>10, <2>1 DEF Expected
  <2>4. "own" \in DOMAIN update
    BY <1>3, <1>5
  <2> HIDE DEF op
  <2>5. \A j \in DOMAIN update.targets :
           /\ {"block", "count", "produced"} \subseteq DOMAIN update.targets[j]
           /\ update.targets[j].produced \in Nat
           /\ update.targets[j].block \in DOMAIN g.blocks
           /\ g.blocks[update.block].region = g.blocks[update.targets[j].block].region
           /\ Agrees(update, j, Expected(g, o, j, {}, 0))
    <3> TAKE j \in DOMAIN update.targets
    <3>1. j \in DOMAIN op.targets /\ update.block = op.block /\ g.blocks = f.blocks
      BY <1>5, <1>7, <1>10
    <3>2. Expected(g, o, j, {}, 0) = f.blocks[update.targets[j].block].parameters
      BY <2>3
    <3> QED
      BY <1>11, <3>1, <3>2, Zenon
  <2> HIDE DEF update
  <2>6. CountsArguments(update) /\ Len(update.operands) = FirstArgument(update, Len(update.targets) + 1)
    BY <1>8, <1>9
  <2> QED
    BY <2>1, <2>2, <2>4, <2>5, <2>6, Zenon DEF IsWiredAt
<1>13. IsWired(g, {}, 0)
  BY <1>10, <1>12, OneOperationIsWired
<1>14. ReplaceSuccessor(f, o, i, target, arguments) = g
  BY DEF ReplaceSuccessor, g, update, moved
<1> QED
  BY <1>13, <1>14

-----------------------------------------------------------------------------
(* Edges: the removal of a block parameter                                 *)

\* A target without one of its forwarded parameters fits an edge without one of
\* its arguments: the parameters produced come before those forwarded.
LEMMA ParameterLost ==
  ASSUME NEW T, NEW p \in Seq(T), NEW k \in 1..Len(p), p[k].source = Forwarded,
         NEW op, NEW update, NEW i, Agrees(op, i, p),
         ProducedSource(update, i) = ProducedSource(op, i),
         op.targets[i].produced \in Nat, update.targets[i].produced = op.targets[i].produced,
         op.targets[i].count \in Nat, update.targets[i].count = op.targets[i].count - 1
  PROVE  Agrees(update, i, RemoveAt(p, k))
<1> DEFINE r        == RemoveAt(p, k)
           m        == op.targets[i].produced
           c        == op.targets[i].count
           source   == ProducedSource(op, i)
<1>1. /\ Len(p) = m + c /\ Len(p) \in Nat
      /\ \A j \in 1..Len(p) : p[j].source = IF j <= m THEN source ELSE Forwarded
  BY LenProperties DEF Agrees
<1>2. source # Forwarded
  BY DEF ProducedSource, Produced, Exception, Forwarded
<1>3. Len(r) = Len(p) - 1 /\ \A j \in 1..(Len(p) - 1) : r[j] = IF j < k THEN p[j] ELSE p[j + 1]
  BY RemoveAtMovesDown
<1> HIDE DEF r, m, c, source
<1>4. m \in Nat /\ c \in Nat
  BY DEF m, c
<1>5. k > m
  BY <1>1, <1>2, <1>4
<1>6. ASSUME NEW j \in 1..Len(r)
      PROVE  r[j].source = IF j <= m THEN source ELSE Forwarded
  <2>1. j \in 1..(Len(p) - 1) /\ j \in 1..Len(p) /\ j + 1 \in 1..Len(p)
    BY <1>1, <1>3
  <2>2. CASE j < k
    BY <1>1, <1>3, <2>1, <2>2
  <2>3. CASE ~ (j < k)
    <3>1. r[j] = p[j + 1] /\ ~ (j <= m) /\ ~ (j + 1 <= m)
      BY <1>3, <1>4, <1>5, <2>1, <2>3
    <3> QED
      BY <1>1, <2>1, <3>1
  <2> QED
    BY <2>2, <2>3
<1>7. Len(r) = m + (c - 1)
  BY <1>1, <1>3, <1>4
<1> QED
  BY <1>6, <1>7 DEF Agrees, r, m, c, source

\* remove_successor_argument makes up on one edge for the parameter that is to
\* go; the edges done before keep up with it, the others stay as they were.
LEMMA RemoveSuccessorArgumentIsWired ==
  ASSUME NEW f, IsExact(f), IsOrderly(f), NEW Lost, NEW k, IsWired(f, Lost, k),
         NEW o, NEW i, NEW index, CanRemoveSuccessorArgument(f, o, i, index),
         <<o, i>> \notin Lost, k \in ForwardedPositions(f, Target(f, <<o, i>>))
  PROVE  IsWired(RemoveSuccessorArgument(f, o, i, index), Lost \cup {<<o, i>>}, k)
<1> DEFINE op     == f.operations[o]
           s      == op.operands
           at     == FirstArgument(op, i) + index
           rest   == RemoveAt(s, at)
           t      == op.targets[i]
           less   == [t EXCEPT !.count = @ - 1]
           u      == Attached(Detached(f.uses, o, s, at), o, rest, at)
           update == [op EXCEPT !.operands = rest, !.targets[i].count = @ - 1]
           g      == RemoveSuccessorArgument(f, o, i, index)
           Later  == Lost \cup {<<o, i>>}
<1>1. /\ o \in DOMAIN f.operations /\ i \in DOMAIN op.targets /\ at \in DOMAIN s
      /\ index \in 1..t.count
  BY DEF CanRemoveSuccessorArgument
<1>2. IsWiredAt(f, o, Lost, k)
  BY <1>1 DEF IsWired
<1>3. /\ {"block", "kind", "operands", "targets", "results", "own"} \subseteq DOMAIN op
      /\ s \in Seq(DOMAIN f.values)
      /\ CountsArguments(op) /\ Len(s) = FirstArgument(op, Len(op.targets) + 1)
      /\ IsTerminator(f, o) \/ op.targets = <<>>
      /\ {"block", "count", "produced"} \subseteq DOMAIN t /\ t.produced \in Nat
      /\ t.count \in Nat
  BY <1>1, <1>2 DEF IsWiredAt, IsOrderly, IsFunction, CountsArguments
<1>4. /\ DOMAIN less = DOMAIN t /\ less.block = t.block /\ less.count = t.count - 1
      /\ less.produced = t.produced /\ less.count \in Nat
  <2> HIDE DEF t
  <2> QED
    BY <1>1, <1>3
<1>5. /\ DOMAIN update = DOMAIN op /\ update.operands = rest /\ update.own = op.own
      /\ update.kind = op.kind /\ update.block = op.block
      /\ update.targets = [op.targets EXCEPT ![i] = less]
  <2> DEFINE targets == [op.targets EXCEPT ![i] = less]
  <2>1. update = [op EXCEPT !.operands = rest, !.targets = targets]
    OBVIOUS
  <2> HIDE DEF op, rest, targets, update
  <2> QED
    BY <1>3, <2>1 DEF targets
<1>6. /\ g.blocks = f.blocks /\ DOMAIN g.operations = DOMAIN f.operations
      /\ \A p \in DOMAIN f.operations : g.operations[p] = IF p = o THEN update ELSE f.operations[p]
  <2>1. g = [f EXCEPT !.operations[o] = update, !.uses = u]
    BY DEF RemoveSuccessorArgument
  <2> HIDE DEF update, u, g
  <2> QED
    BY <1>1, <2>1 DEF IsOrderly, IsFunction
<1> HIDE DEF update, less, g, u
<1>7. /\ Len(op.targets) \in Nat /\ DOMAIN op.targets = 1..Len(op.targets) /\ Len(s) \in Nat
  BY <1>3, LenProperties DEF CountsArguments
<1>8. /\ update.targets \in Seq(ToSet(update.targets)) /\ Len(update.targets) = Len(op.targets)
      /\ DOMAIN update.targets = DOMAIN op.targets
      /\ \A j \in DOMAIN op.targets : update.targets[j] = IF j = i THEN less ELSE op.targets[j]
  <2> DEFINE n == Len(op.targets)
             v == update.targets
  <2>1. DOMAIN v = 1..n /\ \A j \in 1..n : v[j] = IF j = i THEN less ELSE op.targets[j]
    BY <1>5, <1>7
  <2> HIDE DEF v
  <2>2. v \in [1..n -> ToSet(v)]
    <3>1. v = [j \in 1..n |-> v[j]]
      BY <1>5, <1>7 DEF v
    <3>2. \A j \in 1..n : v[j] \in ToSet(v)
      BY <2>1 DEF ToSet
    <3> QED
      BY <3>1, <3>2
  <2>3. v \in Seq(ToSet(v))
    <3> HIDE DEF n
    <3> QED
      BY <1>7, <2>2 DEF n
  <2> QED
    BY <1>7, <2>1, <2>3, LenProperties DEF v
<1>9. CountsArguments(update)
  BY <1>3, <1>4, <1>5, <1>7, <1>8 DEF CountsArguments
<1>10. Len(update.operands) = FirstArgument(update, Len(update.targets) + 1)
  <2> DEFINE c == t.count
  <2>1. Len(rest) = Len(s) - 1
    <3> HIDE DEF s, at
    <3>1. at \in 1..Len(s)
      BY <1>1, <1>3, LenProperties
    <3> QED
      BY <1>3, <3>1, RemoveAtMovesDown
  <2>2. update.targets[i].count = c - 1 /\ i \in 1..Len(op.targets) /\ c \in Nat
    BY <1>1, <1>3, <1>4, <1>7, <1>8
  <2>3. \A j \in 1..Len(op.targets) : j # i => update.targets[j].count = op.targets[j].count
    BY <1>7, <1>8
  <2>4. CountsArguments(op) /\ update.own = op.own /\ Len(update.targets) = Len(op.targets)
    BY <1>3, <1>5, <1>8
  <2>5. FirstArgument(update, Len(update.targets) + 1) \in Nat
    <3>1. Len(update.targets) + 1 \in 1..(Len(update.targets) + 1)
      BY <1>7, <1>8
    <3> QED
      BY <1>9, <3>1, FirstArgumentHolds
  <2>6. Len(update.operands) = Len(rest)
    BY <1>5
  <2>7. FirstArgument(update, Len(update.targets) + 1) + c
          = FirstArgument(op, Len(op.targets) + 1) + (c - 1)
    <3>1. c = op.targets[i].count
      OBVIOUS
    <3> HIDE DEF t, c, rest, at, s
    <3>2. FirstArgument(update, Len(update.targets) + 1) + op.targets[i].count
            = FirstArgument(op, Len(op.targets) + 1) + update.targets[i].count
      BY <1>9, <2>2, <2>3, <2>4, ArgumentsMove
    <3> QED
      BY <2>2, <3>1, <3>2, Zenon
  <2> HIDE DEF c, rest, s, op
  <2> QED
    BY <1>3, <1>7, <2>1, <2>2, <2>5, <2>6, <2>7
\* What the edge is expected to pass, and what the others are.
<1>11. ASSUME NEW j \in DOMAIN op.targets
       PROVE  /\ {"block", "count", "produced"} \subseteq DOMAIN update.targets[j]
              /\ update.targets[j].produced \in Nat
              /\ update.targets[j].block = op.targets[j].block
              /\ op.targets[j].block \in DOMAIN f.blocks
              /\ f.blocks[op.block].region = f.blocks[op.targets[j].block].region
              /\ Agrees(update, j, Expected(g, o, j, Later, k))
  <2>1. ProducedSource(update, j) = ProducedSource(op, j)
    BY <1>5 DEF ProducedSource
  <2>2. /\ {"block", "count", "produced"} \subseteq DOMAIN op.targets[j]
        /\ op.targets[j].produced \in Nat
        /\ op.targets[j].block \in DOMAIN f.blocks
        /\ f.blocks[op.block].region = f.blocks[op.targets[j].block].region
        /\ Agrees(op, j, Expected(f, o, j, Lost, k))
    BY <1>2 DEF IsWiredAt
  <2>3. update.targets[j].block = op.targets[j].block
    BY <1>4, <1>8
  <2>4. g.operations[o] = update
    BY <1>1, <1>6
  <2> DEFINE p == f.blocks[op.targets[j].block].parameters
  <2>5. CASE j = i
    <3>1. Expected(f, o, j, Lost, k) = p
      BY <2>5 DEF Expected
    <3>2. Expected(g, o, j, Later, k) = RemoveAt(p, k)
      BY <1>6, <2>3, <2>4, <2>5 DEF Expected
    <3>3. update.targets[j] = less
      BY <1>8, <2>5
    <3>4. p \in Seq(ToSet(p))
      BY <2>2 DEF IsOrderly, IsLaidOut
    <3>5. k \in DOMAIN p /\ p[k].source = Forwarded
      BY <2>5 DEF ForwardedPositions, Target
    <3>6. k \in 1..Len(p)
      BY <3>4, <3>5, LenProperties
    <3>7. /\ update.targets[j].produced = op.targets[j].produced
          /\ update.targets[j].count = op.targets[j].count - 1
          /\ op.targets[j].count \in Nat
      BY <1>3, <1>4, <2>5, <3>3
    <3>8. Agrees(op, j, p)
      BY <2>2, <3>1
    <3> HIDE DEF p, op
    <3>9. Agrees(update, j, RemoveAt(p, k))
      BY <2>1, <2>2, <3>4, <3>5, <3>6, <3>7, <3>8, ParameterLost
    <3>10. {"block", "count", "produced"} \subseteq DOMAIN update.targets[j]
      BY <1>3, <1>4, <3>3
    <3> QED
      BY <2>2, <2>3, <3>2, <3>7, <3>9, <3>10
  <2>6. CASE j # i
    <3>1. update.targets[j] = op.targets[j]
      BY <1>8, <2>6
    <3>2. <<o, j>> \in Later <=> <<o, j>> \in Lost
      BY <2>6
    <3>3. Expected(g, o, j, Later, k) = Expected(f, o, j, Lost, k)
      BY <1>6, <2>3, <2>4, <3>2 DEF Expected
    <3>4. Agrees(update, j, Expected(f, o, j, Lost, k))
      BY <2>1, <2>2, <3>1 DEF Agrees
    <3> QED
      BY <2>2, <3>1, <3>3, <3>4
  <2> QED
    BY <2>5, <2>6
<1>12. IsWiredAt(g, o, Later, k)
  <2>1. g.operations[o] = update
    BY <1>1, <1>6
  <2>2. IsTerminator(g, o)
    <3>1. IsTerminator(f, o)
      BY <1>1, <1>3, <1>7
    <3> QED
      BY <1>5, <2>1, <3>1 DEF IsTerminator
  <2>3. "own" \in DOMAIN update
    BY <1>3, <1>5
  <2> HIDE DEF op, Later
  <2>4. \A j \in DOMAIN update.targets :
           /\ {"block", "count", "produced"} \subseteq DOMAIN update.targets[j]
           /\ update.targets[j].produced \in Nat
           /\ update.targets[j].block \in DOMAIN g.blocks
           /\ g.blocks[update.block].region = g.blocks[update.targets[j].block].region
           /\ Agrees(update, j, Expected(g, o, j, Later, k))
    BY <1>5, <1>6, <1>8, <1>11
  <2> QED
    BY <1>9, <1>10, <2>1, <2>2, <2>3, <2>4 DEF IsWiredAt
<1>13. \A p \in DOMAIN f.operations \ {o} : \A j : <<p, j>> \in Lost <=> <<p, j>> \in Later
  OBVIOUS
<1>14. \A p \in DOMAIN f.operations \ {o} : g.operations[p] = f.operations[p]
  BY <1>6
<1> HIDE DEF Later
<1>15. IsWired(g, Later, k)
  BY <1>6, <1>12, <1>13, <1>14, OneOperationIsWired
<1> QED
  BY <1>15 DEF g, Later

\* When every edge to b has lost its argument, the parameter goes.
LEMMA RemoveParameterIsWired ==
  ASSUME NEW f, IsOrderly(f), NEW b \in DOMAIN f.blocks, NEW k, IsWired(f, IncomingEdges(f, b), k)
  PROVE  IsWired(RemoveParameter(f, b, k), {}, 0)
<1> DEFINE g     == RemoveParameter(f, b, k)
           block == f.blocks[b]
           t     == RemoveAt(block.parameters, k)
           less  == [block EXCEPT !.parameters = t]
           Lost  == IncomingEdges(f, b)
<1>1. /\ g.operations = f.operations /\ DOMAIN g.blocks = DOMAIN f.blocks
      /\ \A c \in DOMAIN f.blocks : g.blocks[c] = IF c = b THEN less ELSE f.blocks[c]
  BY DEF RemoveParameter, IsOrderly, IsFunction
<1>2. less.region = block.region /\ less.parameters = t
  <2>1. {"region", "parameters"} \subseteq DOMAIN block
    BY DEF IsOrderly, IsLaidOut
  <2> HIDE DEF block, t
  <2> QED
    BY <2>1
<1> HIDE DEF g, less, t
<1>3. ASSUME NEW o \in DOMAIN f.operations PROVE IsWiredAt(g, o, {}, 0)
  <2> DEFINE op == f.operations[o]
  <2>1. IsWiredAt(f, o, Lost, k)
    BY DEF IsWired
  <2>2. ASSUME NEW i \in DOMAIN op.targets
        PROVE  /\ op.targets[i].block \in DOMAIN g.blocks
               /\ g.blocks[op.block].region = g.blocks[op.targets[i].block].region
               /\ Agrees(op, i, Expected(g, o, i, {}, 0))
    <3>1. /\ op.targets[i].block \in DOMAIN f.blocks
          /\ f.blocks[op.block].region = f.blocks[op.targets[i].block].region
          /\ Agrees(op, i, Expected(f, o, i, Lost, k))
      BY <2>1 DEF IsWiredAt
    <3>2. <<o, i>> \in Lost <=> op.targets[i].block = b
      BY DEF IncomingEdges, Edges, EdgesOf, Target
    <3>3. Expected(g, o, i, {}, 0) = Expected(f, o, i, Lost, k)
      BY <1>1, <1>2, <3>1, <3>2 DEF Expected, t
    <3>4. op.block \in DOMAIN f.blocks
      BY DEF IsOrderly, PlacesAreExact
    <3> QED
      BY <1>1, <1>2, <3>1, <3>3, <3>4
  <2>3. IsTerminator(g, o) <=> IsTerminator(f, o)
    BY <1>1 DEF IsTerminator
  <2> QED
    BY <1>1, <2>1, <2>2, <2>3 DEF IsWiredAt
<1>4. IsWired(g, {}, 0)
  BY <1>1, <1>3 DEF IsWired
<1> QED
  BY <1>4 DEF g

\* The loop over the edges to a block meets every one of them once.
LEMMA IncomingInOrder ==
  ASSUME NEW f, NEW Lost, NEW k, IsWired(f, Lost, k), NEW b
  PROVE  Enumerates(EdgesInOrder(IncomingEdges(f, b)), IncomingEdges(f, b))
<1> DEFINE E == IncomingEdges(f, b)
           O == DOMAIN f.operations
<1>1. O \in SUBSET Nat /\ IsFiniteSet(O)
  BY DEF IsWired
<1>2. \A e \in E : e = <<e[1], e[2]>> /\ e[1] \in O /\ e[2] \in DOMAIN f.operations[e[1]].targets
  BY DEF IncomingEdges, Edges, EdgesOf
<1>3. ASSUME NEW o \in O
      PROVE  /\ {e[2] : e \in {x \in E : x[1] = o}} \in SUBSET Nat
             /\ IsFiniteSet({e[2] : e \in {x \in E : x[1] = o}})
  <2> DEFINE n == Len(f.operations[o].targets)
  <2>1. CountsArguments(f.operations[o])
    BY DEF IsWired, IsWiredAt
  <2>2. n \in Nat /\ DOMAIN f.operations[o].targets = 1..n
    BY <2>1, LenProperties DEF CountsArguments
  <2>3. {e[2] : e \in {x \in E : x[1] = o}} \in SUBSET (1..n)
    <3> HIDE DEF n, E
    <3> QED
      BY <1>2, <2>2
  <2>4. 1..n \subseteq Nat
    BY <2>2
  <2> HIDE DEF n, E
  <2>5. IsFiniteSet(1..n)
    BY <2>2, FS_Interval
  <2> QED
    BY <2>3, <2>4, <2>5, FS_Subset
<1> HIDE DEF E, O
<1>4. Enumerates(EdgesInOrder(E), E)
  BY <1>1, <1>2, <1>3, EdgesInOrderEnumerates
<1> QED
  BY <1>4 DEF E

\* The edges stay where they are while they lose arguments.
LEMMA RemoveSuccessorArgumentKeepsEdges ==
  ASSUME NEW f, IsOrderly(f), NEW Lost, NEW k, IsWired(f, Lost, k),
         NEW o, NEW i, NEW index, CanRemoveSuccessorArgument(f, o, i, index), NEW b
  PROVE  LET g == RemoveSuccessorArgument(f, o, i, index)
         IN  IncomingEdges(g, b) = IncomingEdges(f, b)
<1> DEFINE op     == f.operations[o]
           at     == FirstArgument(op, i) + index
           rest   == RemoveAt(op.operands, at)
           t      == op.targets[i]
           less   == [t EXCEPT !.count = @ - 1]
           targets == [op.targets EXCEPT ![i] = less]
           u      == Attached(Detached(f.uses, o, op.operands, at), o, rest, at)
           update == [op EXCEPT !.operands = rest, !.targets = targets]
           g      == RemoveSuccessorArgument(f, o, i, index)
<1>1. o \in DOMAIN f.operations /\ i \in DOMAIN op.targets
  BY DEF CanRemoveSuccessorArgument
<1>2. {"operands", "targets"} \subseteq DOMAIN op /\ {"block", "count"} \subseteq DOMAIN t
  BY <1>1 DEF IsWired, IsWiredAt, IsOrderly, IsFunction
<1>3. less.block = t.block
  <2> HIDE DEF t
  <2> QED
    BY <1>2
<1>4. update.targets = targets
  <2> HIDE DEF op, targets, rest
  <2> QED
    BY <1>2
<1>5. /\ DOMAIN g.operations = DOMAIN f.operations
      /\ \A p \in DOMAIN f.operations : g.operations[p] = IF p = o THEN update ELSE f.operations[p]
  <2>1. g = [f EXCEPT !.operations[o] = update, !.uses = u]
    BY DEF RemoveSuccessorArgument
  <2> HIDE DEF update, u, g
  <2> QED
    BY <1>1, <2>1 DEF IsOrderly, IsFunction
<1> HIDE DEF update, g, less
<1>6. ASSUME NEW p \in DOMAIN f.operations
      PROVE  /\ DOMAIN g.operations[p].targets = DOMAIN f.operations[p].targets
             /\ \A j \in DOMAIN f.operations[p].targets :
                  g.operations[p].targets[j].block = f.operations[p].targets[j].block
  <2>1. CASE p = o
    <3>1. g.operations[p].targets = targets
      BY <1>4, <1>5, <2>1
    <3> QED
      BY <1>1, <1>3, <2>1, <3>1
  <2>2. CASE p # o
    BY <1>5, <2>2
  <2> QED
    BY <2>1, <2>2
<1>7. \A e : e \in IncomingEdges(g, b) <=> e \in IncomingEdges(f, b)
  <2>1. \A h : \A e : e \in IncomingEdges(h, b) <=>
           \E p \in DOMAIN h.operations : \E j \in DOMAIN h.operations[p].targets :
             e = <<p, j>> /\ h.operations[p].targets[j].block = b
    BY DEF IncomingEdges, Edges, EdgesOf, Target
  <2> QED
    BY <1>5, <1>6, <2>1
<1> QED
  BY <1>7 DEF g

\* What is left of a loop after one step.
LEMMA OneFewer ==
  ASSUME NEW S, NEW s \in Seq(S), s # <<>>, \A i, j \in DOMAIN s : s[i] = s[j] => i = j
  PROVE  /\ Head(s) \in S /\ Head(s) \in ToSet(s) /\ Tail(s) \in Seq(S)
         /\ \A i, j \in DOMAIN Tail(s) : Tail(s)[i] = Tail(s)[j] => i = j
         /\ ToSet(Tail(s)) = ToSet(s) \ {Head(s)}
<1> DEFINE n == Len(s)
           r == Tail(s)
<1>1. n \in Nat /\ n # 0 /\ DOMAIN s = 1..n /\ \A i \in 1..n : s[i] \in S
  BY LenProperties, EmptySeq
<1>2. r \in Seq(S) /\ Len(r) = n - 1 /\ \A i \in 1..Len(r) : r[i] = s[i + 1]
  BY HeadTailProperties
<1>3. DOMAIN r = 1..(n - 1)
  BY <1>2, LenProperties
<1>4. Head(s) = s[1]
  BY HeadTailProperties
<1> HIDE DEF r, n
<1>5. \A i \in 1..(n - 1) : i \in 1..n /\ i + 1 \in 1..n /\ i + 1 # 1
  BY <1>1
<1>6. ASSUME NEW i \in DOMAIN r, NEW j \in DOMAIN r, r[i] = r[j] PROVE i = j
  <2>1. i + 1 \in DOMAIN s /\ j + 1 \in DOMAIN s /\ s[i + 1] = s[j + 1]
    BY <1>1, <1>2, <1>3, <1>5, <1>6
  <2>2. i + 1 = j + 1
    BY <2>1
  <2> QED
    BY <1>1, <1>3, <2>2
<1>7. ToSet(r) = ToSet(s) \ {Head(s)}
  <2>1. ASSUME NEW i \in 1..(n - 1) PROVE r[i] \in ToSet(s) /\ r[i] # s[1]
    <3>1. r[i] = s[i + 1] /\ i + 1 \in DOMAIN s /\ 1 \in DOMAIN s /\ i + 1 # 1
      BY <1>1, <1>2, <1>3, <1>5
    <3> QED
      BY <3>1 DEF ToSet
  <2>2. ASSUME NEW j \in 1..n, s[j] # s[1] PROVE s[j] \in ToSet(r)
    <3>1. j - 1 \in 1..(n - 1) /\ (j - 1) + 1 = j
      BY <1>1, <2>2
    <3>2. r[j - 1] = s[j]
      BY <1>2, <1>3, <3>1
    <3> QED
      BY <1>3, <3>1, <3>2 DEF ToSet
  <2> QED
    BY <1>1, <1>3, <1>4, <2>1, <2>2 DEF ToSet
<1>8. 1 \in 1..n
  BY <1>1
<1>9. s[1] \in S /\ s[1] \in ToSet(s)
  BY <1>1, <1>8 DEF ToSet
<1>10. Head(s) \in S /\ Head(s) \in ToSet(s)
  BY <1>4, <1>9
<1> QED
  BY <1>2, <1>6, <1>7, <1>10 DEF r

-----------------------------------------------------------------------------
(* Edges that fit: every step of OptimizeFunction                          *)

\* While a parameter is being removed, the edges that the loop has met pass one
\* argument less than it has parameters, and the others as many.
HalfRemoved ==
  removal # NoRemoval =>
    LET into == IncomingEdges(function, removal.block)
    IN  /\ removal.position \in ForwardedPositions(function, removal.block)
        /\ HasForwarded(function, removal.block, removal.index)
        /\ removal.edges \in Seq(into)
        /\ \A i, j \in DOMAIN removal.edges : removal.edges[i] = removal.edges[j] => i = j
        /\ IsWired(function, into \ ToSet(removal.edges), removal.position)

WiredInv == (removal = NoRemoval => IsWired(function, {}, 0)) /\ HalfRemoved

EdgeInv == OrderInv /\ WiredInv

\* A call that keeps the edges fit if its assertions hold preserves it.
LEMMA PerformKeepsEdges ==
  ASSUME NEW call, NEW asserts, NEW result,
         EdgeInv, Perform(call, asserts, result), asserts => IsWired(result, {}, 0)
  PROVE  WiredInv'
<1>1. CASE asserts
  <2>1. function' = result /\ removal' = NoRemoval
    BY <1>1 DEF Perform
  <2> QED
    BY <2>1, <1>1 DEF WiredInv, HalfRemoved, NoRemoval
<1>2. CASE ~ asserts
  <2>1. UNCHANGED <<function, removal>>
    BY <1>2 DEF Perform
  <2> QED
    BY <2>1 DEF EdgeInv, WiredInv, HalfRemoved, NoRemoval
<1> QED
  BY <1>1, <1>2

\* The loop over the edges has all of them before it.
LEMMA BeginRemovalKeepsEdges ==
  ASSUME EdgeInv, BeginRemoval
  PROVE  WiredInv'
<1>1. CASE CanRemoveForwardedParameter(function, Call.block, Call.index)
  <2> DEFINE b    == Call.block
             k    == ForwardedPosition(function, b, Call.index)
             into == IncomingEdges(function, b)
             s    == EdgesInOrder(into)
  <2>1. /\ function' = function /\ removal = NoRemoval
        /\ removal' = [block |-> b, index |-> Call.index, position |-> k, edges |-> s]
    BY <1>1 DEF BeginRemoval
  <2>2. b \in DOMAIN function.blocks /\ HasForwarded(function, b, Call.index)
    BY <1>1 DEF CanRemoveForwardedParameter
  <2>3. k \in ForwardedPositions(function, b)
    BY <2>2, ForwardedIsForwarded DEF EdgeInv, OrderInv
  <2>4. IsWired(function, {}, 0)
    BY <2>1 DEF EdgeInv, WiredInv
  <2>5. Enumerates(s, into)
    BY <2>4, IncomingInOrder
  <2>6. IsWired(function, into \ ToSet(s), k)
    <3>1. into \ ToSet(s) = {}
      BY <2>5 DEF Enumerates
    <3>2. IsWired(function, {}, k)
      BY <2>4 DEF IsWired, IsWiredAt, Expected
    <3> QED
      BY <3>1, <3>2
  <2> HIDE DEF b, k, s, into
  <2>7. /\ removal'.block = b /\ removal'.position = k /\ removal'.edges = s
        /\ removal'.index = Call.index /\ removal' # NoRemoval
    <3>1. /\ removal'.block = b /\ removal'.position = k /\ removal'.edges = s
          /\ removal'.index = Call.index
      BY <2>1
    <3>2. k # 0
      <4>1. k \in DOMAIN function.blocks[b].parameters
        BY <2>3 DEF ForwardedPositions
      <4>2. function.blocks[b].parameters \in Seq(ToSet(function.blocks[b].parameters))
        BY <2>2 DEF EdgeInv, OrderInv, IsOrderly, IsLaidOut, b
      <4> QED
        BY <4>1, <4>2, LenProperties
    <3>3. NoRemoval.position = 0
      BY DEF NoRemoval
    <3> QED
      BY <3>1, <3>2, <3>3
  <2> QED
    BY <2>1, <2>2, <2>3, <2>5, <2>6, <2>7 DEF WiredInv, HalfRemoved, Enumerates, into
<1>2. CASE ~ CanRemoveForwardedParameter(function, Call.block, Call.index)
  BY <1>2 DEF BeginRemoval, EdgeInv, WiredInv, HalfRemoved
<1> QED
  BY <1>1, <1>2

\* One edge more has lost its argument.
LEMMA RemoveArgumentKeepsEdges ==
  ASSUME EdgeInv, RemoveArgument
  PROVE  WiredInv'
<1> DEFINE e == Head(removal.edges)
           o == e[1]
           i == e[2]
           s == removal.edges
           g == RemoveSuccessorArgument(function, o, i, removal.index)
           into == IncomingEdges(function, removal.block)
<1>0. /\ removal # NoRemoval /\ s # <<>> /\ s \in Seq(into)
      /\ \A m, n \in DOMAIN s : s[m] = s[n] => m = n
      /\ removal.position \in ForwardedPositions(function, removal.block)
      /\ HasForwarded(function, removal.block, removal.index)
      /\ IsWired(function, into \ ToSet(s), removal.position)
  BY DEF RemoveArgument, EdgeInv, WiredInv, HalfRemoved
<1>1. CASE CanRemoveSuccessorArgument(function, o, i, removal.index)
  <2>1. function' = g /\ removal' = [removal EXCEPT !.edges = Tail(s)]
    BY <1>1 DEF RemoveArgument
  <2>2. IsExact(function) /\ IsOrderly(function)
    BY DEF EdgeInv, OrderInv, EditorInv
  <2>3. /\ e \in into /\ e \in ToSet(s) /\ Tail(s) \in Seq(into)
        /\ \A m, n \in DOMAIN Tail(s) : Tail(s)[m] = Tail(s)[n] => m = n
        /\ ToSet(Tail(s)) = ToSet(s) \ {e}
    <3> HIDE DEF s, into
    <3> QED
      BY <1>0, OneFewer DEF e, s
  <2>4. e = <<o, i>> /\ Target(function, <<o, i>>) = removal.block
    <3> HIDE DEF e
    <3>1. e \in Edges(function) /\ Target(function, e) = removal.block
      BY <2>3 DEF IncomingEdges
    <3>2. e = <<e[1], e[2]>>
      BY <3>1 DEF Edges, EdgesOf
    <3> QED
      BY <3>1, <3>2 DEF o, i
  <2>5. <<o, i>> \notin into \ ToSet(s)
    BY <2>3, <2>4
  <2>6. removal.position \in ForwardedPositions(function, Target(function, <<o, i>>))
    BY <1>0, <2>4
  <2>7. IncomingEdges(g, removal.block) = into
    BY <1>0, <1>1, <2>2, RemoveSuccessorArgumentKeepsEdges
  <2>8. g.blocks = function.blocks
    BY <1>1, <2>2, RemoveSuccessorArgumentIsExact
  <2> HIDE DEF into
  <2>9. IsWired(g, (into \ ToSet(s)) \cup {<<o, i>>}, removal.position)
    <3> HIDE DEF o, i, s
    <3> QED
      BY <1>0, <1>1, <2>2, <2>5, <2>6, RemoveSuccessorArgumentIsWired
  <2>10. (into \ ToSet(s)) \cup {<<o, i>>} = into \ ToSet(Tail(s))
    <3> HIDE DEF e, s
    <3> QED
      BY <2>3, <2>4
  <2>11. {"block", "index", "position", "edges"} \subseteq DOMAIN removal
    BY <1>0 DEF EdgeInv, OrderInv, EditorInv, RemovedIsUnread
  <2>12. /\ removal'.block = removal.block /\ removal'.index = removal.index
         /\ removal'.position = removal.position /\ removal'.edges = Tail(s)
    <3> HIDE DEF s
    <3> QED
      BY <2>1, <2>11
  <2>13. removal' # NoRemoval
    <3>1. removal.position \in DOMAIN function.blocks[removal.block].parameters
      BY <1>0 DEF ForwardedPositions
    <3>2. function.blocks[removal.block].parameters \in Seq(ToSet(function.blocks[removal.block].parameters))
      BY <1>0, <2>2 DEF IsOrderly, IsLaidOut, EdgeInv, OrderInv, RemovedIsParameter
    <3>3. removal.position # 0
      BY <3>1, <3>2, LenProperties
    <3> QED
      BY <2>12, <3>3 DEF NoRemoval
  <2>14. /\ ForwardedPositions(g, removal.block) = ForwardedPositions(function, removal.block)
         /\ HasForwarded(g, removal.block, removal.index)
    BY <1>0, <2>8 DEF ForwardedPositions, HasForwarded
  <2> HIDE DEF g, s, e, o, i
  <2>15. IsWired(g, into \ ToSet(Tail(s)), removal.position)
    BY <2>9, <2>10
  <2> DEFINE rest == Tail(s)
  <2>16. rest \in Seq(into) /\ \A m, n \in DOMAIN rest : rest[m] = rest[n] => m = n
    BY <2>3
  <2> HIDE DEF rest
  <2>17. removal'.edges = rest /\ IncomingEdges(function', removal'.block) = into
    BY <2>1, <2>7, <2>12 DEF rest
  <2>18. /\ removal'.position \in ForwardedPositions(function', removal'.block)
         /\ HasForwarded(function', removal'.block, removal'.index)
    BY <1>0, <2>1, <2>12, <2>14
  <2>19. IsWired(function', into \ ToSet(rest), removal'.position)
    BY <2>1, <2>12, <2>15 DEF rest
  <2> QED
    BY <2>13, <2>16, <2>17, <2>18, <2>19, Zenon DEF WiredInv, HalfRemoved
<1>2. CASE ~ CanRemoveSuccessorArgument(function, o, i, removal.index)
  <2>1. UNCHANGED <<function, removal>>
    BY <1>2 DEF RemoveArgument
  <2> QED
    BY <2>1 DEF EdgeInv, WiredInv, HalfRemoved
<1> QED
  BY <1>1, <1>2

\* All edges have lost it, and the parameter goes.
LEMMA EndRemovalKeepsEdges ==
  ASSUME EdgeInv, EndRemoval
  PROVE  WiredInv'
<1> DEFINE g == RemoveParameter(function, removal.block, removal.position)
           into == IncomingEdges(function, removal.block)
<1>1. function' = g /\ removal' = NoRemoval /\ removal # NoRemoval /\ removal.edges = <<>>
  BY DEF EndRemoval
<1>2. /\ removal.block \in DOMAIN function.blocks /\ IsOrderly(function)
      /\ IsWired(function, into \ ToSet(removal.edges), removal.position)
  BY <1>1 DEF EdgeInv, OrderInv, RemovedIsParameter, WiredInv, HalfRemoved
<1>3. into \ ToSet(removal.edges) = into
  BY <1>1 DEF ToSet
<1>4. IsWired(g, {}, 0)
  BY <1>2, <1>3, RemoveParameterIsWired
<1> HIDE DEF g
<1> QED
  BY <1>1, <1>4 DEF WiredInv, HalfRemoved

\* Every editor call keeps the edges fit, by the assertions it makes itself and
\* what the calls before it have left.
LEMMA EditKeepsEdges ==
  ASSUME EdgeInv, Edit
  PROVE  WiredInv'
<1>0. IsExact(function) /\ IsOrderly(function) /\ (removal = NoRemoval => IsWired(function, {}, 0))
  BY DEF EdgeInv, WiredInv, OrderInv, EditorInv
<1>1. CASE PerformReplaceAllUses
  <2>1. removal = NoRemoval
    BY <1>1 DEF PerformReplaceAllUses, Perform
  <2> QED
    BY <1>0, <1>1, <2>1, PerformKeepsEdges, ReplaceAllUsesIsWired DEF PerformReplaceAllUses
<1>2. CASE PerformRemoveOperations
  <2>1. removal = NoRemoval
    BY <1>2 DEF PerformRemoveOperations, Perform
  <2> QED
    BY <1>0, <1>2, <2>1, PerformKeepsEdges, RemoveOperationsIsWired DEF PerformRemoveOperations
<1>3. CASE PerformReplaceWithConstant
  <2>1. removal = NoRemoval
    BY <1>3 DEF PerformReplaceWithConstant, Perform
  <2> QED
    BY <1>0, <1>3, <2>1, PerformKeepsEdges, ReplaceWithConstantIsWired DEF PerformReplaceWithConstant
<1>4. CASE PerformReplaceIfWithJump
  <2>1. removal = NoRemoval
    BY <1>4 DEF PerformReplaceIfWithJump, Perform
  <2> QED
    BY <1>0, <1>4, <2>1, PerformKeepsEdges, ReplaceIfWithJumpIsWired DEF PerformReplaceIfWithJump
<1>5. CASE PerformReplaceSuccessor
  <2>1. removal = NoRemoval
    BY <1>5 DEF PerformReplaceSuccessor, Perform
  <2> QED
    BY <1>0, <1>5, <2>1, PerformKeepsEdges, ReplaceSuccessorIsWired DEF PerformReplaceSuccessor
<1>6. CASE PerformRemoveBlocks
  <2>1. removal = NoRemoval
    BY <1>6 DEF PerformRemoveBlocks, Perform
  <2> QED
    BY <1>0, <1>6, <2>1, PerformKeepsEdges, RemoveBlocksIsWired DEF PerformRemoveBlocks
<1>7. CASE PerformMergeBlock
  <2>1. removal = NoRemoval
    BY <1>7 DEF PerformMergeBlock, Perform
  <2> QED
    BY <1>0, <1>7, <2>1, PerformKeepsEdges, MergeBlockIsWired DEF PerformMergeBlock
<1>8. CASE BeginRemoval
  BY <1>8, BeginRemovalKeepsEdges
<1>9. CASE RemoveArgument
  BY <1>9, RemoveArgumentKeepsEdges
<1>10. CASE EndRemoval
  BY <1>10, EndRemovalKeepsEdges
<1> QED
  BY <1>1, <1>2, <1>3, <1>4, <1>5, <1>6, <1>7, <1>8, <1>9, <1>10 DEF Edit

\* So does every step of a pass.
LEMMA NextKeepsEdges == EdgeInv /\ [Next]_optimizeVars => EdgeInv'
<1> SUFFICES ASSUME EdgeInv, [Next]_optimizeVars PROVE EdgeInv'
  OBVIOUS
<1>0. OrderInv'
  BY NextKeepsOrder DEF EdgeInv
<1>1. CASE MakeCall
  BY <1>0, <1>1, EditKeepsEdges DEF MakeCall, EdgeInv
<1>2. CASE ~ MakeCall
  <2>1. UNCHANGED <<function, removal>>
    BY <1>2 DEF Next, optimizeVars, Rest, RunPass, PropagateConstants, FoldConstantIfs,
         PruneUnreachableBlocks, EliminateCommonSubexpressions, EliminateDeadCode,
         SimplifyControlFlow, StartSimplifyOperations, SimplifyOperation,
         StartSimplifyBlockParameters, SimplifyBlock, FinishWork
  <2> QED
    BY <1>0, <2>1 DEF EdgeInv, WiredInv, HalfRemoved
<1> QED
  BY <1>1, <1>2

\* A function comes to the passes with edges that fit.
LEMMA InitIsWired == Init => EdgeInv
<1> SUFFICES ASSUME Init PROVE EdgeInv
  OBVIOUS
<1>1. OrderInv
  BY InitIsOrderly
<1>2. IsFunction(function) /\ HasSuccessors(function) /\ EdgesAreFit(function)
  BY SourcesAreInOrder DEF IsInOrder, Init
<1>3. IsWired(function, {}, 0)
  BY <1>2, WiredIsFit
<1> QED
  BY <1>1, <1>3 DEF Init, EdgeInv, WiredInv, HalfRemoved

\* Whatever the passes ask of the editor, on whatever functions: the two ends of
\* every edge agree after every call, though the removal of a parameter goes
\* from edge to edge before it comes to the parameter.
THEOREM EdgesAlwaysFit == Spec => []EdgesFit
<1>1. EdgeInv => EdgesFit
  <2> SUFFICES ASSUME EdgeInv, IsSettled PROVE EdgesAreFit(function)
    BY DEF EdgesFit
  <2>1. IsFunction(function) /\ IsWired(function, {}, 0)
    BY DEF EdgeInv, OrderInv, EditorInv, IsExact, WiredInv, IsSettled
  <2> QED
    BY <2>1, WiredIsFit
<1> QED
  BY InitIsWired, NextKeepsEdges, <1>1, PTL DEF Spec

-----------------------------------------------------------------------------
(* Types                                                                   *)

\* The passes come one after the other.
IsAtAPass == stage \in 1..13 /\ panicked \in BOOLEAN

\* There are twelve of them, and then the end.
LEMMA PassesCounted ==
  /\ DOMAIN Stages = 1..13 /\ Len(Stages) = 13
  /\ \A n \in 1..12 : Stages[n] # "done"
  /\ Stages[13] = "done"
BY DEF Stages

\* No pass comes after the last.
LEMMA NextIsAtAPass == IsAtAPass /\ [Next]_optimizeVars => IsAtAPass'
<1> SUFFICES ASSUME IsAtAPass, [Next]_optimizeVars PROVE IsAtAPass'
  OBVIOUS
<1>1. Stages[stage] # "done" => stage + 1 \in 1..13
  BY PassesCounted DEF IsAtAPass
<1>2. CASE MakeCall
  BY <1>2 DEF MakeCall, IsAtAPass, Edit, Perform, PerformReplaceAllUses, PerformRemoveOperations,
    PerformReplaceWithConstant, PerformReplaceIfWithJump, PerformReplaceSuccessor,
    PerformRemoveBlocks, PerformMergeBlock, BeginRemoval, RemoveArgument, EndRemoval
<1>3. CASE ~ MakeCall
  <2>1. panicked' = panicked
    BY <1>3, Zenon DEF Next, optimizeVars, Rest, RunPass, PropagateConstants, FoldConstantIfs,
         PruneUnreachableBlocks, EliminateCommonSubexpressions, EliminateDeadCode,
         SimplifyControlFlow, StartSimplifyOperations, SimplifyOperation,
         StartSimplifyBlockParameters, SimplifyBlock, FinishWork
  <2>2. CASE \E pass, batch : RunPass(pass, batch) /\ pass # "done"
    BY <1>1, <2>1, <2>2 DEF RunPass, IsAtAPass
  <2>3. CASE UNCHANGED stage
    BY <2>1, <2>3 DEF IsAtAPass
  <2>4. CASE SimplifyControlFlow \/ StartSimplifyOperations \/ StartSimplifyBlockParameters \/ FinishWork
    <3>1. (stage' = stage \/ stage' = stage + 1) /\ Stages[stage] # "done"
      BY <2>4 DEF SimplifyControlFlow, StartSimplifyOperations, StartSimplifyBlockParameters, FinishWork
    <3> QED
      BY <1>1, <2>1, <3>1 DEF IsAtAPass
  <2> QED
    BY <1>3, <2>2, <2>3, <2>4 DEF Next, optimizeVars, Rest, PropagateConstants, FoldConstantIfs,
         PruneUnreachableBlocks, EliminateCommonSubexpressions, EliminateDeadCode,
         SimplifyOperation, SimplifyBlock
<1> QED
  BY <1>2, <1>3

\* Whatever the passes ask of the editor: operations are in blocks and these in
\* regions, an operation has its own operands at least, and what is left of a
\* removal are edges that the function still has.
THEOREM TypesAlwaysHold == Spec => []TypeOK
<1> DEFINE Inv == EdgeInv /\ IsAtAPass
<1>1. Inv => TypeOK
  <2> SUFFICES ASSUME EdgeInv, IsAtAPass PROVE TypeOK
    OBVIOUS
  <2>1. IsOrderly(function)
    BY DEF EdgeInv, OrderInv
  <2>2. PICK Lost, k : IsWired(function, Lost, k)
    BY DEF EdgeInv, WiredInv, HalfRemoved
  <2>3. ASSUME NEW o \in DOMAIN function.operations
        PROVE  function.operations[o].own <= Len(function.operations[o].operands)
    <3>1. /\ CountsArguments(function.operations[o])
          /\ Len(function.operations[o].operands)
               = FirstArgument(function.operations[o], Len(function.operations[o].targets) + 1)
      BY <2>2 DEF IsWired, IsWiredAt
    <3> QED
      BY <3>1, FirstArgumentHolds
  <2>4. /\ \A o \in DOMAIN function.operations : function.operations[o].block \in DOMAIN function.blocks
        /\ \A b \in DOMAIN function.blocks : function.blocks[b].region \in DOMAIN function.regions
    BY <2>1 DEF IsOrderly, PlacesAreExact
  <2>5. removal.edges \in Seq(Edges(function))
    <3>1. CASE removal = NoRemoval
      <4>1. removal.edges = <<>>
        BY <3>1 DEF NoRemoval
      <4> QED
        BY <4>1
    <3>2. CASE removal # NoRemoval
      <4> DEFINE into == IncomingEdges(function, removal.block)
                 E    == Edges(function)
                 s    == removal.edges
      <4>1. s \in Seq(into)
        BY <3>2 DEF EdgeInv, WiredInv, HalfRemoved
      <4>2. into \subseteq E
        BY DEF IncomingEdges
      <4> HIDE DEF into, E, s
      <4>3. s \in [1..Len(s) -> into] /\ Len(s) \in Nat
        BY <4>1, LenProperties
      <4>4. s \in [1..Len(s) -> E]
        BY <4>2, <4>3
      <4>5. s \in Seq(E)
        BY <4>3, <4>4
      <4> QED
        BY <4>5 DEF s, E
    <3> QED
      BY <3>1, <3>2
  <2>6. stage \in DOMAIN Stages /\ panicked \in BOOLEAN
    BY PassesCounted DEF IsAtAPass
  <2> QED
    BY <2>3, <2>4, <2>5, <2>6 DEF TypeOK
<1>2. Init => IsAtAPass
  <2> SUFFICES ASSUME Init PROVE IsAtAPass
    OBVIOUS
  <2>1. stage \in 1..13
    BY DEF Init
  <2>2. panicked \in BOOLEAN
    BY Zenon DEF Init
  <2> QED
    BY <2>1, <2>2 DEF IsAtAPass
<1> QED
  BY InitIsWired, NextKeepsEdges, NextIsAtAPass, <1>1, <1>2, PTL DEF Spec

-----------------------------------------------------------------------------
(* The removal of a parameter is never left half done                      *)

\* Where the two ends of an edge agree, it passes an argument for every
\* parameter that is forwarded.
LEMMA ForwardedCounted ==
  ASSUME NEW T, NEW p \in Seq(T), NEW op, NEW i, Agrees(op, i, p),
         op.targets[i].produced \in Nat, op.targets[i].count \in Nat
  PROVE  Cardinality({k \in DOMAIN p : p[k].source = Forwarded}) = op.targets[i].count
<1> DEFINE m      == op.targets[i].produced
           c      == op.targets[i].count
           source == ProducedSource(op, i)
           F      == {k \in DOMAIN p : p[k].source = Forwarded}
<1>1. /\ Len(p) = m + c /\ DOMAIN p = 1..(m + c)
      /\ \A k \in 1..(m + c) : p[k].source = IF k <= m THEN source ELSE Forwarded
  BY LenProperties DEF Agrees
<1>2. source # Forwarded
  BY DEF ProducedSource, Produced, Exception, Forwarded
<1>3. m \in Nat /\ c \in Nat
  OBVIOUS
<1> HIDE DEF m, c, source
<1>4. F = (m + 1)..(m + c)
  <2>1. \A k \in 1..(m + c) : p[k].source = Forwarded <=> ~ (k <= m)
    BY <1>1, <1>2
  <2>2. F = {k \in 1..(m + c) : ~ (k <= m)}
    BY <1>1, <2>1
  <2>3. {k \in 1..(m + c) : ~ (k <= m)} = (m + 1)..(m + c)
    BY <1>3
  <2> QED
    BY <2>2, <2>3
<1>5. Cardinality((m + 1)..(m + c)) = IF m + 1 > m + c THEN 0 ELSE (m + c) - (m + 1) + 1
  BY <1>3, FS_Interval
<1>6. Cardinality((m + 1)..(m + c)) = c
  BY <1>3, <1>5
<1> QED
  BY <1>4, <1>6 DEF c

\* An edge that the loop has not met yet can lose its argument.
LEMMA ArgumentCanGo ==
  ASSUME NEW f, IsExact(f), IsOrderly(f), NEW Lost, NEW k, IsWired(f, Lost, k),
         NEW o, NEW i, <<o, i>> \in Edges(f) \ Lost,
         NEW index, HasForwarded(f, Target(f, <<o, i>>), index)
  PROVE  CanRemoveSuccessorArgument(f, o, i, index)
<1> DEFINE op == f.operations[o]
           s  == op.operands
           b  == op.targets[i].block
           p  == f.blocks[b].parameters
           c  == op.targets[i].count
           at == FirstArgument(op, i) + index
<1>1. o \in DOMAIN f.operations /\ i \in DOMAIN op.targets
  BY DEF Edges, EdgesOf
<1>2. IsWiredAt(f, o, Lost, k)
  BY <1>1 DEF IsWired
<1>3. /\ CountsArguments(op) /\ s \in Seq(DOMAIN f.values)
      /\ Len(s) = FirstArgument(op, Len(op.targets) + 1)
      /\ op.targets[i].produced \in Nat /\ c \in Nat /\ b \in DOMAIN f.blocks
  BY <1>1, <1>2 DEF IsWiredAt, CountsArguments, IsOrderly, IsFunction
<1>4. index \in 1..c
  <2>1. Agrees(op, i, p)
    <3>1. Expected(f, o, i, Lost, k) = p
      BY DEF Expected
    <3> QED
      BY <1>1, <1>2, <3>1 DEF IsWiredAt
  <2>2. p \in Seq(ToSet(p))
    BY <1>3 DEF IsOrderly, IsLaidOut
  <2>3. ForwardedPositions(f, b) = {j \in DOMAIN p : p[j].source = Forwarded}
    BY DEF ForwardedPositions
  <2>4. index \in 1..Cardinality(ForwardedPositions(f, b))
    BY DEF HasForwarded, Target
  <2> HIDE DEF op, p, b
  <2>5. Cardinality({j \in DOMAIN p : p[j].source = Forwarded}) = c
    BY <1>3, <2>1, <2>2, ForwardedCounted
  <2> HIDE DEF c
  <2> QED
    BY <2>3, <2>4, <2>5
<1>5. at \in 1..Len(s) /\ DOMAIN s = 1..Len(s) /\ Len(s) \in Nat
  <2>1. RangeIsValid(op, i)
    BY <1>1, <1>3, ArgumentsCounted
  <2>2. FirstArgument(op, i) \in Nat /\ FirstArgument(op, i) + c <= Len(s)
    BY <2>1 DEF RangeIsValid
  <2>3. DOMAIN s = 1..Len(s) /\ Len(s) \in Nat
    BY <1>3, LenProperties
  <2> HIDE DEF op, s, c
  <2> QED
    BY <1>3, <1>4, <2>2, <2>3
<1>6. ListsWhatReads(f)
  BY ExactPointwise DEF IsExact
<1>7. ASSUME NEW j \in at..Len(s) PROVE s[j] \in DOMAIN f.uses /\ <<o, j>> \in f.uses[s[j]]
  <2>1. j \in DOMAIN s
    BY <1>5
  <2>2. s[j] \in DOMAIN f.values
    BY <1>3, <2>1, LenProperties
  <2>3. Reads(f, <<o, j>>, s[j])
    BY <1>1, <2>1 DEF Reads
  <2> QED
    BY <1>6, <2>2, <2>3 DEF ListsWhatReads
<1>8. IsAttached(f.uses, o, s, at)
  BY <1>7 DEF IsAttached
<1> QED
  BY <1>1, <1>4, <1>5, <1>8 DEF CanRemoveSuccessorArgument

\* Whatever the passes ask of the editor: a removal that has begun meets no
\* assertion that fails.
THEOREM RemovalsGoThrough == Spec => RemovalGoesThrough
<1>1. EdgeInv /\ [Next]_optimizeVars => [IsSettled \/ UNCHANGED panicked]_optimizeVars
  <2> SUFFICES ASSUME EdgeInv, Next, removal # NoRemoval PROVE panicked' = panicked
    BY DEF IsSettled
  <2>1. CASE RemoveArgument
    <3> DEFINE s    == removal.edges
               e    == Head(s)
               into == IncomingEdges(function, removal.block)
    <3>1. /\ s # <<>> /\ s \in Seq(into)
          /\ \A m, n \in DOMAIN s : s[m] = s[n] => m = n
          /\ HasForwarded(function, removal.block, removal.index)
          /\ IsWired(function, into \ ToSet(s), removal.position)
      BY <2>1 DEF RemoveArgument, EdgeInv, WiredInv, HalfRemoved
    <3>2. e \in into /\ e \in ToSet(s)
      <4> HIDE DEF s, into
      <4> QED
        BY <3>1, OneFewer DEF e
    <3>3. e \in Edges(function) /\ e = <<e[1], e[2]>> /\ Target(function, e) = removal.block
      BY <3>2 DEF IncomingEdges, Edges, EdgesOf
    <3>4. IsExact(function) /\ IsOrderly(function)
      BY DEF EdgeInv, OrderInv, EditorInv
    <3> HIDE DEF s, e, into
    <3>5. /\ <<e[1], e[2]>> \in Edges(function) \ (into \ ToSet(s))
          /\ HasForwarded(function, Target(function, <<e[1], e[2]>>), removal.index)
      BY <3>1, <3>2, <3>3
    <3>6. CanRemoveSuccessorArgument(function, e[1], e[2], removal.index)
      BY <3>1, <3>4, <3>5, ArgumentCanGo
    <3> QED
      BY <2>1, <3>6 DEF RemoveArgument, e, s
  <2>2. CASE ~ RemoveArgument
    BY <2>2 DEF Next, optimizeVars, Rest, RunPass, PropagateConstants, FoldConstantIfs,
         PruneUnreachableBlocks, EliminateCommonSubexpressions, EliminateDeadCode,
         SimplifyControlFlow, StartSimplifyOperations, SimplifyOperation,
         StartSimplifyBlockParameters, SimplifyBlock, FinishWork, IsIdle, MakeCall, Edit, Perform,
         PerformReplaceAllUses, PerformRemoveOperations, PerformReplaceWithConstant,
         PerformReplaceIfWithJump, PerformReplaceSuccessor, PerformRemoveBlocks,
         PerformMergeBlock, BeginRemoval, EndRemoval
  <2> QED
    BY <2>1, <2>2
<1> QED
  BY InitIsWired, NextKeepsEdges, <1>1, PTL DEF Spec, RemovalGoesThrough
=============================================================================
