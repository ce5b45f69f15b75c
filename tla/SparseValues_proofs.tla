------------------------ MODULE SparseValues_proofs ------------------------
(***************************************************************************)
(* The value analysis (crates/evrel-middle/src/js/analysis/function_value/)*)
(* finds the least solution of its equations, on every function that the   *)
(* passes of OptimizeFunction can bring about, given that it is in SSA form*)
(* (which SsaForm_proofs shows), and whatever the order in which its two   *)
(* worklists are served.  The parts are: facts and their order; the        *)
(* equations and their least solution; the worklists, what they owe and    *)
(* what they have told; the end of the loop; the order in which blocks     *)
(* read; and that every call of the editor keeps a function such that it   *)
(* can be analysed.                                                        *)
(***************************************************************************)
EXTENDS FunctionEditor_proofs

-----------------------------------------------------------------------------
(* Facts about values                                                      *)

\* b leaves open whatever a leaves open.
IsCovered(a, b) ==
  \/ a.types = {} \/ a = b
  \/ b.constant = NoConstant /\ a.types \subseteq b.types

\* A fact, taken apart.
LEMMA FactParts ==
  ASSUME NEW a
  PROVE  a \in AbstractValue <=>
           /\ a = [types |-> a.types, constant |-> a.constant]
           /\ a.types \in SUBSET ValueTypes
           /\ \/ a.constant = NoConstant
              \/ a.constant \in Constants /\ a.types = {ConstantType(a.constant)}
<1>1. ASSUME a \in AbstractValue
      PROVE  /\ a = [types |-> a.types, constant |-> a.constant]
             /\ a.types \in SUBSET ValueTypes
             /\ \/ a.constant = NoConstant
                \/ a.constant \in Constants /\ a.types = {ConstantType(a.constant)}
  <2>1. CASE \E T \in SUBSET ValueTypes : a = OfTypes(T)
    BY <2>1 DEF OfTypes
  <2>2. CASE \E c \in Constants : a = Exactly(c)
    BY <2>2 DEF Exactly, ConstantType, Constants, Numbers, ValueTypes
  <2> QED
    BY <1>1, <2>1, <2>2 DEF AbstractValue
<1>2. ASSUME a = [types |-> a.types, constant |-> a.constant], a.types \in SUBSET ValueTypes,
             \/ a.constant = NoConstant
             \/ a.constant \in Constants /\ a.types = {ConstantType(a.constant)}
      PROVE  a \in AbstractValue
  <2>1. CASE a.constant = NoConstant
    <3>1. a = OfTypes(a.types)
      BY <1>2, <2>1 DEF OfTypes
    <3> QED
      BY <1>2, <3>1 DEF AbstractValue
  <2>2. CASE a.constant \in Constants /\ a.types = {ConstantType(a.constant)}
    <3>1. a = Exactly(a.constant)
      BY <1>2, <2>2 DEF Exactly
    <3> QED
      BY <2>2, <3>1 DEF AbstractValue
  <2> QED
    BY <1>2, <2>1, <2>2
<1> QED
  BY <1>1, <1>2

\* There are finitely many facts.
LEMMA FactsAreFinite == IsFiniteSet(AbstractValue)
<1> DEFINE Pairs == (SUBSET ValueTypes) \X (Constants \cup {NoConstant})
           fact == [p \in Pairs |-> [types |-> p[1], constant |-> p[2]]]
<1>2. IsFiniteSet(ValueTypes)
  <2>1. ValueTypes = ((({} \cup {"boolean"}) \cup {"undefined"}) \cup {"number"}) \cup {"other"}
    BY DEF ValueTypes
  <2>2. \A S, x : IsFiniteSet(S) => IsFiniteSet(S \cup {x})
    BY FS_AddElement
  <2> QED
    BY <2>1, <2>2, FS_EmptySet
<1>3. IsFiniteSet(Constants \cup {NoConstant})
  <2>1. Constants \cup {NoConstant}
          = (((((({} \cup {"true"}) \cup {"false"}) \cup {"undefined"}) \cup {"zero"})
                 \cup {"one"}) \cup {"nan"}) \cup {NoConstant}
    BY DEF Constants
  <2>2. \A S, x : IsFiniteSet(S) => IsFiniteSet(S \cup {x})
    BY FS_AddElement
  <2> QED
    BY <2>1, <2>2, FS_EmptySet
<1>4. IsFiniteSet(SUBSET ValueTypes)
  BY <1>2, FS_SUBSET
<1>5. IsFiniteSet(Pairs)
  BY <1>3, <1>4, FS_Product
<1> DEFINE Image == {fact[p] : p \in Pairs}
<1>6. AbstractValue \subseteq Image
  <2> SUFFICES ASSUME NEW a \in AbstractValue PROVE \E p \in Pairs : a = fact[p]
    OBVIOUS
  <2>1. <<a.types, a.constant>> \in Pairs /\ a = fact[<<a.types, a.constant>>]
    BY FactParts
  <2> QED
    BY <2>1
<1>7. IsFiniteSet(Image)
  <2>1. fact \in Surjection(Pairs, Image)
    BY DEF Surjection
  <2> HIDE DEF fact, Pairs, Image
  <2> QED
    BY <1>5, <2>1, FS_Surjection
<1> HIDE DEF Image
<1> QED
  BY <1>6, <1>7, FS_Subset

\* No constant is "none".
LEMMA ConstantsAreSome == NoConstant \notin Constants
BY DEF NoConstant, Constants

\* AbstractValue are ordered by what they leave open.
LEMMA CoverIsOrder ==
  ASSUME NEW a \in AbstractValue, NEW b \in AbstractValue, NEW c \in AbstractValue
  PROVE  /\ IsCovered(a, a)
         /\ IsCovered(a, b) /\ IsCovered(b, c) => IsCovered(a, c)
         /\ IsCovered(a, b) /\ IsCovered(b, a) => a = b
<1>1. \A x \in AbstractValue :
        /\ x = [types |-> x.types, constant |-> x.constant] /\ x.types \in SUBSET ValueTypes
        /\ \/ x.constant = NoConstant
           \/ x.constant \in Constants /\ x.types = {ConstantType(x.constant)}
  BY FactParts, Zenon
<1>2. IsCovered(a, a)
  BY DEF IsCovered
<1>3. IsCovered(a, b) /\ IsCovered(b, c) => IsCovered(a, c)
  BY <1>1, ConstantsAreSome DEF IsCovered
<1>4. IsCovered(a, b) /\ IsCovered(b, a) => a = b
  BY <1>1, ConstantsAreSome DEF IsCovered
<1> QED
  BY <1>2, <1>3, <1>4

\* The join of two facts is the least fact that covers both.
LEMMA JoinHolds ==
  ASSUME NEW a \in AbstractValue, NEW b \in AbstractValue
  PROVE  /\ Join(a, b) \in AbstractValue
         /\ IsCovered(a, Join(a, b)) /\ IsCovered(b, Join(a, b))
         /\ \A c \in AbstractValue : IsCovered(a, c) /\ IsCovered(b, c) => IsCovered(Join(a, b), c)
         /\ IsCovered(b, a) => Join(a, b) = a
<1> DEFINE j == Join(a, b)
<1>0. /\ a = [types |-> a.types, constant |-> a.constant] /\ a.types \in SUBSET ValueTypes
      /\ \/ a.constant = NoConstant
         \/ a.constant \in Constants /\ a.types = {ConstantType(a.constant)}
      /\ b = [types |-> b.types, constant |-> b.constant] /\ b.types \in SUBSET ValueTypes
      /\ \/ b.constant = NoConstant
         \/ b.constant \in Constants /\ b.types = {ConstantType(b.constant)}
  BY FactParts
<1>1. CASE a.types = {}
  <2>1. j = b /\ a.constant = NoConstant
    BY <1>0, <1>1 DEF Join, IsBottom
  <2>2. IsCovered(b, a) => a = b
    BY <1>0, <1>1, <2>1 DEF IsCovered
  <2> QED
    BY <1>1, <2>1, <2>2 DEF IsCovered
<1>2. CASE a.types # {} /\ b.types = {}
  <2>1. j = a
    BY <1>2 DEF Join, IsBottom
  <2> QED
    BY <1>2, <2>1 DEF IsCovered
<1>3. CASE a.types # {} /\ b.types # {}
  <2>1. j = [types |-> a.types \cup b.types,
             constant |-> IF a.constant = b.constant THEN a.constant ELSE NoConstant]
    BY <1>3 DEF Join, IsBottom
  <2>2. CASE a.constant = b.constant /\ a.constant # NoConstant
    <3>1. a.types = b.types /\ a = b /\ j = a
      BY <1>0, <2>1, <2>2
    <3> QED
      BY <3>1 DEF IsCovered
  <2>3. CASE a.constant = NoConstant \/ b.constant = NoConstant \/ a.constant # b.constant
    <3>1. j = OfTypes(a.types \cup b.types)
      BY <2>1, <2>3 DEF OfTypes
    <3>2. j.types = a.types \cup b.types /\ j.constant = NoConstant
      BY <3>1 DEF OfTypes
    <3>3. j \in AbstractValue
      BY <1>0, <3>1 DEF AbstractValue
    <3>4. IsCovered(a, j) /\ IsCovered(b, j)
      BY <3>2 DEF IsCovered
    <3>5. ASSUME NEW c \in AbstractValue, IsCovered(a, c), IsCovered(b, c) PROVE IsCovered(j, c)
      <4>1. CASE c.constant = NoConstant
        BY <1>3, <3>2, <3>5, <4>1 DEF IsCovered
      <4>2. CASE c.constant # NoConstant
        <5>1. a = c /\ b = c
          BY <1>3, <3>5, <4>2 DEF IsCovered
        <5> QED
          BY <5>1, <2>3, <4>2
      <4> QED
        BY <4>1, <4>2
    <3>6. IsCovered(b, a) => j = a
      <4> SUFFICES ASSUME IsCovered(b, a) PROVE j = a
        OBVIOUS
      <4>1. CASE b = a
        <5>1. a.constant = NoConstant
          BY <4>1, <2>3
        <5> QED
          BY <1>0, <3>1, <4>1, <5>1 DEF OfTypes
      <4>2. CASE a.constant = NoConstant /\ b.types \subseteq a.types
        <5>1. a.types \cup b.types = a.types
          BY <4>2
        <5> QED
          BY <1>0, <3>1, <4>2, <5>1 DEF OfTypes
      <4> QED
        BY <1>3, <4>1, <4>2 DEF IsCovered
    <3> QED
      BY <3>3, <3>4, <3>5, <3>6, Zenon
  <2> QED
    BY <2>2, <2>3
<1> QED
  BY <1>1, <1>2, <1>3

\* The two ends of the order are facts.
LEMMA EndsAreFacts == Bottom \in AbstractValue /\ Unknown \in AbstractValue
<1>1. Bottom = OfTypes({}) /\ Unknown = OfTypes(ValueTypes)
  BY DEF Bottom, Unknown, OfTypes
<1> QED
  BY <1>1 DEF AbstractValue

\* Nothing is below Bottom, and nothing above Unknown.
LEMMA EndsHold ==
  ASSUME NEW a \in AbstractValue
  PROVE  /\ IsCovered(Bottom, a) /\ IsCovered(a, Unknown)
         /\ IsBottom(a) <=> a = Bottom
         /\ IsCovered(a, Bottom) <=> a = Bottom
         /\ IsCovered(Unknown, a) <=> a = Unknown
<1>0. /\ a = [types |-> a.types, constant |-> a.constant] /\ a.types \in SUBSET ValueTypes
      /\ \/ a.constant = NoConstant
         \/ a.constant \in Constants /\ a.types = {ConstantType(a.constant)}
  BY FactParts
<1>1. /\ Bottom.types = {} /\ Bottom.constant = NoConstant
      /\ Unknown.types = ValueTypes /\ Unknown.constant = NoConstant
  BY DEF Bottom, Unknown
<1>2. IsCovered(Bottom, a) /\ IsCovered(a, Unknown)
  BY <1>0, <1>1 DEF IsCovered
<1>3. a.types = {} => a = Bottom
  BY <1>0 DEF Bottom
<1>4. IsBottom(a) <=> a = Bottom
  BY <1>1, <1>3 DEF IsBottom
<1>5. IsCovered(a, Bottom) <=> a = Bottom
  BY <1>1, <1>3 DEF IsCovered
<1>6. IsCovered(Unknown, a) => a = Unknown
  <2> SUFFICES ASSUME IsCovered(Unknown, a), a # Unknown PROVE FALSE
    OBVIOUS
  <2>1. "boolean" \in ValueTypes
    BY DEF ValueTypes
  <2>2. a.constant = NoConstant /\ ValueTypes \subseteq a.types
    BY <1>1, <2>1 DEF IsCovered
  <2>3. a.types = ValueTypes
    BY <1>0, <2>2
  <2> QED
    BY <1>0, <2>2, <2>3 DEF Unknown
<1>7. a = Unknown => IsCovered(Unknown, a)
  BY DEF IsCovered
<1> QED
  BY <1>2, <1>4, <1>5, <1>6, <1>7

-----------------------------------------------------------------------------
(* Folds and loops                                                         *)

\* The largest of the first numbers.
LEMMA MaxHolds ==
  ASSUME NEW n \in Nat, NEW T \in SUBSET (1..n), T # {}
  PROVE  /\ Max(T) \in T /\ \A y \in T : Max(T) >= y
         /\ n \in T => Max(T) = n
<1> DEFINE Away == {n - x : x \in T}
<1>1. Away # {} /\ Away \subseteq Nat
  OBVIOUS
<1>2. PICK d \in Away : \A j \in Away : ~(<<j, d>> \in OpToRel(<, Nat))
  BY <1>1, NatLessThanWellFounded, WFMin
<1>3. ASSUME NEW j \in Away PROVE d <= j
  <2>1. j \in Nat /\ d \in Nat
    BY <1>1
  <2>2. j < d => <<j, d>> \in OpToRel(<, Nat)
    BY <2>1 DEF OpToRel
  <2>3. ~ (j < d)
    BY <1>2, <2>2
  <2> QED
    BY <2>1, <2>3
<1>4. PICK x \in T : d = n - x
  OBVIOUS
<1>5. ASSUME NEW y \in T PROVE x >= y
  <2>1. n - y \in Away /\ x \in 1..n /\ y \in 1..n
    OBVIOUS
  <2>2. n - x <= n - y
    BY <1>3, <1>4, <2>1
  <2> QED
    BY <2>1, <2>2
<1>6. Max(T) \in T /\ \A y \in T : Max(T) >= y
  BY <1>5 DEF Max
<1>7. ASSUME n \in T PROVE Max(T) = n
  <2>1. Max(T) \in 1..n /\ Max(T) >= n
    BY <1>6, <1>7
  <2> QED
    BY <2>1
<1> QED
  BY <1>6, <1>7

\* The first numbers without the last of them.
LEMMA FirstNumbers ==
  ASSUME NEW m \in Nat, NEW i \in 1..m
  PROVE  /\ 1..i \in SUBSET (1..m) /\ 1..i # {} /\ Max(1..i) = i
         /\ (1..i) \ {i} = 1..(i - 1) /\ i - 1 \in 0..m
<1>1. 1..i \in SUBSET (1..m) /\ i \in 1..i /\ (1..i) \ {i} = 1..(i - 1) /\ i - 1 \in 0..m
  OBVIOUS
<1>2. Max(1..i) = i
  <2>1. i \in Nat /\ 1..i \in SUBSET (1..i) /\ 1..i # {}
    BY <1>1
  <2> QED
    BY <1>1, <2>1, MaxHolds
<1> QED
  BY <1>1, <1>2

\* The loop over the largest number of a set, and then over the others.
IsFold(g, m, base, step) ==
  g = [T \in SUBSET (1..m) |->
         IF T = {} THEN base ELSE step[<<g[T \ {Max(T)}], Max(T)>>]]

\* The loop has a result for every set of the first m numbers.
LEMMA FoldExists ==
  ASSUME NEW m \in Nat, NEW S, NEW base \in S, NEW step \in [S \X (1..m) -> S]
  PROVE  \E g \in [SUBSET (1..m) -> S] : IsFold(g, m, base, step)
<1> DEFINE P == {n \in 0..m : \E g \in [SUBSET (1..n) -> S] : IsFold(g, n, base, step)}
<1>1. 0 \in P
  <2> DEFINE g == [T \in SUBSET (1..0) |-> base]
  <2>1. \A T \in SUBSET (1..0) : T = {}
    OBVIOUS
  <2>2. IsFold(g, 0, base, step) /\ g \in [SUBSET (1..0) -> S]
    BY <2>1 DEF IsFold
  <2> QED
    BY <2>2
<1>2. ASSUME NEW n \in 1..m, n - 1 \in P PROVE n \in P
  <2>1. PICK g \in [SUBSET (1..(n - 1)) -> S] : IsFold(g, n - 1, base, step)
    BY <1>2
  <2> DEFINE h == [T \in SUBSET (1..n) |-> IF n \in T THEN step[<<g[T \ {n}], n>>] ELSE g[T]]
  <2>2. \A T \in SUBSET (1..n) : T \ {n} \in SUBSET (1..(n - 1))
    OBVIOUS
  <2>3. \A T \in SUBSET (1..n) : n \notin T => T \in SUBSET (1..(n - 1))
    OBVIOUS
  <2>4. h \in [SUBSET (1..n) -> S]
    BY <2>1, <2>2, <2>3
  <2>5. ASSUME NEW T \in SUBSET (1..n)
        PROVE  h[T] = IF T = {} THEN base ELSE step[<<h[T \ {Max(T)}], Max(T)>>]
    <3>1. CASE n \in T
      <4>1. Max(T) = n
        BY <3>1, MaxHolds
      <4>2. T \ {n} \in SUBSET (1..n) /\ n \notin T \ {n}
        OBVIOUS
      <4>3. h[T \ {n}] = g[T \ {n}]
        BY <4>2
      <4> QED
        BY <3>1, <4>1, <4>3
    <3>2. CASE n \notin T
      <4>1. h[T] = g[T] /\ T \in SUBSET (1..(n - 1))
        BY <2>3, <3>2
      <4>2. g[T] = IF T = {} THEN base ELSE step[<<g[T \ {Max(T)}], Max(T)>>]
        BY <2>1, <4>1 DEF IsFold
      <4>3. T \ {Max(T)} \in SUBSET (1..n) /\ n \notin T \ {Max(T)}
        BY <3>2
      <4>4. h[T \ {Max(T)}] = g[T \ {Max(T)}]
        BY <4>3
      <4> QED
        BY <4>1, <4>2, <4>4
    <3> QED
      BY <3>1, <3>2
  <2> HIDE DEF h
  <2>6. h = [T \in SUBSET (1..n) |-> h[T]]
    BY <2>4
  <2>7. IsFold(h, n, base, step)
    BY <2>5, <2>6 DEF IsFold
  <2> QED
    BY <2>4, <2>7
<1> HIDE DEF P
<1>3. 0..m \subseteq P
  BY <1>1, <1>2, CountingUp
<1>4. m \in P
  BY <1>3
<1> QED
  BY <1>4 DEF P

\* The loop that joins the facts of a set.
IsJoin(g, S) ==
  g = [T \in SUBSET S |->
         IF T = {} THEN Bottom
         ELSE LET x == CHOOSE x \in T : TRUE IN Join(x, g[T \ {x}])]

\* What a set has without an arbitrary member.
LEMMA OneTaken ==
  ASSUME NEW T, IsFiniteSet(T), T # {}
  PROVE  LET x == CHOOSE x \in T : TRUE
         IN  x \in T /\ IsFiniteSet(T \ {x}) /\ Cardinality(T \ {x}) = Cardinality(T) - 1
                     /\ Cardinality(T) \in Nat /\ Cardinality(T) >= 1
<1> DEFINE x == CHOOSE x \in T : TRUE
<1>1. x \in T
  OBVIOUS
<1> HIDE DEF x
<1>2. IsFiniteSet(T \ {x}) /\ Cardinality(T \ {x}) = Cardinality(T) - 1
  BY <1>1, FS_RemoveElement
<1>3. Cardinality(T) \in Nat /\ Cardinality(T \ {x}) \in Nat
  BY <1>2, FS_CardinalityType
<1> QED
  BY <1>1, <1>2, <1>3 DEF x

\* The loop has a result for every set of facts.
LEMMA JoinExists ==
  ASSUME NEW S \in SUBSET AbstractValue
  PROVE  \E g : IsJoin(g, S)
<1> DEFINE Small(n) == {T \in SUBSET S : Cardinality(T) <= n}
           Picked(T) == CHOOSE x \in T : TRUE
           Body(g, T) == IF T = {} THEN Bottom ELSE Join(Picked(T), g[T \ {Picked(T)}])
           m == Cardinality(S)
           P == {n \in 0..m : \E g : g = [T \in Small(n) |-> Body(g, T)]}
<1>0. IsFiniteSet(S) /\ m \in Nat /\ \A T \in SUBSET S : IsFiniteSet(T) /\ Cardinality(T) \in 0..m
  BY FactsAreFinite, FS_Subset, FS_CardinalityType
<1>1. \A T \in SUBSET S : T # {} =>
        /\ Picked(T) \in T /\ T \ {Picked(T)} \in SUBSET S
        /\ Cardinality(T \ {Picked(T)}) = Cardinality(T) - 1 /\ Cardinality(T) >= 1
  <2> SUFFICES ASSUME NEW T \in SUBSET S, T # {}
               PROVE  /\ Picked(T) \in T /\ T \ {Picked(T)} \in SUBSET S
                      /\ Cardinality(T \ {Picked(T)}) = Cardinality(T) - 1 /\ Cardinality(T) >= 1
    OBVIOUS
  <2>1. IsFiniteSet(T)
    BY <1>0
  <2> QED
    BY <2>1, OneTaken, Zenon
<1> HIDE DEF Picked, m
<1>2. 0 \in P
  <2> DEFINE g == [T \in Small(0) |-> Bottom]
  <2>1. \A T \in Small(0) : T = {}
    BY <1>0, FS_EmptySet
  <2>2. g = [T \in Small(0) |-> Body(g, T)]
    BY <2>1
  <2>3. \E f : f = [T \in Small(0) |-> Body(f, T)]
    <3> HIDE DEF g, Small, Body
    <3> QED
      BY <2>2, Zenon
  <2> HIDE DEF Small, Body
  <2> QED
    BY <1>0, <2>3
<1>3. ASSUME NEW n \in 1..m, n - 1 \in P PROVE n \in P
  <2>1. PICK g : g = [T \in Small(n - 1) |-> Body(g, T)]
    BY <1>3
  <2> DEFINE h == [T \in Small(n) |-> Body(g, T)]
             r == [T \in Small(n) |-> Body(h, T)]
  <2>2. ASSUME NEW T \in Small(n), T # {}
        PROVE  h[T \ {Picked(T)}] = g[T \ {Picked(T)}]
    <3> DEFINE U == T \ {Picked(T)}
    <3>1. U \in Small(n - 1) /\ U \in Small(n)
      BY <1>0, <1>1, <2>2
    <3>2. h[U] = Body(g, U) /\ g[U] = Body(g, U)
      <4> HIDE DEF Body, Small, U
      <4>1. h[U] = Body(g, U)
        BY <3>1
      <4>2. g[U] = Body(g, U)
        <5> DEFINE k == [X \in Small(n - 1) |-> Body(g, X)]
        <5>1. k[U] = Body(g, U)
          BY <3>1
        <5> HIDE DEF k
        <5>2. g = k
          BY <2>1 DEF k
        <5> QED
          BY <5>1, <5>2
      <4> QED
        BY <4>1, <4>2
    <3> QED
      BY <3>2
  <2>3. \A T \in Small(n) : Body(g, T) = Body(h, T)
    <3> HIDE DEF h, Small
    <3> QED
      BY <2>2
  <2>4. h = r
    <3> HIDE DEF Body, Small
    <3>1. r = [T \in Small(n) |-> Body(g, T)]
      BY <2>3, Zenon
    <3> QED
      BY <3>1, Zenon
  <2>5. \E f : f = [T \in Small(n) |-> Body(f, T)]
    <3> HIDE DEF h
    <3> QED
      BY <2>4, Zenon
  <2> HIDE DEF Small, Body
  <2> QED
    BY <2>5
<1>4. m \in P
  <2> HIDE DEF P
  <2>1. 0..m \subseteq P
    BY <1>0, <1>2, <1>3, CountingUp
  <2> QED
    BY <1>0, <2>1
<1>5. Small(m) = SUBSET S
  BY <1>0
<1>6. PICK g : g = [T \in Small(m) |-> Body(g, T)]
  BY <1>4
<1>7. g = [T \in SUBSET S |-> Body(g, T)]
  <2> HIDE DEF Body, Small
  <2> QED
    BY <1>5, <1>6
<1>8. IsJoin(g, S)
  BY <1>7, Zenon DEF IsJoin, Picked
<1> QED
  BY <1>8

\* The join of a set of facts is the least fact that covers them all.
LEMMA JoinAllHolds ==
  ASSUME NEW S \in SUBSET AbstractValue
  PROVE  /\ JoinAll(S) \in AbstractValue
         /\ \A a \in S : IsCovered(a, JoinAll(S))
         /\ \A c \in AbstractValue : (\A a \in S : IsCovered(a, c)) => IsCovered(JoinAll(S), c)
<1> DEFINE g == CHOOSE g : IsJoin(g, S)
           m == Cardinality(S)
           IsLeast(T) == /\ g[T] \in AbstractValue
                         /\ \A a \in T : IsCovered(a, g[T])
                         /\ \A c \in AbstractValue :
                              (\A a \in T : IsCovered(a, c)) => IsCovered(g[T], c)
           P == {n \in 0..m : \A T \in SUBSET S : Cardinality(T) <= n => IsLeast(T)}
<1>1. JoinAll(S) = g[S]
  BY Zenon DEF JoinAll, FoldSet, MapThenFoldSet, IsJoin
<1>2. IsJoin(g, S)
  BY JoinExists
<1> HIDE DEF g
<1>0. IsFiniteSet(S) /\ m \in Nat /\ \A T \in SUBSET S : IsFiniteSet(T) /\ Cardinality(T) \in 0..m
  BY FactsAreFinite, FS_Subset, FS_CardinalityType
<1>3. g[{}] = Bottom
  BY <1>2 DEF IsJoin
<1>4. ASSUME NEW T \in SUBSET S, T # {}
      PROVE  \E x \in T : /\ g[T] = Join(x, g[T \ {x}])
                          /\ Cardinality(T \ {x}) = Cardinality(T) - 1
  <2> DEFINE x == CHOOSE x \in T : TRUE
  <2>1. x \in T /\ Cardinality(T \ {x}) = Cardinality(T) - 1
    <3>1. IsFiniteSet(T)
      BY <1>0
    <3> QED
      BY <1>4, <3>1, OneTaken, Zenon
  <2>2. g[T] = Join(x, g[T \ {x}])
    BY <1>2, <1>4 DEF IsJoin
  <2> HIDE DEF x
  <2> QED
    BY <2>1, <2>2
<1>5. 0 \in P
  <2> SUFFICES ASSUME NEW T \in SUBSET S, Cardinality(T) <= 0 PROVE IsLeast(T)
    BY <1>0
  <2>1. T = {}
    BY <1>0, FS_EmptySet
  <2> QED
    BY <1>3, <2>1, EndsAreFacts, EndsHold
<1>6. ASSUME NEW n \in 1..m, n - 1 \in P PROVE n \in P
  <2> SUFFICES ASSUME NEW T \in SUBSET S, Cardinality(T) <= n PROVE IsLeast(T)
    BY <1>6
  <2>1. CASE T = {}
    BY <1>3, <2>1, EndsAreFacts, EndsHold
  <2>2. CASE T # {}
    <3>1. PICK x \in T : g[T] = Join(x, g[T \ {x}]) /\ Cardinality(T \ {x}) = Cardinality(T) - 1
      BY <1>4, <2>2
    <3>2. Cardinality(T) \in 0..m /\ Cardinality(T) - 1 <= n - 1 /\ T \ {x} \in SUBSET S
      BY <1>0
    <3>3. IsLeast(T \ {x})
      BY <1>6, <3>1, <3>2
    <3> DEFINE y == g[T \ {x}]
    <3>4. y \in AbstractValue /\ x \in AbstractValue /\ \A a \in T \ {x} : IsCovered(a, y)
      BY <3>3
    <3>5. \A c \in AbstractValue : (\A a \in T \ {x} : IsCovered(a, c)) => IsCovered(y, c)
      BY <3>3
    <3> HIDE DEF y
    <3>6. /\ Join(x, y) \in AbstractValue
          /\ IsCovered(x, Join(x, y)) /\ IsCovered(y, Join(x, y))
          /\ \A c \in AbstractValue : IsCovered(x, c) /\ IsCovered(y, c) => IsCovered(Join(x, y), c)
      BY <3>4, JoinHolds, Zenon
    <3>7. g[T] = Join(x, y)
      BY <3>1 DEF y
    <3>8. \A a \in T : IsCovered(a, Join(x, y))
      <4> TAKE a \in T
      <4>1. CASE a = x
        BY <3>6, <4>1
      <4>2. CASE a # x
        <5>1. IsCovered(a, y) /\ a \in AbstractValue
          BY <3>4, <4>2
        <5> QED
          BY <3>4, <3>6, <5>1, CoverIsOrder, Zenon
      <4> QED
        BY <4>1, <4>2
    <3>9. \A c \in AbstractValue : (\A a \in T : IsCovered(a, c)) => IsCovered(Join(x, y), c)
      BY <3>5, <3>6
    <3> QED
      BY <3>6, <3>7, <3>8, <3>9, Zenon
  <2> QED
    BY <2>1, <2>2
<1>7. m \in P
  <2> HIDE DEF P
  <2>1. 0..m \subseteq P
    BY <1>0, <1>5, <1>6, CountingUp
  <2> QED
    BY <1>0, <2>1
<1>8. IsLeast(S)
  BY <1>0, <1>7
<1> QED
  BY <1>1, <1>8, Zenon

\* The loop that steps from state to state until it may stop.
IsLoop(h, S, Stop, step) == h = [s \in S |-> IF s \in Stop THEN s ELSE h[step[s]]]

\* Such a loop is a function, whether it ends or not.
LEMMA LoopExists ==
  ASSUME NEW S, NEW Stop \in SUBSET S, NEW step \in [S -> S]
  PROVE  \E h : IsLoop(h, S, Stop, step)
<1> DEFINE IsClosed(R) == /\ \A s \in Stop : <<s, s>> \in R
                          /\ \A s \in S \ Stop, y \in S : <<step[s], y>> \in R => <<s, y>> \in R
           E == {p \in S \X S : \A R \in SUBSET (S \X S) : IsClosed(R) => p \in R}
           Ends(s) == {y \in S : <<s, y>> \in E}
           h == [s \in S |-> CHOOSE y : y \in Ends(s)]
<1>1. IsClosed(E)
  OBVIOUS
<1>2. ASSUME NEW s \in Stop PROVE Ends(s) = {s}
  <2> DEFINE R == {p \in S \X S : p[1] = s => p[2] = s}
  <2>1. IsClosed({p \in E : p[1] = s => p[2] = s})
    <3> DEFINE Q == {p \in E : p[1] = s => p[2] = s}
    <3>1. ASSUME NEW t \in Stop PROVE <<t, t>> \in Q
      <4>1. <<t, t>> \in E
        BY <1>1
      <4> HIDE DEF E
      <4> QED
        BY <4>1
    <3>2. ASSUME NEW t \in S \ Stop, NEW y \in S, <<step[t], y>> \in Q PROVE <<t, y>> \in Q
      <4>1. <<t, y>> \in E /\ t # s
        BY <1>1, <3>2
      <4> HIDE DEF E
      <4> QED
        BY <4>1
    <3> QED
      BY <3>1, <3>2
  <2>2. {p \in E : p[1] = s => p[2] = s} \in SUBSET (S \X S)
    OBVIOUS
  <2>3. \A y \in S : <<s, y>> \in E => y = s
    BY <2>1, <2>2
  <2>4. <<s, s>> \in E
    BY <1>1
  <2> HIDE DEF E
  <2> QED
    BY <2>3, <2>4
<1>3. ASSUME NEW s \in S \ Stop PROVE Ends(s) = Ends(step[s])
  <2>1. ASSUME NEW y \in S, <<step[s], y>> \in E PROVE <<s, y>> \in E
    BY <1>1, <2>1
  <2>2. ASSUME NEW y \in S, <<s, y>> \in E, <<step[s], y>> \notin E PROVE FALSE
    <3> DEFINE Q == E \ {<<s, y>>}
    <3>1. Q \in SUBSET (S \X S)
      OBVIOUS
    <3>2. ASSUME NEW t \in Stop PROVE <<t, t>> \in Q
      <4>1. <<t, t>> \in E
        BY <1>1
      <4> HIDE DEF E
      <4> QED
        BY <4>1
    <3>3. ASSUME NEW t \in S \ Stop, NEW z \in S, <<step[t], z>> \in Q PROVE <<t, z>> \in Q
      <4>1. <<step[t], z>> \in E
        BY <3>3
      <4>2. <<t, z>> \in E
        BY <1>1, <4>1
      <4> HIDE DEF E
      <4> QED
        BY <2>2, <4>1, <4>2
    <3>4. IsClosed(Q)
      BY <3>2, <3>3
    <3>5. <<s, y>> \in Q
      <4> HIDE DEF Q, IsClosed
      <4> QED
        BY <2>2, <3>1, <3>4
    <3> QED
      BY <3>5
  <2> HIDE DEF E
  <2> QED
    BY <2>1, <2>2
<1> HIDE DEF Ends
<1>4. ASSUME NEW s \in S PROVE h[s] = IF s \in Stop THEN s ELSE h[step[s]]
  <2>1. CASE s \in Stop
    <3>1. h[s] = CHOOSE y : y \in {s}
      BY <1>2, <2>1
    <3> QED
      BY <2>1, <3>1
  <2>2. CASE s \notin Stop
    BY <1>3, <2>2
  <2> QED
    BY <2>1, <2>2
<1>5. h = [s \in S |-> h[s]]
  OBVIOUS
<1> HIDE DEF h
<1>6. IsLoop(h, S, Stop, step)
  BY <1>4, <1>5 DEF IsLoop
<1> QED
  BY <1>6

\* A set of numbers has a least one.
LEMMA LeastNumber ==
  ASSUME NEW N \in SUBSET Nat, N # {}
  PROVE  \E n \in N : \A m \in N : n <= m
<1>1. PICK n \in N : \A m \in N : ~(<<m, n>> \in OpToRel(<, Nat))
  BY NatLessThanWellFounded, WFMin
<1>2. ASSUME NEW m \in N PROVE n <= m
  <2>1. m \in Nat /\ n \in Nat
    OBVIOUS
  <2>2. m < n => <<m, n>> \in OpToRel(<, Nat)
    BY <2>1 DEF OpToRel
  <2>3. ~ (m < n)
    BY <1>1, <2>2
  <2> QED
    BY <2>1, <2>3
<1> QED
  BY <1>2

\* A loop whose every step narrows a gap, or leaves it and shortens the work,
\* ends where it may stop.
LEMMA LoopEnds ==
  ASSUME NEW S, NEW Stop \in SUBSET S, NEW step \in [S -> S], NEW h, IsLoop(h, S, Stop, step),
         NEW Kept \in SUBSET S, NEW gap \in [Kept -> Nat], NEW left \in [Kept -> Nat],
         \A s \in Kept \ Stop :
           /\ step[s] \in Kept
           /\ \/ gap[step[s]] < gap[s]
              \/ gap[step[s]] = gap[s] /\ left[step[s]] < left[s]
  PROVE  \A s \in Kept : h[s] \in Kept /\ h[s] \in Stop
<1> DEFINE Bad == {s \in Kept : ~ (h[s] \in Kept /\ h[s] \in Stop)}
<1> SUFFICES ASSUME Bad # {} PROVE FALSE
  OBVIOUS
<1> DEFINE Gaps == {gap[s] : s \in Bad}
<1>1. Gaps \in SUBSET Nat /\ Gaps # {}
  OBVIOUS
<1>2. PICK d \in Gaps : \A c \in Gaps : d <= c
  BY <1>1, LeastNumber
<1> DEFINE Nearest == {s \in Bad : gap[s] = d}
           Lengths == {left[s] : s \in Nearest}
<1>3. Lengths \in SUBSET Nat /\ Lengths # {}
  OBVIOUS
<1>4. PICK e \in Lengths : \A c \in Lengths : e <= c
  <2> HIDE DEF Lengths
  <2> QED
    BY <1>3, LeastNumber
<1>5. PICK s \in Nearest : left[s] = e
  OBVIOUS
<1>6. s \in S /\ h[s] = IF s \in Stop THEN s ELSE h[step[s]]
  BY DEF IsLoop
<1>7. s \notin Stop
  BY <1>6
<1>8. step[s] \in Bad
  BY <1>6, <1>7
<1>9. gap[step[s]] \in Gaps /\ gap[step[s]] \in Nat /\ d \in Nat /\ gap[s] = d
  BY <1>8
<1>10. gap[step[s]] = d /\ left[step[s]] < e
  <2>1. d <= gap[step[s]]
    BY <1>2, <1>9
  <2>2. \/ gap[step[s]] < gap[s]
        \/ gap[step[s]] = gap[s] /\ left[step[s]] < left[s]
    BY <1>7
  <2> QED
    BY <1>5, <1>9, <2>1, <2>2
<1>11. left[step[s]] \in Lengths /\ left[step[s]] \in Nat /\ e \in Nat
  BY <1>3, <1>8, <1>10
<1>12. e <= left[step[s]]
  BY <1>4, <1>11
<1> QED
  BY <1>10, <1>11, <1>12

-----------------------------------------------------------------------------
(* What the analysis finds in a function                                   *)

\* An operation reads values, has the operands its kind asks for, and is in a
\* block.
IsFitAt(f, op) ==
  /\ Len(op.operands) \in Nat /\ DOMAIN op.operands = 1..Len(op.operands)
  /\ \A i \in DOMAIN op.operands : op.operands[i] \in DOMAIN f.values
  /\ Arity(op.kind) <= Len(op.operands)
  /\ op.kind = "Constant" => op.detail \in Constants
  /\ op.kind \in ConditionalBranch => DOMAIN op.targets = 1..2
  /\ op.block \in DOMAIN f.blocks /\ op.block # None
  /\ Len(op.results) \in Nat /\ DOMAIN op.results = 1..Len(op.results)
  /\ \A i \in DOMAIN op.results : op.results[i] \in DOMAIN f.values
  /\ Len(op.targets) \in Nat /\ DOMAIN op.targets = 1..Len(op.targets)

\* So are all operations of a function in order.
LEMMA OperationsAreFit ==
  ASSUME NEW f, IsInOrder(f), NEW o \in DOMAIN f.operations
  PROVE  IsFitAt(f, f.operations[o])
<1> DEFINE op == f.operations[o]
<1>1. /\ Len(op.operands) \in Nat /\ DOMAIN op.operands = 1..Len(op.operands)
      /\ \A i \in DOMAIN op.operands : op.operands[i] \in DOMAIN f.values
  BY OperandsAreValues DEF IsInOrder
<1>2. /\ Arity(op.kind) <= op.own
      /\ op.kind = "Constant" => op.detail \in Constants
      /\ op.kind \in ConditionalBranch => Len(op.targets) = 2
      /\ op.results \in Seq(DOMAIN f.values)
  BY DEF IsInOrder, IsAnalysable
<1>3. CountsArguments(op) /\ op.targets \in Seq(ToSet(op.targets))
  BY DEF IsInOrder, HasSuccessors, CountsArguments
<1>4. op.own \in Nat /\ op.own <= FirstArgument(op, Len(op.targets) + 1)
  BY <1>3, FirstArgumentHolds DEF CountsArguments
<1>5. Len(op.operands) = FirstArgument(op, Len(op.targets) + 1)
  BY DEF IsInOrder, EdgesAreFit
<1>6. Arity(op.kind) <= Len(op.operands)
  <2>1. Arity(op.kind) \in Nat
    BY DEF Arity
  <2> HIDE DEF op
  <2> QED
    BY <1>1, <1>2, <1>4, <1>5, <2>1
<1>7. op.block \in DOMAIN f.blocks /\ op.block # None
  BY DEF IsInOrder, PlacesAreExact, IsAnalysable
<1>8. Len(op.targets) \in Nat /\ DOMAIN op.targets = 1..Len(op.targets)
  BY <1>3, LenProperties
<1>9. /\ Len(op.results) \in Nat /\ DOMAIN op.results = 1..Len(op.results)
      /\ \A i \in DOMAIN op.results : op.results[i] \in DOMAIN f.values
  BY <1>2, LenProperties
<1> HIDE DEF op
<1>10. op.kind \in ConditionalBranch => DOMAIN op.targets = 1..2
  BY <1>2, <1>8
<1>11. op.kind = "Constant" => op.detail \in Constants
  BY <1>2
<1>12. IsFitAt(f, op)
  BY <1>1, <1>6, <1>7, <1>8, <1>9, <1>10, <1>11, Zenon DEF IsFitAt
<1> QED
  BY <1>12 DEF op

\* An edge leads from an operation to a block, and what it passes are operands
\* of the operation, one for every parameter that is not produced.
LEMMA EdgesAreEnds ==
  ASSUME NEW f, IsInOrder(f), NEW e \in Edges(f)
  PROVE  /\ e[1] \in DOMAIN f.operations /\ e[2] \in DOMAIN f.operations[e[1]].targets
         /\ e = <<e[1], e[2]>>
         /\ Target(f, e) \in DOMAIN f.blocks
         /\ f.blocks[Source(f, e)].region = f.blocks[Target(f, e)].region
         /\ ProducedCount(f, e) \in Nat
         /\ \A k \in DOMAIN f.blocks[Target(f, e)].parameters : k > ProducedCount(f, e) =>
              \E i \in DOMAIN f.operations[e[1]].operands :
                EdgeArguments(f, e)[k - ProducedCount(f, e)] = f.operations[e[1]].operands[i]
<1>1. /\ e[1] \in DOMAIN f.operations /\ e[2] \in DOMAIN f.operations[e[1]].targets
      /\ e = <<e[1], e[2]>>
  BY DEF Edges, EdgesOf
<1> DEFINE op == f.operations[e[1]]
           i == e[2]
           s == op.operands
           first == FirstArgument(op, i)
           c == op.targets[i].count
           n == ProducedCount(f, e)
           parameters == f.blocks[Target(f, e)].parameters
<1>2. CountsArguments(op) /\ n \in Nat
  BY <1>1 DEF IsInOrder, HasSuccessors, CountsArguments, ProducedCount
<1>3. /\ Target(f, e) \in DOMAIN f.blocks
      /\ f.blocks[Source(f, e)].region = f.blocks[Target(f, e)].region
      /\ FitsTarget(f, op, i, Target(f, e), Len(EdgeArguments(f, e)))
      /\ Len(s) = FirstArgument(op, Len(op.targets) + 1)
  BY <1>1 DEF IsInOrder, EdgesAreFit
<1>4. s \in Seq(DOMAIN f.values)
  BY <1>1 DEF IsInOrder, IsFunction
<1>5. RangeIsValid(op, i) /\ Len(Arguments(op, i)) = c
  BY <1>1, <1>2, <1>3, <1>4, ArgumentsCounted
<1>6. EdgeArguments(f, e) = Arguments(op, i) /\ Arguments(op, i) = SubSeq(s, first + 1, first + c)
  BY DEF EdgeArguments, Arguments
<1>7. Len(parameters) = n + c /\ parameters \in Seq(ToSet(parameters))
  BY <1>3, <1>5, <1>6 DEF FitsTarget, ProducedCount, IsInOrder, IsLaidOut
<1>8. first \in Nat /\ c \in Nat /\ first + c <= Len(s) /\ Len(s) \in Nat /\ DOMAIN s = 1..Len(s)
  BY <1>1, <1>4, <1>5, LenProperties DEF RangeIsValid
<1>9. DOMAIN parameters = 1..(n + c)
  BY <1>7, LenProperties
<1> HIDE DEF s, first, c, n, parameters
<1>10. ASSUME NEW k \in DOMAIN parameters, k > n
       PROVE  \E j \in DOMAIN s : SubSeq(s, first + 1, first + c)[k - n] = s[j]
  <2>1. k - n \in 1..c
    BY <1>2, <1>8, <1>9, <1>10
  <2>2. first + (k - n) \in DOMAIN s
    BY <1>8, <2>1
  <2>3. SubSeq(s, first + 1, first + c)[k - n] = s[first + (k - n)]
    <3> DEFINE j == k - n
    <3>1. j \in 1..c
      BY <2>1
    <3> HIDE DEF j
    <3>2. \A x \in (first + 1)..(first + c) : s[x] \in DOMAIN f.values
      BY <1>4, <1>8, LenProperties
    <3>3. first + 1 + j - 1 = first + j /\ j \in 1..(first + c - (first + 1) + 1)
      BY <1>8, <3>1
    <3>4. SubSeq(s, first + 1, first + c)[j] = s[first + j]
      BY <1>8, <3>2, <3>3, SubSeqProperties
    <3> QED
      BY <3>4 DEF j
  <2> QED
    BY <2>2, <2>3
<1> QED
  BY <1>1, <1>2, <1>3, <1>6, <1>10 DEF s, n, parameters

\* The facts of an analysis are about the function.
IsAnalysis(f, a) ==
  /\ \A v \in DOMAIN f.values : a.values[v] \in AbstractValue
  /\ a.blocks \subseteq DOMAIN f.blocks /\ a.edges \subseteq Edges(f)

\* b leaves open whatever a leaves open.
IsWithin(f, a, b) ==
  /\ \A v \in DOMAIN f.values : IsCovered(a.values[v], b.values[v])
  /\ a.blocks \subseteq b.blocks /\ a.edges \subseteq b.edges

\* A fact about booleans is covered by the fact that it is a boolean.
LEMMA BooleansAreCovered ==
  ASSUME NEW b \in BOOLEAN, NEW a \in AbstractValue
  PROVE  /\ Exactly(BooleanConstant(b)) \in AbstractValue /\ OfTypes({"boolean"}) \in AbstractValue
         /\ IsCovered(Exactly(BooleanConstant(b)), OfTypes({"boolean"}))
         /\ IsCovered(a, a)
<1>1. BooleanConstant(b) \in Constants /\ ConstantType(BooleanConstant(b)) = "boolean"
  <2>1. CASE b
    BY <2>1 DEF BooleanConstant, Constants, ConstantType, Numbers
  <2>2. CASE ~ b
    BY <2>2 DEF BooleanConstant, Constants, ConstantType, Numbers
  <2> QED
    BY <2>1, <2>2
<1>2. {"boolean"} \in SUBSET ValueTypes
  BY DEF ValueTypes
<1>3. Exactly(BooleanConstant(b)) \in AbstractValue /\ OfTypes({"boolean"}) \in AbstractValue
  BY <1>1, <1>2 DEF AbstractValue
<1> QED
  BY <1>1, <1>3, CoverIsOrder DEF IsCovered, Exactly, OfTypes

\* The more open the operands, the more open the result, where all have values.
LEMMA EvaluateOfSome ==
  ASSUME NEW op, op.kind = "Constant" => op.detail \in Constants,
         NEW n \in Nat, Arity(op.kind) <= n,
         NEW x \in [1..n -> AbstractValue], NEW y \in [1..n -> AbstractValue],
         \A i \in 1..n : IsCovered(x[i], y[i]) /\ ~ IsBottom(x[i]) /\ ~ IsBottom(y[i])
  PROVE  /\ EvaluateResult(op, x) \in AbstractValue
         /\ IsCovered(EvaluateResult(op, x), EvaluateResult(op, y))
<1> DEFINE X == EvaluateResult(op, x)
           Y == EvaluateResult(op, y)
           k == op.kind
<1>4. OfTypes({"boolean"}) \in AbstractValue /\ OfTypes({"number"}) \in AbstractValue
  <2>1. {"boolean"} \in SUBSET ValueTypes /\ {"number"} \in SUBSET ValueTypes
    BY DEF ValueTypes
  <2> QED
    BY <2>1 DEF AbstractValue
<1>5. \A b \in BOOLEAN : /\ Exactly(BooleanConstant(b)) \in AbstractValue
                         /\ IsCovered(Exactly(BooleanConstant(b)), OfTypes({"boolean"}))
  BY EndsAreFacts, BooleansAreCovered
<1>6. \A a \in AbstractValue : IsCovered(a, a)
  BY CoverIsOrder
<1> DEFINE Alive == (\A i \in 1..n : ~ IsBottom(x[i])) /\ (\A i \in 1..n : ~ IsBottom(y[i]))
           Rises == X \in AbstractValue /\ IsCovered(X, Y)
           a == x[1]
           b == x[2]
           c == y[1]
           d == y[2]
<1>7. ASSUME Alive, k \in {"Not", "Plus", "IsNullish"} \cup {"StrictEqual", "LessThan"}
      PROVE  /\ a \in AbstractValue /\ c \in AbstractValue
             /\ a = c \/ (c.constant = NoConstant /\ a.types \subseteq c.types)
             /\ a.types # {}
  <2>1. Arity(k) \in Nat /\ Arity(k) >= 1
    BY <1>7 DEF Arity
  <2>2. 1 \in 1..n
    BY <2>1
  <2> QED
    BY <1>7, <2>2 DEF IsCovered, IsBottom
<1>8. ASSUME Alive, k \in {"StrictEqual", "LessThan"}
      PROVE  /\ b \in AbstractValue /\ d \in AbstractValue
             /\ b = d \/ (d.constant = NoConstant /\ b.types \subseteq d.types)
  <2>1. Arity(k) = 2
    BY <1>8 DEF Arity
  <2>2. 2 \in 1..n
    BY <2>1
  <2> QED
    BY <1>8, <2>2 DEF IsCovered, IsBottom
<1>9. ASSUME Alive
      PROVE  /\ (\E i \in DOMAIN x : IsBottom(x[i])) = FALSE
             /\ (\E i \in DOMAIN y : IsBottom(y[i])) = FALSE
  BY <1>9
<1> HIDE DEF X, Y, k, a, b, c, d
<1>10. ASSUME Alive, k = "Constant" PROVE Rises
  <2>1. X = Exactly(op.detail) /\ Y = Exactly(op.detail)
    BY <1>9, <1>10 DEF EvaluateResult, X, Y, k
  <2>2. Exactly(op.detail) \in AbstractValue
    BY <1>10 DEF AbstractValue, k
  <2> QED
    BY <1>6, <2>1, <2>2
<1>11. ASSUME Alive, k = "Not" PROVE Rises
  <2>1. /\ X = IF IsConstant(a) THEN Exactly(BooleanConstant(~ IsTruthy(a.constant)))
             ELSE OfTypes({"boolean"})
        /\ Y = IF IsConstant(c) THEN Exactly(BooleanConstant(~ IsTruthy(c.constant)))
             ELSE OfTypes({"boolean"})
    BY <1>9, <1>11 DEF EvaluateResult, X, Y, k, a, c
  <2>2. a = c \/ ~ IsConstant(c)
    BY <1>7, <1>11 DEF IsConstant
  <2>3. (~ IsTruthy(a.constant)) \in BOOLEAN
    BY DEF IsTruthy
  <2> QED
    BY <1>4, <1>5, <1>6, <2>1, <2>2, <2>3
<1>12. ASSUME Alive, k = "Plus" PROVE Rises
  <2>1. /\ X = IF a.constant \in Numbers THEN a ELSE OfTypes({"number"})
        /\ Y = IF c.constant \in Numbers THEN c ELSE OfTypes({"number"})
    BY <1>9, <1>12 DEF EvaluateResult, X, Y, k, a, c
  <2>2. a \in AbstractValue /\ (a = c \/ c.constant = NoConstant)
    BY <1>7, <1>12
  <2>3. NoConstant \notin Numbers
    BY DEF NoConstant, Numbers
  <2>4. a.constant \in Numbers => a.types = {"number"}
    BY <2>2, <2>3, FactParts DEF ConstantType, Numbers, NoConstant
  <2>5. a.constant \in Numbers => IsCovered(a, OfTypes({"number"}))
    BY <2>4 DEF IsCovered, OfTypes
  <2> QED
    BY <1>4, <1>6, <2>1, <2>2, <2>3, <2>5
<1>13. ASSUME Alive, k = "StrictEqual" PROVE Rises
  <2>1. /\ X = IF IsConstant(a) /\ IsConstant(b)
               THEN Exactly(BooleanConstant(StrictlyEqual(a.constant, b.constant)))
               ELSE OfTypes({"boolean"})
        /\ Y = IF IsConstant(c) /\ IsConstant(d)
               THEN Exactly(BooleanConstant(StrictlyEqual(c.constant, d.constant)))
               ELSE OfTypes({"boolean"})
    BY <1>9, <1>13 DEF EvaluateResult, X, Y, k, a, b, c, d
  <2>2. (a = c \/ ~ IsConstant(c)) /\ (b = d \/ ~ IsConstant(d))
    BY <1>7, <1>8, <1>13 DEF IsConstant
  <2>3. StrictlyEqual(a.constant, b.constant) \in BOOLEAN
    BY DEF StrictlyEqual
  <2> QED
    BY <1>4, <1>5, <1>6, <2>1, <2>2, <2>3
<1>14. ASSUME Alive, k = "LessThan" PROVE Rises
  <2>1. /\ X = IF {a.constant, b.constant} \subseteq Numbers
               THEN Exactly(BooleanConstant(IsLess(a.constant, b.constant)))
               ELSE OfTypes({"boolean"})
        /\ Y = IF {c.constant, d.constant} \subseteq Numbers
               THEN Exactly(BooleanConstant(IsLess(c.constant, d.constant)))
               ELSE OfTypes({"boolean"})
    BY <1>9, <1>14 DEF EvaluateResult, X, Y, k, a, b, c, d
  <2>2. (a = c \/ c.constant \notin Numbers) /\ (b = d \/ d.constant \notin Numbers)
    BY <1>7, <1>8, <1>14 DEF NoConstant, Numbers
  <2>3. IsLess(a.constant, b.constant) \in BOOLEAN
    BY DEF IsLess
  <2> QED
    BY <1>4, <1>5, <1>6, <2>1, <2>2, <2>3
<1>15. ASSUME Alive, k = "IsNullish" PROVE Rises
  <2> DEFINE Nullish(v) ==
               IF IsConstant(v) THEN Exactly(BooleanConstant(v.constant = "undefined"))
               ELSE IF v.types \subseteq {"undefined"} THEN Exactly("true")
               ELSE IF v.types \cap {"undefined", "other"} = {} THEN Exactly("false")
               ELSE OfTypes({"boolean"})
  <2>1. X = Nullish(a) /\ Y = Nullish(c)
    BY <1>9, <1>15 DEF EvaluateResult, X, Y, k, a, c
  <2>2. \A v : \/ \E t \in BOOLEAN : Nullish(v) = Exactly(BooleanConstant(t))
               \/ Nullish(v) = OfTypes({"boolean"})
    <3> TAKE v
    <3>1. BooleanConstant(TRUE) = "true" /\ BooleanConstant(FALSE) = "false"
      BY DEF BooleanConstant
    <3>2. (v.constant = "undefined") \in BOOLEAN
      OBVIOUS
    <3> QED
      BY <3>1, <3>2
  <2>3. \A v : /\ IsConstant(v) => Nullish(v) = Exactly(BooleanConstant(v.constant = "undefined"))
               /\ ~ IsConstant(v) /\ v.types \subseteq {"undefined"} => Nullish(v) = Exactly("true")
               /\ ~ IsConstant(v) /\ ~ (v.types \subseteq {"undefined"})
                    /\ v.types \cap {"undefined", "other"} = {} => Nullish(v) = Exactly("false")
    OBVIOUS
  <2> HIDE DEF Nullish
  <2>4. Nullish(a) \in AbstractValue
    BY <1>4, <1>5, <2>2
  <2>5. a \in AbstractValue /\ c \in AbstractValue /\ a.types # {}
        /\ (a = c \/ (~ IsConstant(c) /\ a.types \subseteq c.types))
    BY <1>7, <1>15 DEF IsConstant
  <2>6. CASE a = c
    BY <1>6, <2>1, <2>4, <2>6
  <2>7. CASE ~ IsConstant(c) /\ a.types \subseteq c.types
    <3>1. CASE Nullish(c) = OfTypes({"boolean"})
      BY <1>5, <1>6, <2>1, <2>2, <2>4, <3>1
    <3>2. CASE c.types \subseteq {"undefined"}
      <4>1. a.types = {"undefined"}
        BY <2>5, <2>7, <3>2
      <4>2. IsConstant(a) => a.constant = "undefined"
        BY <2>5, <4>1, FactParts DEF IsConstant, ConstantType, Constants, Numbers
      <4>3. Nullish(a) = Exactly("true")
        BY <2>3, <4>1, <4>2 DEF BooleanConstant
      <4>4. Nullish(c) = Exactly("true")
        BY <2>3, <2>7, <3>2
      <4> QED
        BY <1>6, <2>1, <2>4, <4>3, <4>4
    <3>3. CASE c.types \cap {"undefined", "other"} = {} /\ ~ (c.types \subseteq {"undefined"})
      <4>1. "undefined" \notin a.types /\ "other" \notin a.types
        BY <2>7, <3>3
      <4>2. a.constant # "undefined"
        <5> SUFFICES ASSUME a.constant = "undefined" PROVE FALSE
          OBVIOUS
        <5>1. a.types = {ConstantType("undefined")}
          BY <2>5, FactParts DEF NoConstant
        <5> QED
          BY <4>1, <5>1 DEF ConstantType, Numbers
      <4>3. ~ (a.types \subseteq {"undefined"}) /\ a.types \cap {"undefined", "other"} = {}
        BY <2>5, <4>1
      <4>4. Nullish(a) = Exactly("false")
        BY <2>3, <4>2, <4>3 DEF BooleanConstant
      <4>5. Nullish(c) = Exactly("false")
        BY <2>3, <2>7, <3>3
      <4> QED
        BY <1>6, <2>1, <2>4, <4>4, <4>5
    <3>4. ~ (c.types \subseteq {"undefined"}) /\ c.types \cap {"undefined", "other"} # {}
             => Nullish(c) = OfTypes({"boolean"})
      BY <2>7 DEF Nullish
    <3> QED
      BY <3>1, <3>2, <3>3, <3>4
  <2> QED
    BY <2>5, <2>6, <2>7
<1>16. ASSUME Alive, k \notin {"Constant", "Not", "Plus", "StrictEqual", "LessThan", "IsNullish"}
       PROVE  Rises
  <2>1. X = Unknown /\ Y = Unknown
    BY <1>9, <1>16 DEF EvaluateResult, X, Y, k
  <2> QED
    BY <1>6, <2>1, EndsAreFacts
<1>17. Alive
  OBVIOUS
<1>18. Rises
  BY <1>10, <1>11, <1>12, <1>13, <1>14, <1>15, <1>16, <1>17
<1> QED
  BY <1>18 DEF X, Y

\* The more open the operands, the more open the result.
LEMMA EvaluateRises ==
  ASSUME NEW op, op.kind = "Constant" => op.detail \in Constants,
         NEW n \in Nat, Arity(op.kind) <= n,
         NEW x \in [1..n -> AbstractValue], NEW y \in [1..n -> AbstractValue],
         \A i \in 1..n : IsCovered(x[i], y[i])
  PROVE  /\ EvaluateResult(op, x) \in AbstractValue /\ EvaluateResult(op, y) \in AbstractValue
         /\ IsCovered(EvaluateResult(op, x), EvaluateResult(op, y))
<1>1. \A i \in 1..n : IsBottom(y[i]) => IsBottom(x[i])
  <2> SUFFICES ASSUME NEW i \in 1..n, IsBottom(y[i]) PROVE IsBottom(x[i])
    OBVIOUS
  <2>1. y[i] = Bottom /\ IsCovered(x[i], Bottom)
    BY EndsHold
  <2> QED
    BY <2>1, EndsHold
<1>2. ASSUME \E i \in 1..n : IsBottom(x[i]) PROVE EvaluateResult(op, x) = Bottom
  <2>1. \E i \in DOMAIN x : IsBottom(x[i])
    BY <1>2
  <2> QED
    BY <2>1 DEF EvaluateResult
<1>3. ASSUME \E i \in 1..n : IsBottom(y[i]) PROVE EvaluateResult(op, y) = Bottom
  <2>1. \E i \in DOMAIN y : IsBottom(y[i])
    BY <1>3
  <2> QED
    BY <2>1 DEF EvaluateResult
<1>4. EvaluateResult(op, y) \in AbstractValue
  <2>1. CASE \E i \in 1..n : IsBottom(y[i])
    BY <1>3, <2>1, EndsAreFacts
  <2>2. CASE \A i \in 1..n : ~ IsBottom(y[i])
    <3>1. \A i \in 1..n : IsCovered(y[i], y[i])
      BY CoverIsOrder
    <3> QED
      BY <2>2, <3>1, EvaluateOfSome
  <2> QED
    BY <2>1, <2>2
<1>5. CASE \E i \in 1..n : IsBottom(x[i])
  BY <1>2, <1>4, <1>5, EndsAreFacts, EndsHold
<1>6. CASE \A i \in 1..n : ~ IsBottom(x[i])
  <2>1. \A i \in 1..n : ~ IsBottom(y[i])
    BY <1>1, <1>6
  <2> QED
    BY <1>4, <1>6, <2>1, EvaluateOfSome
<1> QED
  BY <1>5, <1>6

\* b knows of the operands of o no more than a.
OperandsRise(f, a, b, o) ==
  \A i \in DOMAIN f.operations[o].operands :
    IsCovered(a.values[f.operations[o].operands[i]], b.values[f.operations[o].operands[i]])

\* a and b know the same of the operands of o.
OperandsAgree(f, a, b, o) ==
  \A i \in DOMAIN f.operations[o].operands :
    a.values[f.operations[o].operands[i]] = b.values[f.operations[o].operands[i]]

\* What is known of the result of an operation rises with what is known of the
\* operands.
LEMMA ResultRises ==
  ASSUME NEW f, IsInOrder(f), NEW o \in DOMAIN f.operations,
         NEW a, IsAnalysis(f, a), NEW b, IsAnalysis(f, b), OperandsRise(f, a, b, o)
  PROVE  /\ ResultFact(f, a, o) \in AbstractValue /\ ResultFact(f, b, o) \in AbstractValue
         /\ IsCovered(ResultFact(f, a, o), ResultFact(f, b, o))
<1> DEFINE op == f.operations[o]
           n == Len(op.operands)
           x == [i \in DOMAIN op.operands |-> a.values[op.operands[i]]]
           y == [i \in DOMAIN op.operands |-> b.values[op.operands[i]]]
<1>1. /\ n \in Nat /\ DOMAIN op.operands = 1..n
      /\ \A i \in DOMAIN op.operands : op.operands[i] \in DOMAIN f.values
      /\ Arity(op.kind) <= n
      /\ op.kind = "Constant" => op.detail \in Constants
  BY OperationsAreFit DEF IsFitAt
<1>2. x \in [1..n -> AbstractValue] /\ y \in [1..n -> AbstractValue]
  BY <1>1 DEF IsAnalysis
<1>3. \A i \in 1..n : IsCovered(x[i], y[i])
  BY <1>1 DEF OperandsRise
<1>4. ResultFact(f, a, o) = EvaluateResult(op, x) /\ ResultFact(f, b, o) = EvaluateResult(op, y)
  BY DEF ResultFact
<1> HIDE DEF op, n, x, y
<1> QED
  BY <1>1, <1>2, <1>3, <1>4, EvaluateRises

\* And so do the successors that a terminator can take.
LEMMA SuccessorsRise ==
  ASSUME NEW f, IsInOrder(f), NEW o \in DOMAIN f.operations,
         NEW a, IsAnalysis(f, a), NEW b, IsAnalysis(f, b), OperandsRise(f, a, b, o)
  PROVE  /\ ExecutableSuccessors(f, a, o) \subseteq ExecutableSuccessors(f, b, o)
         /\ ExecutableSuccessors(f, b, o) \subseteq DOMAIN f.operations[o].targets
<1> DEFINE op == f.operations[o]
           x == a.values[op.operands[1]]
           y == b.values[op.operands[1]]
<1>1. CASE op.kind \notin ConditionalBranch
  BY <1>1 DEF ExecutableSuccessors
<1>2. CASE op.kind \in ConditionalBranch
  <2>1. IsFitAt(f, op)
    BY OperationsAreFit
  <2>2. Arity(op.kind) = 1
    BY <1>2 DEF Arity, ConditionalBranch
  <2>3. 1 \in DOMAIN op.operands /\ op.operands[1] \in DOMAIN f.values /\ DOMAIN op.targets = 1..2
    BY <1>2, <2>1, <2>2 DEF IsFitAt
  <2>4. x \in AbstractValue /\ y \in AbstractValue /\ IsCovered(x, y)
    BY <2>3 DEF IsAnalysis, OperandsRise
  <2>5. /\ ExecutableSuccessors(f, a, o) =
             IF IsBottom(x) THEN {}
             ELSE IF IsConstant(x) THEN {IF IsTruthy(x.constant) THEN 1 ELSE 2} ELSE 1..2
        /\ ExecutableSuccessors(f, b, o) =
             IF IsBottom(y) THEN {}
             ELSE IF IsConstant(y) THEN {IF IsTruthy(y.constant) THEN 1 ELSE 2} ELSE 1..2
    BY <1>2, <2>3 DEF ExecutableSuccessors
  <2> HIDE DEF x, y, op
  <2>6. ExecutableSuccessors(f, b, o) \subseteq 1..2 /\ ExecutableSuccessors(f, a, o) \subseteq 1..2
    BY <2>5
  <2>7. IsBottom(y) => IsBottom(x)
    BY <2>4, EndsHold
  <2>8. IsBottom(x) \/ x = y \/ ~ IsConstant(y)
    BY <2>4 DEF IsCovered, IsBottom, IsConstant
  <2>9. ExecutableSuccessors(f, a, o) \subseteq ExecutableSuccessors(f, b, o)
    <3>1. CASE IsBottom(x)
      BY <2>5, <3>1
    <3>2. CASE x = y
      BY <2>5, <3>2
    <3>3. CASE ~ IsBottom(x) /\ ~ IsConstant(y)
      <4>1. ~ IsBottom(y)
        BY <2>7, <3>3
      <4>2. ExecutableSuccessors(f, b, o) = 1..2
        BY <2>5, <3>3, <4>1
      <4> QED
        BY <2>6, <4>2
    <3> QED
      BY <2>8, <3>1, <3>2, <3>3
  <2> QED
    BY <2>3, <2>6, <2>9 DEF op
<1> QED
  BY <1>1, <1>2

\* And what an edge hands to a parameter.
LEMMA IncomingRises ==
  ASSUME NEW f, IsInOrder(f), NEW e \in Edges(f), NEW k \in DOMAIN f.blocks[Target(f, e)].parameters,
         NEW a, IsAnalysis(f, a), NEW b, IsAnalysis(f, b), OperandsRise(f, a, b, e[1])
  PROVE  /\ Incoming(f, a, e, k) \in AbstractValue /\ Incoming(f, b, e, k) \in AbstractValue
         /\ IsCovered(Incoming(f, a, e, k), Incoming(f, b, e, k))
<1>1. CASE k <= ProducedCount(f, e)
  BY <1>1, EndsAreFacts, CoverIsOrder DEF Incoming
<1>2. CASE ~ (k <= ProducedCount(f, e))
  <2> DEFINE v == EdgeArguments(f, e)[k - ProducedCount(f, e)]
  <2>1. f.blocks[Target(f, e)].parameters \in Seq(ToSet(f.blocks[Target(f, e)].parameters))
    BY EdgesAreEnds DEF IsInOrder, IsLaidOut
  <2>2. k \in Nat /\ ProducedCount(f, e) \in Nat
    BY <2>1, EdgesAreEnds, LenProperties
  <2>3. k > ProducedCount(f, e)
    BY <1>2, <2>2
  <2>4. e[1] \in DOMAIN f.operations
    BY EdgesAreEnds
  <2>5. PICK i \in DOMAIN f.operations[e[1]].operands : v = f.operations[e[1]].operands[i]
    BY <2>3, EdgesAreEnds
  <2>6. v \in DOMAIN f.values
    BY <2>4, <2>5, OperationsAreFit DEF IsFitAt
  <2>7. a.values[v] \in AbstractValue /\ b.values[v] \in AbstractValue /\ IsCovered(a.values[v], b.values[v])
    BY <2>5, <2>6 DEF IsAnalysis, OperandsRise
  <2>8. Incoming(f, a, e, k) = a.values[v] /\ Incoming(f, b, e, k) = b.values[v]
    BY <1>2 DEF Incoming
  <2> QED
    BY <2>7, <2>8
<1> QED
  BY <1>1, <1>2

\* Where operands agree, so does what follows from them.
LEMMA AgreeingOperands ==
  ASSUME NEW f, IsInOrder(f), NEW o \in DOMAIN f.operations,
         NEW a, IsAnalysis(f, a), NEW b, IsAnalysis(f, b), OperandsAgree(f, a, b, o)
  PROVE  /\ ResultFact(f, a, o) = ResultFact(f, b, o)
         /\ ExecutableSuccessors(f, a, o) = ExecutableSuccessors(f, b, o)
         /\ \A e \in Edges(f) : \A k \in DOMAIN f.blocks[Target(f, e)].parameters :
              e[1] = o => Incoming(f, a, e, k) = Incoming(f, b, e, k)
<1>1. \A i \in DOMAIN f.operations[o].operands : f.operations[o].operands[i] \in DOMAIN f.values
  BY OperationsAreFit DEF IsFitAt
<1>2. OperandsRise(f, a, b, o) /\ OperandsRise(f, b, a, o)
  BY <1>1, CoverIsOrder DEF OperandsAgree, OperandsRise, IsAnalysis
<1>3. ResultFact(f, a, o) = ResultFact(f, b, o)
  BY <1>2, ResultRises, CoverIsOrder
<1>4. ExecutableSuccessors(f, a, o) = ExecutableSuccessors(f, b, o)
  BY <1>2, SuccessorsRise
<1>5. ASSUME NEW e \in Edges(f), NEW k \in DOMAIN f.blocks[Target(f, e)].parameters, e[1] = o
      PROVE  Incoming(f, a, e, k) = Incoming(f, b, e, k)
  BY <1>2, <1>5, IncomingRises, CoverIsOrder
<1> QED
  BY <1>3, <1>4, <1>5

\* Analyses are ordered by what they leave open.
LEMMA WithinIsOrder ==
  ASSUME NEW f, NEW a, IsAnalysis(f, a), NEW b, IsAnalysis(f, b), NEW c, IsAnalysis(f, c)
  PROVE  /\ IsWithin(f, a, a)
         /\ IsWithin(f, a, b) /\ IsWithin(f, b, c) => IsWithin(f, a, c)
         /\ IsWithin(f, a, b) /\ IsWithin(f, b, a) =>
              /\ \A v \in DOMAIN f.values : a.values[v] = b.values[v]
              /\ a.blocks = b.blocks /\ a.edges = b.edges
<1>1. IsWithin(f, a, a)
  BY CoverIsOrder DEF IsWithin, IsAnalysis
<1>2. ASSUME IsWithin(f, a, b), IsWithin(f, b, c) PROVE IsWithin(f, a, c)
  <2>1. ASSUME NEW v \in DOMAIN f.values PROVE IsCovered(a.values[v], c.values[v])
    <3>1. IsCovered(a.values[v], b.values[v]) /\ IsCovered(b.values[v], c.values[v])
      BY <1>2 DEF IsWithin
    <3>2. /\ a.values[v] \in AbstractValue /\ b.values[v] \in AbstractValue
          /\ c.values[v] \in AbstractValue
      BY DEF IsAnalysis
    <3> QED
      BY <3>1, <3>2, CoverIsOrder
  <2> QED
    BY <1>2, <2>1 DEF IsWithin
<1>3. ASSUME IsWithin(f, a, b), IsWithin(f, b, a)
      PROVE  /\ \A v \in DOMAIN f.values : a.values[v] = b.values[v]
             /\ a.blocks = b.blocks /\ a.edges = b.edges
  <2>1. ASSUME NEW v \in DOMAIN f.values PROVE a.values[v] = b.values[v]
    <3>1. IsCovered(a.values[v], b.values[v]) /\ IsCovered(b.values[v], a.values[v])
      BY <1>3 DEF IsWithin
    <3>2. a.values[v] \in AbstractValue /\ b.values[v] \in AbstractValue
      BY DEF IsAnalysis
    <3> QED
      BY <3>1, <3>2, CoverIsOrder, Zenon
  <2> QED
    BY <1>3, <2>1 DEF IsWithin
<1> QED
  BY <1>1, <1>2, <1>3

\* What holds of all values holds of the operands.
LEMMA WithinRises ==
  ASSUME NEW f, IsInOrder(f), NEW o \in DOMAIN f.operations, NEW a, NEW b, IsWithin(f, a, b)
  PROVE  OperandsRise(f, a, b, o)
<1>1. \A i \in DOMAIN f.operations[o].operands : f.operations[o].operands[i] \in DOMAIN f.values
  BY OperationsAreFit DEF IsFitAt
<1> QED
  BY <1>1 DEF OperandsRise, IsWithin

\* The union of finitely many finite sets.
LEMMA FiniteUnion ==
  ASSUME NEW D, IsFiniteSet(D), NEW F, \A d \in D : IsFiniteSet(F[d])
  PROVE  IsFiniteSet(UNION {F[d] : d \in D})
<1> DEFINE Image == {F[d] : d \in D}
           g == [d \in D |-> F[d]]
<1>1. g \in Surjection(D, Image)
  BY DEF Surjection
<1>2. \A T \in Image : IsFiniteSet(T)
  OBVIOUS
<1> HIDE DEF Image, g
<1>3. IsFiniteSet(Image)
  BY <1>1, FS_Surjection
<1>4. IsFiniteSet(UNION Image)
  BY <1>2, <1>3, FS_UNION
<1> QED
  BY <1>4 DEF Image

\* What a list has is finite.
LEMMA ListIsFinite ==
  ASSUME NEW S, NEW s \in Seq(S)
  PROVE  IsFiniteSet(ToSet(s))
<1>1. Len(s) \in Nat /\ DOMAIN s = 1..Len(s)
  BY LenProperties
<1>2. IsFiniteSet(1..Len(s))
  BY <1>1, FS_Interval
<1>3. s \in Surjection(DOMAIN s, ToSet(s))
  BY <1>1 DEF Surjection, ToSet
<1> QED
  BY <1>1, <1>2, <1>3, FS_Surjection

\* A function has finitely many values, blocks and edges.
LEMMA ArenasAreFinite ==
  ASSUME NEW f, IsInOrder(f)
  PROVE  /\ IsFiniteSet(DOMAIN f.values) /\ IsFiniteSet(DOMAIN f.blocks) /\ IsFiniteSet(Edges(f))
         /\ IsFiniteSet(DOMAIN f.regions)
<1>1. IsFiniteSet(DOMAIN f.values) /\ IsFiniteSet(DOMAIN f.regions)
  BY DEF IsInOrder, IsAnalysable, IsLaidOut
<1>2. IsFiniteSet(DOMAIN f.blocks)
  <2> DEFINE F == [r \in DOMAIN f.regions |-> ToSet(f.regions[r])]
  <2>1. \A r \in DOMAIN f.regions : IsFiniteSet(F[r])
    BY ListIsFinite DEF IsInOrder, IsLaidOut
  <2>2. \A b \in DOMAIN f.blocks : f.blocks[b].region \in DOMAIN f.regions /\ b \in F[f.blocks[b].region]
    BY DEF IsInOrder, PlacesAreExact
  <2> HIDE DEF F
  <2>3. IsFiniteSet(UNION {F[r] : r \in DOMAIN f.regions})
    BY <1>1, <2>1, FiniteUnion
  <2> QED
    BY <2>2, <2>3, FS_Subset
<1>3. IsFiniteSet(Edges(f))
  <2> DEFINE F == [o \in DOMAIN f.operations |-> EdgesOf(f, o)]
  <2>1. ASSUME NEW o \in DOMAIN f.operations PROVE IsFiniteSet(F[o])
    <3>1. Len(f.operations[o].targets) \in Nat
          /\ DOMAIN f.operations[o].targets = 1..Len(f.operations[o].targets)
      BY OperationsAreFit DEF IsFitAt
    <3>2. IsFiniteSet(DOMAIN f.operations[o].targets) /\ IsFiniteSet({o})
      <4>1. IsFiniteSet(1..Len(f.operations[o].targets))
        BY <3>1, FS_Interval
      <4> QED
        BY <3>1, <4>1, FS_Singleton
    <3>3. IsFiniteSet({o} \X DOMAIN f.operations[o].targets)
      BY <3>2, FS_Product
    <3> QED
      BY <3>3 DEF EdgesOf
  <2>2. IsFiniteSet(DOMAIN f.operations)
    BY DEF IsInOrder, HasSuccessors
  <2>3. Edges(f) = UNION {F[o] : o \in DOMAIN f.operations}
    BY DEF Edges
  <2> HIDE DEF F
  <2> QED
    BY <2>1, <2>2, <2>3, FiniteUnion
<1> QED
  BY <1>1, <1>2, <1>3

\* What is yet to be found out: facts that leave more open, blocks and edges.
OpenFacts(f, a) ==
  {p \in (DOMAIN f.values) \X AbstractValue :
     IsCovered(a.values[p[1]], p[2]) /\ p[2] # a.values[p[1]]}

Gap(f, a) ==
  Cardinality(OpenFacts(f, a)) + Cardinality((DOMAIN f.blocks) \ a.blocks)
    + Cardinality(Edges(f) \ a.edges)

\* a and b know the same.
SameFacts(f, a, b) ==
  /\ \A v \in DOMAIN f.values : a.values[v] = b.values[v]
  /\ a.blocks = b.blocks /\ a.edges = b.edges

\* A finite set without all members of another one that has more.
LEMMA FewerLeft ==
  ASSUME NEW S, NEW T, IsFiniteSet(S), T \subseteq S
  PROVE  /\ Cardinality(T) \in Nat /\ Cardinality(S) \in Nat /\ Cardinality(T) <= Cardinality(S)
         /\ T # S => Cardinality(T) < Cardinality(S)
<1>1. /\ IsFiniteSet(T) /\ Cardinality(T) <= Cardinality(S)
      /\ Cardinality(S) = Cardinality(T) => S = T
  BY FS_Subset
<1>2. Cardinality(T) \in Nat /\ Cardinality(S) \in Nat
  BY <1>1, FS_CardinalityType
<1> QED
  BY <1>1, <1>2

\* The gap falls when anything is found out.
LEMMA GapFalls ==
  ASSUME NEW f, IsInOrder(f), NEW a, IsAnalysis(f, a), NEW b, IsAnalysis(f, b), IsWithin(f, a, b)
  PROVE  /\ Gap(f, a) \in Nat /\ Gap(f, b) \in Nat
         /\ SameFacts(f, a, b) => Gap(f, b) = Gap(f, a)
         /\ ~ SameFacts(f, a, b) => Gap(f, b) < Gap(f, a)
<1> DEFINE A == OpenFacts(f, a)
           B == OpenFacts(f, b)
           C == (DOMAIN f.blocks) \ a.blocks
           D == (DOMAIN f.blocks) \ b.blocks
           G == Edges(f) \ a.edges
           H == Edges(f) \ b.edges
<1>1. IsFiniteSet(A) /\ IsFiniteSet(C) /\ IsFiniteSet(G)
  <2>1. IsFiniteSet((DOMAIN f.values) \X AbstractValue)
    BY ArenasAreFinite, FactsAreFinite, FS_Product
  <2> QED
    BY <2>1, ArenasAreFinite, FS_Subset DEF OpenFacts
<1>2. ASSUME NEW v \in DOMAIN f.values, NEW x \in AbstractValue
      PROVE  IsCovered(b.values[v], x) /\ x # b.values[v] => IsCovered(a.values[v], x) /\ x # a.values[v]
  <2>1. a.values[v] \in AbstractValue /\ b.values[v] \in AbstractValue
        /\ IsCovered(a.values[v], b.values[v])
    BY DEF IsAnalysis, IsWithin
  <2> QED
    BY <2>1, CoverIsOrder
<1>3. B \subseteq A
  <2> SUFFICES ASSUME NEW p \in B PROVE p \in A
    OBVIOUS
  <2>1. p \in (DOMAIN f.values) \X AbstractValue
        /\ IsCovered(b.values[p[1]], p[2]) /\ p[2] # b.values[p[1]]
    BY DEF OpenFacts
  <2>2. p[1] \in DOMAIN f.values /\ p[2] \in AbstractValue
    BY <2>1
  <2>3. IsCovered(a.values[p[1]], p[2]) /\ p[2] # a.values[p[1]]
    BY <1>2, <2>1, <2>2
  <2> QED
    BY <2>1, <2>3 DEF OpenFacts
<1>4. D \subseteq C /\ H \subseteq G
  BY DEF IsWithin
<1>5. ASSUME NEW v \in DOMAIN f.values, a.values[v] # b.values[v] PROVE B # A
  <2>1. b.values[v] \in AbstractValue /\ IsCovered(a.values[v], b.values[v])
    BY DEF IsAnalysis, IsWithin
  <2>2. <<v, b.values[v]>> \in A
    BY <1>5, <2>1 DEF OpenFacts
  <2>3. <<v, b.values[v]>> \notin B
    BY DEF OpenFacts
  <2> QED
    BY <2>2, <2>3
<1>6. a.blocks # b.blocks => D # C
  BY DEF IsAnalysis, IsWithin
<1>7. a.edges # b.edges => H # G
  BY DEF IsAnalysis, IsWithin
<1>8. SameFacts(f, a, b) => A = B /\ C = D /\ G = H
  <2> SUFFICES ASSUME SameFacts(f, a, b) PROVE A = B /\ C = D /\ G = H
    OBVIOUS
  <2>1. \A p \in (DOMAIN f.values) \X AbstractValue : a.values[p[1]] = b.values[p[1]]
    BY DEF SameFacts
  <2>2. A = B
    BY <2>1 DEF OpenFacts
  <2> QED
    BY <2>2 DEF SameFacts
<1>9. Gap(f, a) = Cardinality(A) + Cardinality(C) + Cardinality(G)
      /\ Gap(f, b) = Cardinality(B) + Cardinality(D) + Cardinality(H)
  BY DEF Gap
<1>10. ~ SameFacts(f, a, b) => B # A \/ D # C \/ H # G
  BY <1>5, <1>6, <1>7 DEF SameFacts
<1> HIDE DEF A, B, C, D, G, H
<1>11. /\ Cardinality(A) \in Nat /\ Cardinality(B) \in Nat /\ Cardinality(B) <= Cardinality(A)
       /\ B # A => Cardinality(B) < Cardinality(A)
  BY <1>1, <1>3, FewerLeft
<1>12. /\ Cardinality(C) \in Nat /\ Cardinality(D) \in Nat /\ Cardinality(D) <= Cardinality(C)
       /\ D # C => Cardinality(D) < Cardinality(C)
  BY <1>1, <1>4, FewerLeft
<1>13. /\ Cardinality(G) \in Nat /\ Cardinality(H) \in Nat /\ Cardinality(H) <= Cardinality(G)
       /\ H # G => Cardinality(H) < Cardinality(G)
  BY <1>1, <1>4, FewerLeft
<1> QED
  BY <1>8, <1>9, <1>10, <1>11, <1>12, <1>13

-----------------------------------------------------------------------------
(* The least solution                                                      *)

\* Analyses are analyses, and the same if they know the same.
LEMMA AnalysesHold ==
  ASSUME NEW f, NEW a \in Analyses(f)
  PROVE  /\ IsAnalysis(f, a)
         /\ \A b \in Analyses(f) : SameFacts(f, a, b) => a = b
<1>1. IsAnalysis(f, a)
  BY DEF Analyses, IsAnalysis
<1>2. ASSUME NEW b \in Analyses(f), SameFacts(f, a, b) PROVE a = b
  <2>1. a.values \in [DOMAIN f.values -> AbstractValue] /\ b.values \in [DOMAIN f.values -> AbstractValue]
    BY DEF Analyses
  <2>2. a.values = b.values
    BY <1>2, <2>1 DEF SameFacts
  <2> QED
    BY <1>2, <2>2 DEF Analyses, SameFacts
<1> QED
  BY <1>1, <1>2

\* A value is where its definition says.
LEMMA ValuesAreDefined ==
  ASSUME NEW f, IsInOrder(f), NEW v \in DOMAIN f.values
  PROVE  LET d == f.values[v]
         IN  /\ d.kind \in {"BlockParameter", "OperationResult", "FunctionParameter"}
             /\ d.kind = "BlockParameter" =>
                  /\ d.block \in DOMAIN f.blocks
                  /\ d.index \in DOMAIN f.blocks[d.block].parameters
                  /\ f.blocks[d.block].parameters[d.index].value = v
                  /\ DefiningBlock(f, v) = d.block
             /\ d.kind = "OperationResult" =>
                  /\ d.operation \in DOMAIN f.operations
                  /\ d.index \in DOMAIN f.operations[d.operation].results
                  /\ f.operations[d.operation].results[d.index] = v
                  /\ DefiningBlock(f, v) = f.operations[d.operation].block
                  /\ f.operations[d.operation].block \in DOMAIN f.blocks
<1>1. IsWhereDefined(f, v)
  BY DEF IsInOrder, DefinitionsAreExact
<1>2. \A o \in DOMAIN f.operations : f.operations[o].block \in DOMAIN f.blocks
  BY DEF IsInOrder, PlacesAreExact
<1> QED
  BY <1>1, <1>2 DEF IsWhereDefined, DefiningBlock

\* What comes in for a parameter over the edges that execute.
Inputs(f, a, b, k) == {Incoming(f, a, e, k) : e \in IncomingEdges(f, b) \cap a.edges}

\* What comes in over all edges that execute is a fact, and rises.
LEMMA InputsRise ==
  ASSUME NEW f, IsInOrder(f), NEW b, NEW k \in DOMAIN f.blocks[b].parameters,
         NEW a, IsAnalysis(f, a), NEW c, IsAnalysis(f, c), IsWithin(f, a, c)
  PROVE  /\ Inputs(f, a, b, k) \subseteq AbstractValue
         /\ JoinAll(Inputs(f, a, b, k)) \in AbstractValue
         /\ JoinAll(Inputs(f, c, b, k)) \in AbstractValue
         /\ IsCovered(JoinAll(Inputs(f, a, b, k)), JoinAll(Inputs(f, c, b, k)))
<1> DEFINE X == Inputs(f, a, b, k)
           Y == Inputs(f, c, b, k)
<1>1. ASSUME NEW e \in IncomingEdges(f, b)
      PROVE  /\ Incoming(f, a, e, k) \in AbstractValue /\ Incoming(f, c, e, k) \in AbstractValue
             /\ IsCovered(Incoming(f, a, e, k), Incoming(f, c, e, k))
  <2>1. e \in Edges(f) /\ Target(f, e) = b
    BY DEF IncomingEdges
  <2>2. e[1] \in DOMAIN f.operations
    BY <2>1, EdgesAreEnds
  <2>3. OperandsRise(f, a, c, e[1])
    BY <2>2, WithinRises
  <2> QED
    BY <2>1, <2>3, IncomingRises
<1>2. X \subseteq AbstractValue /\ Y \subseteq AbstractValue
  BY <1>1 DEF Inputs
<1>3. \A x \in X : \E y \in Y : IsCovered(x, y)
  BY <1>1 DEF IsWithin, Inputs
<1> HIDE DEF X, Y
<1>4. JoinAll(X) \in AbstractValue /\ JoinAll(Y) \in AbstractValue
  BY <1>2, JoinAllHolds
<1>5. ASSUME NEW x \in X PROVE IsCovered(x, JoinAll(Y))
  <2>1. PICK y \in Y : IsCovered(x, y)
    BY <1>3
  <2>2. IsCovered(y, JoinAll(Y)) /\ x \in AbstractValue /\ y \in AbstractValue
    BY <1>2, JoinAllHolds
  <2> QED
    BY <1>4, <2>1, <2>2, CoverIsOrder
<1>6. IsCovered(JoinAll(X), JoinAll(Y))
  BY <1>2, <1>4, <1>5, JoinAllHolds
<1> QED
  BY <1>2, <1>4, <1>6 DEF X, Y

\* Joins of facts that rise rise.
LEMMA JoinRises ==
  ASSUME NEW a \in AbstractValue, NEW b \in AbstractValue,
         NEW c \in AbstractValue, NEW d \in AbstractValue, IsCovered(a, c), IsCovered(b, d)
  PROVE  IsCovered(Join(a, b), Join(c, d))
<1> DEFINE j == Join(c, d)
<1>1. j \in AbstractValue /\ IsCovered(c, j) /\ IsCovered(d, j)
  BY JoinHolds
<1> HIDE DEF j
<1>2. IsCovered(a, j) /\ IsCovered(b, j)
  BY <1>1, CoverIsOrder
<1>3. IsCovered(Join(a, b), j)
  BY <1>1, <1>2, JoinHolds
<1> QED
  BY <1>3 DEF j

\* What follows for a value is a fact, and rises.
LEMMA ValueFactRises ==
  ASSUME NEW f, IsInOrder(f), NEW v \in DOMAIN f.values,
         NEW a, IsAnalysis(f, a), NEW c, IsAnalysis(f, c), IsWithin(f, a, c)
  PROVE  /\ ValueFact(f, a, v) \in AbstractValue /\ ValueFact(f, c, v) \in AbstractValue
         /\ IsCovered(ValueFact(f, a, v), ValueFact(f, c, v))
<1> DEFINE d == f.values[v]
           b == DefiningBlock(f, v)
<1>0. \A x \in AbstractValue : IsCovered(x, x) /\ IsCovered(Bottom, x)
  BY CoverIsOrder, EndsHold
<1>1. CASE d.kind = "FunctionParameter"
  <2>1. ValueFact(f, a, v) = Unknown /\ ValueFact(f, c, v) = Unknown
    BY <1>1 DEF ValueFact
  <2> QED
    BY <1>0, <2>1, EndsAreFacts
<1>2. CASE d.kind = "BlockParameter"
  <2>1. d.index \in DOMAIN f.blocks[b].parameters
    BY <1>2, ValuesAreDefined
  <2> DEFINE base == IF b = Entry(f, f.blocks[b].region) THEN Unknown ELSE Bottom
             X == Inputs(f, a, b, d.index)
             Y == Inputs(f, c, b, d.index)
  <2>2. /\ ValueFact(f, a, v) = IF b \notin a.blocks THEN Bottom ELSE Join(base, JoinAll(X))
        /\ ValueFact(f, c, v) = IF b \notin c.blocks THEN Bottom ELSE Join(base, JoinAll(Y))
    BY <1>2 DEF ValueFact, ParameterFact, Inputs
  <2>3. /\ JoinAll(X) \in AbstractValue /\ JoinAll(Y) \in AbstractValue
        /\ IsCovered(JoinAll(X), JoinAll(Y))
    BY <2>1, InputsRise
  <2>4. base \in AbstractValue /\ IsCovered(base, base)
    BY <1>0, EndsAreFacts
  <2>5. b \in a.blocks => b \in c.blocks
    BY DEF IsWithin
  <2> HIDE DEF base, X, Y, b, d
  <2>6. Join(base, JoinAll(X)) \in AbstractValue /\ Join(base, JoinAll(Y)) \in AbstractValue
    BY <2>3, <2>4, JoinHolds
  <2>7. IsCovered(Join(base, JoinAll(X)), Join(base, JoinAll(Y)))
    BY <2>3, <2>4, JoinRises
  <2> QED
    BY <1>0, <2>2, <2>5, <2>6, <2>7, EndsAreFacts
<1>3. CASE d.kind = "OperationResult"
  <2>1. d.operation \in DOMAIN f.operations
    BY <1>3, ValuesAreDefined
  <2>2. /\ ValueFact(f, a, v) = IF b \notin a.blocks THEN Bottom ELSE ResultFact(f, a, d.operation)
        /\ ValueFact(f, c, v) = IF b \notin c.blocks THEN Bottom ELSE ResultFact(f, c, d.operation)
    BY <1>3 DEF ValueFact
  <2>3. /\ ResultFact(f, a, d.operation) \in AbstractValue /\ ResultFact(f, c, d.operation) \in AbstractValue
        /\ IsCovered(ResultFact(f, a, d.operation), ResultFact(f, c, d.operation))
    BY <2>1, WithinRises, ResultRises
  <2>4. b \in a.blocks => b \in c.blocks
    BY DEF IsWithin
  <2> HIDE DEF b, d
  <2> QED
    BY <1>0, <2>2, <2>3, <2>4, EndsAreFacts
<1> QED
  BY <1>1, <1>2, <1>3, ValuesAreDefined

\* The entry of a region is a block of it.
LEMMA EntriesAreBlocks ==
  ASSUME NEW f, IsInOrder(f), NEW r \in DOMAIN f.regions
  PROVE  Entry(f, r) \in DOMAIN f.blocks /\ Entry(f, r) = f.regions[r][1]
         /\ f.blocks[Entry(f, r)].region = r
<1>1. f.regions[r] \in Seq(DOMAIN f.blocks) /\ f.regions[r] # <<>>
  BY DEF IsInOrder, IsLaidOut, IsAnalysable
<1>2. Entry(f, r) \in DOMAIN f.blocks /\ Entry(f, r) = f.regions[r][1]
  BY <1>1, HeadTailProperties DEF Entry
<1>3. Entry(f, r) \in ToSet(f.regions[r])
  BY <1>1, <1>2, EmptySeq, LenProperties DEF ToSet
<1> QED
  BY <1>2, <1>3 DEF IsInOrder, PlacesAreExact

\* The terminator of a block, if it has one, is an operation of it.
LEMMA TerminatorsArePlaced ==
  ASSUME NEW f, IsInOrder(f), NEW b \in DOMAIN f.blocks, f.blocks[b].terminator # None
  PROVE  /\ f.blocks[b].terminator \in DOMAIN f.operations
         /\ f.operations[f.blocks[b].terminator].block = b
         /\ IsTerminator(f, f.blocks[b].terminator)
<1>1. f.blocks[b].terminator \in BlockOperations(f, b)
  BY DEF BlockOperations
<1> QED
  BY <1>1, ListedOperations DEF IsInOrder, PlacesAreExact

\* What follows from an analysis is an analysis.
LEMMA ConsequencesFollow ==
  ASSUME NEW f, IsInOrder(f), NEW a, IsAnalysis(f, a)
  PROVE  Consequences(f, a) \in Analyses(f)
<1> DEFINE c == Consequences(f, a)
<1>1. c.values \in [DOMAIN f.values -> AbstractValue]
  <2>1. IsWithin(f, a, a)
    BY WithinIsOrder
  <2>2. \A v \in DOMAIN f.values : ValueFact(f, a, v) \in AbstractValue
    BY <2>1, ValueFactRises
  <2> QED
    BY <2>2 DEF Consequences
<1>2. c.blocks \subseteq DOMAIN f.blocks
  BY EntriesAreBlocks, EdgesAreEnds DEF Consequences, IsAnalysis
<1>3. c.edges \subseteq Edges(f)
  <2> SUFFICES ASSUME NEW b \in a.blocks, f.blocks[b].terminator # None,
                      NEW e \in {f.blocks[b].terminator} \X ExecutableSuccessors(f, a, f.blocks[b].terminator)
               PROVE  e \in Edges(f)
    BY DEF Consequences
  <2> DEFINE o == f.blocks[b].terminator
  <2>1. o \in DOMAIN f.operations
    BY TerminatorsArePlaced DEF IsAnalysis
  <2>2. OperandsRise(f, a, a, o)
    BY <2>1, WithinIsOrder, WithinRises
  <2>3. ExecutableSuccessors(f, a, o) \subseteq DOMAIN f.operations[o].targets
    BY <2>1, <2>2, SuccessorsRise
  <2> QED
    BY <2>1, <2>3 DEF Edges, EdgesOf
<1>4. c = [blocks |-> c.blocks, edges |-> c.edges, values |-> c.values]
  BY DEF Consequences
<1> HIDE DEF c
<1>5. c \in Analyses(f)
  BY <1>1, <1>2, <1>3, <1>4 DEF Analyses
<1> QED
  BY <1>5 DEF c

\* What follows rises.
LEMMA ConsequencesRise ==
  ASSUME NEW f, IsInOrder(f), NEW a, IsAnalysis(f, a), NEW c, IsAnalysis(f, c), IsWithin(f, a, c)
  PROVE  IsWithin(f, Consequences(f, a), Consequences(f, c))
<1> DEFINE x == Consequences(f, a)
           y == Consequences(f, c)
<1>1. \A v \in DOMAIN f.values : IsCovered(x.values[v], y.values[v])
  BY ValueFactRises DEF Consequences
<1>2. x.blocks \subseteq y.blocks
  BY DEF Consequences, IsWithin
<1>3. x.edges \subseteq y.edges
  <2> SUFFICES ASSUME NEW b \in a.blocks, f.blocks[b].terminator # None
               PROVE  ExecutableSuccessors(f, a, f.blocks[b].terminator)
                        \subseteq ExecutableSuccessors(f, c, f.blocks[b].terminator)
    BY DEF Consequences, IsWithin
  <2> DEFINE o == f.blocks[b].terminator
  <2>1. o \in DOMAIN f.operations
    BY TerminatorsArePlaced DEF IsAnalysis
  <2>2. OperandsRise(f, a, c, o)
    BY <2>1, WithinRises
  <2> QED
    BY <2>1, <2>2, SuccessorsRise
<1> QED
  BY <1>1, <1>2, <1>3 DEF IsWithin

\* The least solution of the equations is a solution, and leaves nothing open
\* that any analysis from which nothing more follows does not.
LEMMA LeastFactsHold ==
  ASSUME NEW f, IsInOrder(f)
  PROVE  /\ LeastFacts(f) \in Analyses(f)
         /\ Consequences(f, LeastFacts(f)) = LeastFacts(f)
         /\ \A c \in Analyses(f) : IsWithin(f, Consequences(f, c), c) => IsWithin(f, LeastFacts(f), c)
<1> DEFINE S == Analyses(f)
           step == [a \in S |-> Consequences(f, a)]
           Stop == {a \in S : a = Consequences(f, a)}
           start == [values |-> [v \in DOMAIN f.values |-> Bottom], blocks |-> {}, edges |-> {}]
           h == CHOOSE h : IsLoop(h, S, Stop, step)
           IsClosed(c) == c \in S /\ IsWithin(f, Consequences(f, c), c)
           Rising == {a \in S : /\ IsWithin(f, a, Consequences(f, a))
                                /\ \A c : IsClosed(c) => IsWithin(f, a, c)}
           gap == [a \in Rising |-> Gap(f, a)]
           left == [a \in Rising |-> 0]
<1>1. \A a \in S : IsAnalysis(f, a) /\ Consequences(f, a) \in S
  BY AnalysesHold, ConsequencesFollow
<1>2. step \in [S -> S] /\ Stop \in SUBSET S
  BY <1>1
<1>3. IsLoop(h, S, Stop, step)
  <2> HIDE DEF S, Stop, step
  <2> QED
    BY <1>2, LoopExists
<1>4. LeastFacts(f) = h[start]
  <2> DEFINE IsSolution(g) == g = [a \in Analyses(f) |->
                                     LET b == Consequences(f, a) IN IF a = b THEN a ELSE g[b]]
  <2>1. LeastFacts(f) = (CHOOSE g : IsSolution(g))[start]
    BY DEF LeastFacts
  <2>2. \A g : IsLoop(g, S, Stop, step) <=> IsSolution(g)
    <3> TAKE g
    <3>1. \A a \in S : (IF a \in Stop THEN a ELSE g[step[a]])
                        = (LET b == Consequences(f, a) IN IF a = b THEN a ELSE g[b])
      OBVIOUS
    <3>2. [a \in S |-> IF a \in Stop THEN a ELSE g[step[a]]]
            = [a \in S |-> LET b == Consequences(f, a) IN IF a = b THEN a ELSE g[b]]
      <4> HIDE DEF S, Stop, step
      <4> QED
        BY <3>1
    <3> HIDE DEF Stop, step
    <3> QED
      BY <3>2 DEF IsLoop
  <2> HIDE DEF IsSolution, S, Stop, step
  <2>3. (CHOOSE g : IsSolution(g)) = (CHOOSE g : IsLoop(g, S, Stop, step))
    BY <2>2
  <2> QED
    BY <2>1, <2>3, Zenon DEF h
<1>5. start \in Rising
  <2>1. start \in S
    BY EndsAreFacts DEF Analyses
  <2>2. \A c \in S : IsWithin(f, start, c)
    BY <1>1, EndsHold DEF IsWithin, IsAnalysis
  <2> HIDE DEF start, S
  <2> QED
    BY <1>1, <2>1, <2>2
<1>6. ASSUME NEW a \in Rising \ Stop
      PROVE  step[a] \in Rising /\ gap[step[a]] < gap[a]
  <2> DEFINE b == Consequences(f, a)
  <2>1. a \in S /\ b \in S /\ a # b /\ IsWithin(f, a, b) /\ IsAnalysis(f, a) /\ IsAnalysis(f, b)
    BY <1>1
  <2>2. IsWithin(f, b, Consequences(f, b))
    BY <2>1, ConsequencesRise
  <2>3. ASSUME NEW c, IsClosed(c) PROVE IsWithin(f, b, c)
    <3>1. IsWithin(f, a, c) /\ IsAnalysis(f, c) /\ IsAnalysis(f, Consequences(f, c))
      BY <1>1, <2>3
    <3>2. IsWithin(f, b, Consequences(f, c))
      BY <2>1, <3>1, ConsequencesRise
    <3>3. IsWithin(f, Consequences(f, c), c)
      BY <2>3
    <3> QED
      BY <2>1, <3>1, <3>2, <3>3, WithinIsOrder
  <2>4. b \in Rising
    BY <2>1, <2>2, <2>3
  <2>5. ~ SameFacts(f, a, b)
    BY <2>1, AnalysesHold
  <2>6. Gap(f, b) < Gap(f, a)
    BY <2>1, <2>5, GapFalls
  <2> QED
    BY <2>1, <2>4, <2>6
<1>7. gap \in [Rising -> Nat] /\ left \in [Rising -> Nat]
  <2>1. \A a \in Rising : Gap(f, a) \in Nat
    BY <1>1, GapFalls, WithinIsOrder
  <2> QED
    BY <2>1
<1>8. h[start] \in Rising /\ h[start] \in Stop
  <2> HIDE DEF S, Stop, step, start, h, Rising, gap, left
  <2>1. Rising \in SUBSET S
    BY DEF Rising
  <2>2. \A s \in Rising \ Stop :
           /\ step[s] \in Rising
           /\ \/ gap[step[s]] < gap[s]
              \/ gap[step[s]] = gap[s] /\ left[step[s]] < left[s]
    BY <1>6
  <2>3. \A s \in Rising : h[s] \in Rising /\ h[s] \in Stop
    BY <1>2, <1>3, <1>7, <2>1, <2>2, LoopEnds
  <2> QED
    BY <1>5, <2>3
<1> HIDE DEF h, start
<1>9. \A c \in S : IsWithin(f, Consequences(f, c), c) => IsWithin(f, h[start], c)
  BY <1>8
<1> QED
  BY <1>4, <1>8, <1>9

-----------------------------------------------------------------------------
(* The solver: one update                                                  *)

\* A concatenation holds what its parts hold.
LEMMA ConcatenationHolds ==
  ASSUME NEW T, NEW s \in Seq(T), NEW t \in Seq(T)
  PROVE  ToSet(s \o t) = ToSet(s) \cup ToSet(t)
<1>1. /\ DOMAIN s = 1..Len(s) /\ DOMAIN t = 1..Len(t)
      /\ Len(s) \in Nat /\ Len(t) \in Nat
  BY LenProperties
<1>2. /\ s \o t \in Seq(T)
      /\ DOMAIN (s \o t) = 1..(Len(s) + Len(t))
      /\ \A i \in 1..(Len(s) + Len(t)) :
           (s \o t)[i] = IF i <= Len(s) THEN s[i] ELSE t[i - Len(s)]
  BY ConcatProperties, LenProperties
<1>3. ToSet(s \o t) \subseteq ToSet(s) \cup ToSet(t)
  <2> SUFFICES ASSUME NEW i \in 1..(Len(s) + Len(t))
               PROVE  (s \o t)[i] \in ToSet(s) \cup ToSet(t)
    BY <1>2 DEF ToSet
  <2>1. CASE i <= Len(s)
    BY <2>1, <1>1, <1>2 DEF ToSet
  <2>2. CASE ~(i <= Len(s))
    <3>1. i - Len(s) \in 1..Len(t) /\ (s \o t)[i] = t[i - Len(s)]
      BY <2>2, <1>1, <1>2
    <3> QED
      BY <3>1, <1>1 DEF ToSet
  <2> QED
    BY <2>1, <2>2
<1>4. ToSet(s) \subseteq ToSet(s \o t)
  <2> SUFFICES ASSUME NEW i \in 1..Len(s)
               PROVE  s[i] \in ToSet(s \o t)
    BY <1>1 DEF ToSet
  <2>1. i \in 1..(Len(s) + Len(t)) /\ (s \o t)[i] = s[i]
    BY <1>1, <1>2
  <2> QED
    BY <2>1, <1>2 DEF ToSet
<1>5. ToSet(t) \subseteq ToSet(s \o t)
  <2> SUFFICES ASSUME NEW i \in 1..Len(t)
               PROVE  t[i] \in ToSet(s \o t)
    BY <1>1 DEF ToSet
  <2>1. /\ i + Len(s) \in 1..(Len(s) + Len(t))
        /\ ~(i + Len(s) <= Len(s))
        /\ (i + Len(s)) - Len(s) = i
    BY <1>1
  <2>2. (s \o t)[i + Len(s)] = t[i]
    BY <2>1, <1>2
  <2> QED
    BY <2>1, <2>2, <1>2 DEF ToSet
<1> QED
  BY <1>3, <1>4, <1>5

\* Popping takes away the head and nothing else.
LEMMA PopTakesHead ==
  ASSUME NEW T, NEW items \in Seq(T), ~IsEmpty(items)
  PROVE  /\ Head(items) \in T
         /\ Tail(items) \in Seq(T)
         /\ ToSet(items) = {Head(items)} \cup ToSet(Tail(items))
<1>1. items # <<>>
  BY DEF IsEmpty
<1>2. /\ Head(items) \in T /\ Tail(items) \in Seq(T)
      /\ Len(Tail(items)) = Len(items) - 1
      /\ \A i \in 1..Len(Tail(items)) : Tail(items)[i] = items[i + 1]
  BY <1>1, HeadTailProperties
<1>3. /\ Len(items) \in Nat \ {0}
      /\ DOMAIN items = 1..Len(items)
      /\ DOMAIN Tail(items) = 1..(Len(items) - 1)
  BY <1>1, <1>2, EmptySeq, LenProperties
<1>4. Head(items) = items[1]
  BY <1>1
<1>5. ToSet(items) \subseteq {Head(items)} \cup ToSet(Tail(items))
  <2> SUFFICES ASSUME NEW i \in 1..Len(items), i # 1
               PROVE  items[i] \in ToSet(Tail(items))
    BY <1>3, <1>4 DEF ToSet
  <2>1. i - 1 \in 1..(Len(items) - 1) /\ (i - 1) + 1 = i
    BY <1>3
  <2>2. Tail(items)[i - 1] = items[i]
    BY <2>1, <1>2
  <2> QED
    BY <2>1, <2>2, <1>3 DEF ToSet
<1>6. {Head(items)} \cup ToSet(Tail(items)) \subseteq ToSet(items)
  <2>1. \A i \in 1..(Len(items) - 1) : i + 1 \in 1..Len(items)
    BY <1>3
  <2>2. 1 \in 1..Len(items)
    BY <1>3
  <2> QED
    BY <2>1, <2>2, <1>2, <1>3, <1>4 DEF ToSet
<1> QED
  BY <1>2, <1>5, <1>6

\* A list in either order lists the set.
LEMMA ListedHolds ==
  ASSUME NEW order, NEW S \in SUBSET Nat, IsFiniteSet(S)
  PROVE  Listed(order, S) \in Seq(S) /\ ToSet(Listed(order, S)) = S
<1> DEFINE s == InOrder(S)
           n == Len(s)
           r == [i \in 1..n |-> s[(n - i) + 1]]
<1>1. s \in Seq(S) /\ ToSet(s) = S
  BY InOrderEnumerates DEF Enumerates
<1>2. n \in Nat /\ DOMAIN s = 1..n /\ \A i \in 1..n : s[i] \in S
  BY <1>1, LenProperties
<1>3. \A x \in S : \E i \in 1..n : s[i] = x
  BY <1>1, <1>2 DEF ToSet
<1>4. Listed(order, S) = s \/ Listed(order, S) = r
  BY DEF Listed, Reverse
<1> HIDE DEF s, n
<1>5. \A i \in 1..n : (n - i) + 1 \in 1..n /\ n - ((n - i) + 1) + 1 = i
  BY <1>2
<1>6. r \in [1..n -> S]
  BY <1>2, <1>5
<1>7. r \in Seq(S)
  BY <1>2, <1>6
<1>8. \A i \in 1..n : r[(n - i) + 1] = s[i] /\ (n - i) + 1 \in DOMAIN r
  BY <1>5, <1>6
<1>9. ToSet(r) = S
  <2>1. \A x \in S : \E i \in DOMAIN r : r[i] = x
    <3> SUFFICES ASSUME NEW x \in S PROVE \E j \in DOMAIN r : r[j] = x
      OBVIOUS
    <3> HIDE DEF r
    <3>1. PICK i \in 1..n : s[i] = x
      BY <1>3, Zenon
    <3>2. (n - i) + 1 \in DOMAIN r /\ r[(n - i) + 1] = s[i]
      BY <1>8
    <3> QED
      BY <3>1, <3>2, Zenon
  <2>2. \A i \in DOMAIN r : r[i] \in S
    BY <1>6
  <2> HIDE DEF r
  <2> QED
    BY <2>1, <2>2 DEF ToSet
<1> QED
  BY <1>1, <1>4, <1>7, <1>9

\* A state, taken apart.
LEMMA StateParts ==
  ASSUME NEW f, NEW s \in SolverStates(f)
  PROVE  /\ s = [values |-> s.values, blocks |-> s.blocks, edges |-> s.edges, visited |-> s.visited,
                 scanning |-> s.scanning, blockWork |-> s.blockWork,
                 operationWork |-> s.operationWork, order |-> s.order]
         /\ s.values \in [DOMAIN f.values -> AbstractValue]
         /\ s.blocks \in SUBSET DOMAIN f.blocks /\ s.edges \in SUBSET Edges(f)
         /\ s.visited \in SUBSET DOMAIN f.blocks /\ s.scanning \in DOMAIN f.blocks \cup {None}
         /\ s.blockWork \in Seq(DOMAIN f.blocks) /\ s.operationWork \in Seq(DOMAIN f.operations)
         /\ s.order \in Orders
BY DEF SolverStates

\* A state, put together.
LEMMA StateBuilt ==
  ASSUME NEW f, NEW x \in [DOMAIN f.values -> AbstractValue],
         NEW B \in SUBSET DOMAIN f.blocks, NEW E \in SUBSET Edges(f),
         NEW V \in SUBSET DOMAIN f.blocks, NEW c \in DOMAIN f.blocks \cup {None},
         NEW p \in Seq(DOMAIN f.blocks), NEW q \in Seq(DOMAIN f.operations), NEW d \in Orders
  PROVE  [values |-> x, blocks |-> B, edges |-> E, visited |-> V, scanning |-> c,
          blockWork |-> p, operationWork |-> q, order |-> d] \in SolverStates(f)
BY DEF SolverStates

\* A state of the solver is an analysis.
LEMMA StatesAreAnalyses ==
  ASSUME NEW f, NEW s \in SolverStates(f)
  PROVE  IsAnalysis(f, s)
<1>1. /\ s.values \in [DOMAIN f.values -> AbstractValue]
      /\ s.blocks \in SUBSET DOMAIN f.blocks /\ s.edges \in SUBSET Edges(f)
  BY StateParts
<1> QED
  BY <1>1 DEF IsAnalysis

\* States that differ in nothing are the same.
LEMMA SameStates ==
  ASSUME NEW f, NEW s \in SolverStates(f), NEW t \in SolverStates(f), SameFacts(f, s, t),
         t.visited = s.visited, t.scanning = s.scanning, t.blockWork = s.blockWork,
         t.operationWork = s.operationWork, t.order = s.order
  PROVE  t = s
<1>1. /\ s.values \in [DOMAIN f.values -> AbstractValue]
      /\ t.values \in [DOMAIN f.values -> AbstractValue]
  BY StateParts
<1>2. t.values = s.values
  BY <1>1 DEF SameFacts
<1>3. /\ s = [values |-> s.values, blocks |-> s.blocks, edges |-> s.edges, visited |-> s.visited,
              scanning |-> s.scanning, blockWork |-> s.blockWork,
              operationWork |-> s.operationWork, order |-> s.order]
      /\ t = [values |-> t.values, blocks |-> t.blocks, edges |-> t.edges, visited |-> t.visited,
              scanning |-> t.scanning, blockWork |-> t.blockWork,
              operationWork |-> t.operationWork, order |-> t.order]
  BY StateParts
<1> QED
  BY <1>2, <1>3 DEF SameFacts

\* The operations that are told of a change of v.
Told(f, s, v) ==
  {o \in DOMAIN f.operations : /\ f.operations[o].block \in s.visited \ {s.scanning}
                               /\ \E i \in DOMAIN f.operations[o].operands :
                                    f.operations[o].operands[i] = v}

\* An update joins a fact to a value and, if that changes it, tells its users.
LEMMA UpdateHolds ==
  ASSUME NEW f, IsInOrder(f), NEW s \in SolverStates(f),
         NEW v \in DOMAIN f.values, NEW x \in AbstractValue
  PROVE  LET t == UpdateValue(f, s, v, x)
         IN  /\ t \in SolverStates(f)
             /\ t.values = [s.values EXCEPT ![v] = Join(s.values[v], x)]
             /\ t.blocks = s.blocks /\ t.edges = s.edges /\ t.visited = s.visited
             /\ t.scanning = s.scanning /\ t.blockWork = s.blockWork /\ t.order = s.order
             /\ t.values[v] = s.values[v] => t = s
             /\ t.values[v] # s.values[v] =>
                  ToSet(t.operationWork) = ToSet(s.operationWork) \cup Told(f, s, v)
<1> DEFINE next == Join(s.values[v], x)
           r == [s EXCEPT !.values[v] = next]
           users == {use[1] : use \in f.uses[v]}
           due == {o \in users : f.operations[o].block \in r.visited \ {r.scanning}}
           more == Listed(r.order, due \ ToSet(r.operationWork))
           t == UpdateValue(f, s, v, x)
<1>1. s.values[v] \in AbstractValue /\ next \in AbstractValue
  <2>1. s.values \in [DOMAIN f.values -> AbstractValue]
    BY StateParts
  <2>2. s.values[v] \in AbstractValue
    BY <2>1
  <2> QED
    BY <2>2, JoinHolds
<1>2. users = {o \in DOMAIN f.operations : \E i \in DOMAIN f.operations[o].operands :
                                             f.operations[o].operands[i] = v}
  <2>1. \A u : u \in f.uses[v] <=> Reads(f, u, v)
    BY ExactPointwise DEF IsInOrder, ListsWhatReads
  <2>2. ASSUME NEW o \in DOMAIN f.operations, NEW i \in DOMAIN f.operations[o].operands,
               f.operations[o].operands[i] = v
        PROVE  o \in users
    <3>1. <<o, i>> \in f.uses[v]
      BY <2>1, <2>2 DEF Reads
    <3>2. <<o, i>>[1] = o
      OBVIOUS
    <3> QED
      BY <3>1, <3>2
  <2> QED
    BY <2>1, <2>2 DEF Reads
<1>3. /\ r = [values |-> [s.values EXCEPT ![v] = next], blocks |-> s.blocks, edges |-> s.edges,
              visited |-> s.visited, scanning |-> s.scanning, blockWork |-> s.blockWork,
              operationWork |-> s.operationWork, order |-> s.order]
  <2>1. s = [values |-> s.values, blocks |-> s.blocks, edges |-> s.edges, visited |-> s.visited,
             scanning |-> s.scanning, blockWork |-> s.blockWork,
             operationWork |-> s.operationWork, order |-> s.order]
    BY StateParts
  <2> HIDE DEF next
  <2> QED
    BY <2>1
<1>4. due = Told(f, s, v)
  BY <1>2, <1>3 DEF Told
<1>5. due \in SUBSET Nat /\ IsFiniteSet(due)
  <2>1. due \subseteq DOMAIN f.operations
    BY <1>2
  <2> HIDE DEF due
  <2> QED
    BY <2>1, FS_Subset DEF IsInOrder, HasSuccessors
<1> HIDE DEF next, users
<1>6. CASE next = s.values[v]
  <2>1. t = s
    BY <1>6 DEF UpdateValue, next
  <2>2. [s.values EXCEPT ![v] = Join(s.values[v], x)] = s.values
    BY <1>6, StateParts DEF next
  <2> HIDE DEF t
  <2> QED
    BY <2>1, <2>2 DEF t
<1>7. CASE next # s.values[v]
  <2>1. t = [r EXCEPT !.operationWork = s.operationWork \o more]
    <3>1. t = ScheduleOperations(f, r, users)
      BY <1>7 DEF UpdateValue, next, users
    <3>2. r.operationWork = s.operationWork
      BY <1>3
    <3> HIDE DEF r
    <3> QED
      BY <3>1, <3>2 DEF ScheduleOperations
  <2> HIDE DEF due, r
  <2>2. more \in Seq(due) /\ ToSet(more) = due \ ToSet(s.operationWork)
    <3>1. due \ ToSet(r.operationWork) \in SUBSET Nat /\ IsFiniteSet(due \ ToSet(r.operationWork))
      BY <1>5, FS_Subset
    <3>2. more \in Seq(due \ ToSet(r.operationWork)) /\ ToSet(more) = due \ ToSet(r.operationWork)
      BY <3>1, ListedHolds
    <3>3. r.operationWork = s.operationWork
      BY <1>3
    <3> HIDE DEF more
    <3>4. \A i \in DOMAIN more : more[i] \in due
      BY <3>2, LenProperties
    <3> QED
      BY <3>2, <3>3, <3>4, LenProperties
  <2> DEFINE joined == s.operationWork \o more
  <2>3. t = [values |-> [s.values EXCEPT ![v] = next], blocks |-> s.blocks, edges |-> s.edges,
             visited |-> s.visited, scanning |-> s.scanning, blockWork |-> s.blockWork,
             operationWork |-> joined, order |-> s.order]
    <3> HIDE DEF joined, t
    <3> QED
      BY <1>3, <2>1 DEF joined
  <2>4. s.operationWork \in Seq(DOMAIN f.operations) /\ due \subseteq DOMAIN f.operations
    BY <1>4, StateParts DEF Told
  <2>5. joined \in Seq(DOMAIN f.operations) /\ ToSet(joined) = ToSet(s.operationWork) \cup due
    <3> HIDE DEF more
    <3>1. more \in Seq(DOMAIN f.operations)
      BY <2>2, <2>4
    <3>2. joined \in Seq(DOMAIN f.operations)
      BY <2>4, <3>1, ConcatProperties
    <3>3. ToSet(joined) = ToSet(s.operationWork) \cup ToSet(more)
      BY <2>4, <3>1, ConcatenationHolds
    <3> QED
      BY <2>2, <3>2, <3>3
  <2> HIDE DEF joined, t
  <2>6. t.values[v] = next
    BY <2>3, StateParts
  <2>7. t \in SolverStates(f)
    <3>1. [s.values EXCEPT ![v] = next] \in [DOMAIN f.values -> AbstractValue]
      BY <1>1, StateParts
    <3> QED
      BY <2>3, <2>5, <3>1, StateParts DEF SolverStates
  <2>8. /\ t.values = [s.values EXCEPT ![v] = next]
        /\ t.blocks = s.blocks /\ t.edges = s.edges /\ t.visited = s.visited
        /\ t.scanning = s.scanning /\ t.blockWork = s.blockWork /\ t.order = s.order
        /\ t.operationWork = joined
    BY <2>3
  <2> QED
    BY <1>4, <1>7, <2>5, <2>6, <2>7, <2>8 DEF t, next
<1> QED
  BY <1>6, <1>7

-----------------------------------------------------------------------------
(* The solver: what a visit does to the state                              *)

\* t is what the solver can make of s while it marks edges of N only: facts
\* rise, a block that is found waits to be scanned, what the facts that have
\* changed are told to waits to be visited, and without a change nothing waits
\* that did not wait before.
Grows(f, N, s, t) ==
  /\ t \in SolverStates(f) /\ IsWithin(f, s, t)
  /\ t.edges \subseteq s.edges \cup N
  /\ \A e \in t.edges \ s.edges : Target(f, e) \in t.blocks
  /\ t.visited = s.visited /\ t.scanning = s.scanning /\ t.order = s.order
  /\ ToSet(t.blockWork) = ToSet(s.blockWork) \cup (t.blocks \ s.blocks)
  /\ ToSet(s.operationWork) \subseteq ToSet(t.operationWork)
  /\ \A o \in ToSet(t.operationWork) :
       o \in ToSet(s.operationWork) \/ f.operations[o].block \in s.visited
  /\ \A o \in DOMAIN f.operations :
       f.operations[o].block \in s.visited \ {s.scanning} =>
         o \in ToSet(t.operationWork) \/ OperandsAgree(f, s, t, o)
  /\ SameFacts(f, s, t) => t.blockWork = s.blockWork /\ t.operationWork = s.operationWork

\* A state grows into itself.
LEMMA GrowsFromItself ==
  ASSUME NEW f, NEW N, NEW s \in SolverStates(f)
  PROVE  Grows(f, N, s, s)
<1>1. IsAnalysis(f, s)
  BY StatesAreAnalyses
<1>2. IsWithin(f, s, s)
  BY <1>1, WithinIsOrder
<1>3. ToSet(s.operationWork) \subseteq DOMAIN f.operations
  <2>1. s.operationWork \in Seq(DOMAIN f.operations)
    BY StateParts
  <2> QED
    BY <2>1, LenProperties DEF ToSet
<1> QED
  BY <1>2, <1>3 DEF Grows, OperandsAgree

\* It grows step by step.
LEMMA GrowsOn ==
  ASSUME NEW f, NEW N, NEW s \in SolverStates(f), NEW t, NEW u, Grows(f, N, s, t), Grows(f, N, t, u)
  PROVE  Grows(f, N, s, u)
<1>1. t \in SolverStates(f) /\ u \in SolverStates(f) /\ IsWithin(f, s, t) /\ IsWithin(f, t, u)
  BY DEF Grows
<1>2. IsAnalysis(f, s) /\ IsAnalysis(f, t) /\ IsAnalysis(f, u)
  BY <1>1, StatesAreAnalyses
<1>3. IsWithin(f, s, u)
  BY <1>1, <1>2, WithinIsOrder
<1>4. SameFacts(f, s, u) => SameFacts(f, s, t) /\ SameFacts(f, t, u)
  <2> SUFFICES ASSUME SameFacts(f, s, u) PROVE SameFacts(f, s, t) /\ SameFacts(f, t, u)
    OBVIOUS
  <2>1. IsWithin(f, t, s)
    BY <1>1 DEF SameFacts, IsWithin
  <2>2. SameFacts(f, s, t)
    BY <1>1, <1>2, <2>1, WithinIsOrder DEF SameFacts
  <2> QED
    BY <2>2 DEF SameFacts
<1>5. s.blocks \subseteq t.blocks /\ t.blocks \subseteq u.blocks
  BY <1>1 DEF IsWithin
<1>6. ASSUME NEW o \in DOMAIN f.operations, f.operations[o].block \in s.visited \ {s.scanning}
      PROVE  o \in ToSet(u.operationWork) \/ OperandsAgree(f, s, u, o)
  <2>1. o \in ToSet(t.operationWork) \/ OperandsAgree(f, s, t, o)
    BY <1>6 DEF Grows
  <2>2. o \in ToSet(u.operationWork) \/ OperandsAgree(f, t, u, o)
    BY <1>6 DEF Grows
  <2>3. ToSet(t.operationWork) \subseteq ToSet(u.operationWork)
    BY DEF Grows
  <2>4. OperandsAgree(f, s, t, o) /\ OperandsAgree(f, t, u, o) => OperandsAgree(f, s, u, o)
    <3> SUFFICES ASSUME OperandsAgree(f, s, t, o), OperandsAgree(f, t, u, o),
                        NEW i \in DOMAIN f.operations[o].operands
                 PROVE  s.values[f.operations[o].operands[i]] = u.values[f.operations[o].operands[i]]
      BY Zenon DEF OperandsAgree
    <3> DEFINE w == f.operations[o].operands[i]
    <3>1. s.values[w] = t.values[w] /\ t.values[w] = u.values[w]
      BY Zenon DEF OperandsAgree
    <3> QED
      BY <3>1, Zenon
  <2> QED
    BY <2>1, <2>2, <2>3, <2>4, Zenon
<1>7. \A e \in u.edges \ s.edges : Target(f, e) \in u.blocks
  BY <1>5 DEF Grows
<1>8. ToSet(u.blockWork) = ToSet(s.blockWork) \cup (u.blocks \ s.blocks)
  BY <1>5 DEF Grows
<1>9. \A o \in ToSet(u.operationWork) :
        o \in ToSet(s.operationWork) \/ f.operations[o].block \in s.visited
  BY DEF Grows
<1>10. /\ u.edges \subseteq s.edges \cup N
       /\ u.visited = s.visited /\ u.scanning = s.scanning /\ u.order = s.order
       /\ ToSet(s.operationWork) \subseteq ToSet(u.operationWork)
  BY DEF Grows
<1>11. SameFacts(f, s, u) => u.blockWork = s.blockWork /\ u.operationWork = s.operationWork
  BY <1>4 DEF Grows
<1> QED
  BY <1>1, <1>3, <1>6, <1>7, <1>8, <1>9, <1>10, <1>11 DEF Grows

\* Steps that each let the state grow let it grow from any of them to any later.
LEMMA GrowsAlong ==
  ASSUME NEW f, NEW N, NEW m \in Nat, NEW h, h[0] \in SolverStates(f),
         \A i \in 1..m : h[i - 1] \in SolverStates(f) => Grows(f, N, h[i - 1], h[i])
  PROVE  \A i \in 0..m : h[i] \in SolverStates(f) /\ \A j \in 0..i : Grows(f, N, h[j], h[i])
<1> DEFINE Q(i) == /\ h[i] \in SolverStates(f)
                   /\ \A j \in 0..i : h[j] \in SolverStates(f) /\ Grows(f, N, h[j], h[i])
           P == {i \in 0..m : Q(i)}
<1>1. 0 \in P
  <2>1. \A j \in 0..0 : j = 0
    OBVIOUS
  <2> QED
    BY <2>1, GrowsFromItself
<1>2. ASSUME NEW i \in 1..m, i - 1 \in P PROVE i \in P
  <2>1. Grows(f, N, h[i - 1], h[i]) /\ h[i] \in SolverStates(f)
    BY <1>2 DEF Grows
  <2>2. ASSUME NEW j \in 0..i PROVE h[j] \in SolverStates(f) /\ Grows(f, N, h[j], h[i])
    <3>1. CASE j = i
      BY <2>1, <3>1, GrowsFromItself
    <3>2. CASE j # i
      <4>1. j \in 0..(i - 1) /\ j \in 0..m /\ i - 1 \in 0..m
        BY <3>2
      <4>2. h[j] \in SolverStates(f) /\ Grows(f, N, h[j], h[i - 1])
        BY <1>2, <4>1
      <4> QED
        BY <2>1, <4>2, GrowsOn
    <3> QED
      BY <3>1, <3>2
  <2> QED
    BY <2>1, <2>2
<1> HIDE DEF P
<1>3. 0..m \subseteq P
  BY <1>1, <1>2, CountingUp
<1> QED
  BY <1>3 DEF P

\* What an update does, and what it leaves.
UpdatesTo(f, s, v, x, t) ==
  /\ t.blocks = s.blocks /\ t.edges = s.edges
  /\ IsCovered(x, t.values[v])
  /\ \A w \in (DOMAIN f.values) \ {v} : t.values[w] = s.values[w]
  /\ \A l : /\ IsAnalysis(f, l) /\ IsWithin(f, s, l)
            /\ IsCovered(x, l.values[v])
            => IsWithin(f, t, l)

\* An update lets the state grow.
LEMMA UpdateGrows ==
  ASSUME NEW f, IsInOrder(f), NEW N, NEW s \in SolverStates(f),
         NEW v \in DOMAIN f.values, NEW x \in AbstractValue
  PROVE  /\ Grows(f, N, s, UpdateValue(f, s, v, x))
         /\ UpdatesTo(f, s, v, x, UpdateValue(f, s, v, x))
<1> DEFINE t == UpdateValue(f, s, v, x)
           next == Join(s.values[v], x)
<1>1. /\ t \in SolverStates(f)
      /\ t.values = [s.values EXCEPT ![v] = next]
      /\ t.blocks = s.blocks /\ t.edges = s.edges /\ t.visited = s.visited
      /\ t.scanning = s.scanning /\ t.blockWork = s.blockWork /\ t.order = s.order
      /\ t.values[v] = s.values[v] => t = s
      /\ t.values[v] # s.values[v] =>
           ToSet(t.operationWork) = ToSet(s.operationWork) \cup Told(f, s, v)
  BY UpdateHolds
<1> HIDE DEF t
<1>2. s.values \in [DOMAIN f.values -> AbstractValue]
  BY StateParts
<1>3. /\ next \in AbstractValue /\ IsCovered(s.values[v], next) /\ IsCovered(x, next)
      /\ \A c \in AbstractValue : IsCovered(s.values[v], c) /\ IsCovered(x, c) => IsCovered(next, c)
  <2>1. s.values[v] \in AbstractValue
    BY <1>2
  <2> QED
    BY <2>1, JoinHolds
<1> HIDE DEF next
<1>4. t.values[v] = next /\ \A w \in (DOMAIN f.values) \ {v} : t.values[w] = s.values[w]
  BY <1>1, <1>2
<1>5. \A w \in DOMAIN f.values : s.values[w] \in AbstractValue /\ IsCovered(s.values[w], s.values[w])
  BY <1>2, CoverIsOrder
<1>6. IsWithin(f, s, t)
  BY <1>1, <1>3, <1>4, <1>5 DEF IsWithin
<1>7. ASSUME NEW l, IsAnalysis(f, l), IsWithin(f, s, l), IsCovered(x, l.values[v])
      PROVE  IsWithin(f, t, l)
  <2>1. IsCovered(next, l.values[v])
    BY <1>3, <1>7 DEF IsAnalysis, IsWithin
  <2> QED
    BY <1>1, <1>4, <1>7, <2>1 DEF IsWithin
<1>8. UpdatesTo(f, s, v, x, t)
  BY <1>1, <1>3, <1>4, <1>7 DEF UpdatesTo
<1>9. Grows(f, N, s, t)
  <2>1. CASE t.values[v] = s.values[v]
    BY <1>1, <2>1, GrowsFromItself
  <2>2. CASE t.values[v] # s.values[v]
    <3>1. ASSUME NEW o \in DOMAIN f.operations, f.operations[o].block \in s.visited \ {s.scanning},
                 o \notin Told(f, s, v)
          PROVE  OperandsAgree(f, s, t, o)
      <4>1. \A i \in DOMAIN f.operations[o].operands :
              f.operations[o].operands[i] \in (DOMAIN f.values) \ {v}
        BY <3>1, OperationsAreFit DEF Told, IsFitAt
      <4> QED
        BY <1>4, <4>1 DEF OperandsAgree
    <3>2. ~ SameFacts(f, s, t)
      BY <2>2 DEF SameFacts
    <3>3. ToSet(t.operationWork) = ToSet(s.operationWork) \cup Told(f, s, v)
      BY <1>1, <2>2
    <3> QED
      BY <1>1, <1>6, <3>1, <3>2, <3>3 DEF Grows, Told
  <2> QED
    BY <2>1, <2>2
<1> QED
  BY <1>8, <1>9 DEF t

-----------------------------------------------------------------------------
(* The solver: updates in a row                                            *)

\* Updates of vs in turn with the facts xs.
IsUpdating(g, f, s, m, vs, xs) ==
  g = [T \in SUBSET (1..m) |->
         IF T = {} THEN s ELSE UpdateValue(f, g[T \ {Max(T)}], vs[Max(T)], xs[Max(T)])]

\* There is such a loop.
LEMMA UpdatingExists ==
  ASSUME NEW f, IsInOrder(f), NEW s \in SolverStates(f), NEW m \in Nat,
         NEW vs, \A i \in 1..m : vs[i] \in DOMAIN f.values,
         NEW xs, \A i \in 1..m : xs[i] \in AbstractValue
  PROVE  \E g : IsUpdating(g, f, s, m, vs, xs)
<1> DEFINE S == SolverStates(f)
           step == [p \in S \X (1..m) |-> UpdateValue(f, p[1], vs[p[2]], xs[p[2]])]
<1>1. step \in [S \X (1..m) -> S]
  <2>1. ASSUME NEW p \in S \X (1..m) PROVE UpdateValue(f, p[1], vs[p[2]], xs[p[2]]) \in S
    <3>1. p[1] \in S /\ p[2] \in 1..m
      OBVIOUS
    <3>2. Grows(f, {}, p[1], UpdateValue(f, p[1], vs[p[2]], xs[p[2]]))
      BY <3>1, UpdateGrows
    <3> QED
      BY <3>2 DEF Grows
  <2> QED
    BY <2>1
<1>2. PICK g \in [SUBSET (1..m) -> S] : IsFold(g, m, s, step)
  <2> HIDE DEF step, S
  <2>1. s \in S
    BY DEF S
  <2> QED
    BY <1>1, <2>1, FoldExists
<1>3. ASSUME NEW T \in SUBSET (1..m), T # {}
      PROVE  step[<<g[T \ {Max(T)}], Max(T)>>] = UpdateValue(f, g[T \ {Max(T)}], vs[Max(T)], xs[Max(T)])
  <2>1. Max(T) \in 1..m
    BY <1>3, MaxHolds
  <2>2. g[T \ {Max(T)}] \in S
    OBVIOUS
  <2> DEFINE i == Max(T)
             a == g[T \ {Max(T)}]
  <2> HIDE DEF i, a, S
  <2>3. <<a, i>> \in S \X (1..m)
    BY <2>1, <2>2 DEF i, a
  <2>4. step[<<a, i>>] = UpdateValue(f, a, vs[i], xs[i])
    BY <2>3
  <2> QED
    BY <2>4 DEF i, a
<1> DEFINE left(T) == IF T = {} THEN s ELSE step[<<g[T \ {Max(T)}], Max(T)>>]
           right(T) == IF T = {} THEN s ELSE UpdateValue(f, g[T \ {Max(T)}], vs[Max(T)], xs[Max(T)])
<1>4. \A T \in SUBSET (1..m) : left(T) = right(T)
  <2> HIDE DEF step
  <2> QED
    BY <1>3
<1>5. g = [T \in SUBSET (1..m) |-> left(T)]
  BY <1>2 DEF IsFold
<1>6. g = [T \in SUBSET (1..m) |-> right(T)]
  <2> HIDE DEF left, right
  <2> QED
    BY <1>4, <1>5
<1> QED
  BY <1>6 DEF IsUpdating

\* What updates in a row do, and what they leave.
UpdateAllTo(f, s, m, vs, xs, t) ==
  /\ t.blocks = s.blocks /\ t.edges = s.edges
  /\ \A i \in 1..m : IsCovered(xs[i], t.values[vs[i]])
  /\ \A w \in DOMAIN f.values : (\A i \in 1..m : w # vs[i]) => t.values[w] = s.values[w]
  /\ \A l : /\ IsAnalysis(f, l) /\ IsWithin(f, s, l)
            /\ \A i \in 1..m : IsCovered(xs[i], l.values[vs[i]])
            => IsWithin(f, t, l)

\* Updates in a row let the state grow.
LEMMA UpdatesGrow ==
  ASSUME NEW f, IsInOrder(f), NEW N, NEW s \in SolverStates(f), NEW m \in Nat,
         NEW vs, \A i \in 1..m : vs[i] \in DOMAIN f.values,
         NEW xs, \A i \in 1..m : xs[i] \in AbstractValue,
         NEW g, IsUpdating(g, f, s, m, vs, xs)
  PROVE  Grows(f, N, s, g[1..m]) /\ UpdateAllTo(f, s, m, vs, xs, g[1..m])
<1> DEFINE h == [i \in 0..m |-> g[1..i]]
<1>1. h[0] = s
  <2>1. 1..0 = {} /\ {} \in SUBSET (1..m)
    OBVIOUS
  <2>2. g[{}] = s
    BY <2>1 DEF IsUpdating
  <2>3. h[0] = g[1..0]
    OBVIOUS
  <2> QED
    BY <2>1, <2>2, <2>3
<1>2. ASSUME NEW i \in 1..m PROVE h[i] = UpdateValue(f, h[i - 1], vs[i], xs[i])
  <2>1. /\ 1..i \in SUBSET (1..m) /\ 1..i # {} /\ Max(1..i) = i
        /\ (1..i) \ {i} = 1..(i - 1) /\ i - 1 \in 0..m
    BY FirstNumbers
  <2>2. g[1..i] = UpdateValue(f, g[(1..i) \ {i}], vs[i], xs[i])
    BY <2>1 DEF IsUpdating
  <2>3. h[i] = g[1..i] /\ h[i - 1] = g[1..(i - 1)]
    BY <2>1
  <2> QED
    BY <2>1, <2>2, <2>3
<1>3. h[m] = g[1..m] /\ m \in 0..m
  OBVIOUS
<1> HIDE DEF h
<1>4. \A i \in 1..m : h[i - 1] \in SolverStates(f) =>
        Grows(f, N, h[i - 1], h[i]) /\ UpdatesTo(f, h[i - 1], vs[i], xs[i], h[i])
  BY <1>2, UpdateGrows
<1>5. \A i \in 0..m : h[i] \in SolverStates(f) /\ \A j \in 0..i : Grows(f, N, h[j], h[i])
  BY <1>1, <1>4, GrowsAlong
<1>6. \A i \in 1..m : i - 1 \in 0..m /\ i \in 0..m
  OBVIOUS
<1>7. \A i \in 1..m : UpdatesTo(f, h[i - 1], vs[i], xs[i], h[i])
  BY <1>4, <1>5, <1>6
<1> DEFINE t == h[m]
<1>8. t.blocks = s.blocks /\ t.edges = s.edges
  <2> DEFINE P == {i \in 0..m : h[i].blocks = s.blocks /\ h[i].edges = s.edges}
  <2>1. 0 \in P /\ \A i \in 1..m : i - 1 \in P => i \in P
    BY <1>1, <1>7 DEF UpdatesTo
  <2> HIDE DEF P
  <2>2. m \in P
    BY <1>3, <2>1, CountingUp
  <2> QED
    BY <2>2 DEF P
<1>9. ASSUME NEW i \in 1..m PROVE IsCovered(xs[i], t.values[vs[i]])
  <2>1. IsCovered(xs[i], h[i].values[vs[i]])
    BY <1>7 DEF UpdatesTo
  <2>2. IsWithin(f, h[i], t)
    BY <1>3, <1>5, <1>6 DEF Grows
  <2>3. h[i] \in SolverStates(f) /\ t \in SolverStates(f)
    BY <1>3, <1>5, <1>6
  <2>4. IsAnalysis(f, h[i]) /\ IsAnalysis(f, t)
    BY <2>3, StatesAreAnalyses
  <2>5. /\ xs[i] \in AbstractValue /\ vs[i] \in DOMAIN f.values
        /\ h[i].values[vs[i]] \in AbstractValue /\ t.values[vs[i]] \in AbstractValue
        /\ IsCovered(h[i].values[vs[i]], t.values[vs[i]])
    BY <2>2, <2>4 DEF IsAnalysis, IsWithin
  <2> QED
    BY <2>1, <2>5, CoverIsOrder
<1>10. ASSUME NEW w \in DOMAIN f.values, \A i \in 1..m : w # vs[i] PROVE t.values[w] = s.values[w]
  <2> DEFINE P == {i \in 0..m : h[i].values[w] = s.values[w]}
  <2>1. 0 \in P /\ \A i \in 1..m : i - 1 \in P => i \in P
    BY <1>1, <1>7, <1>10 DEF UpdatesTo
  <2> HIDE DEF P
  <2>2. m \in P
    BY <1>3, <2>1, CountingUp
  <2> QED
    BY <2>2 DEF P
<1>11. ASSUME NEW l, IsAnalysis(f, l), IsWithin(f, s, l),
              \A i \in 1..m : IsCovered(xs[i], l.values[vs[i]])
       PROVE  IsWithin(f, t, l)
  <2> DEFINE P == {i \in 0..m : IsWithin(f, h[i], l)}
  <2>1. 0 \in P /\ \A i \in 1..m : i - 1 \in P => i \in P
    BY <1>1, <1>7, <1>11 DEF UpdatesTo
  <2> HIDE DEF P
  <2>2. m \in P
    BY <1>3, <2>1, CountingUp
  <2> QED
    BY <2>2 DEF P
<1>12. Grows(f, N, s, t)
  BY <1>1, <1>3, <1>5
<1>13. UpdateAllTo(f, s, m, vs, xs, t)
  <2> HIDE DEF t
  <2> QED
    BY <1>8, <1>9, <1>10, <1>11 DEF UpdateAllTo
<1> QED
  BY <1>3, <1>12, <1>13

\* What a visit of o finds out about its results.
LEMMA ValueVisitsUpdate ==
  ASSUME NEW f, IsInOrder(f), NEW s \in SolverStates(f), NEW o \in DOMAIN f.operations
  PROVE  LET vs == f.operations[o].results
             m  == Len(vs)
             xs == [i \in 1..m |-> ResultFact(f, s, o)]
         IN  \E g : IsUpdating(g, f, s, m, vs, xs) /\ VisitValueOperation(f, s, o) = g[1..m]
<1> DEFINE vs == f.operations[o].results
           m  == Len(vs)
           R  == ResultFact(f, s, o)
           xs == [i \in 1..m |-> R]
<1>1. m \in Nat /\ DOMAIN vs = 1..m /\ \A i \in 1..m : vs[i] \in DOMAIN f.values
  BY OperationsAreFit DEF IsFitAt
<1>2. IsAnalysis(f, s)
  BY StatesAreAnalyses
<1>3. R \in AbstractValue
  BY <1>2, WithinIsOrder, WithinRises, ResultRises
<1>4. \A i \in 1..m : xs[i] \in AbstractValue
  BY <1>3
<1>5. \E g : IsUpdating(g, f, s, m, vs, xs)
  <2> HIDE DEF vs, m, xs
  <2> QED
    BY <1>1, <1>4, UpdatingExists
<1> DEFINE IsIteration(g) ==
             g = [T \in SUBSET (DOMAIN vs) |->
                    IF T = {} THEN s ELSE UpdateValue(f, g[T \ {Max(T)}], vs[Max(T)], R)]
<1>6. VisitValueOperation(f, s, o) = (CHOOSE g : IsIteration(g))[DOMAIN vs]
  BY DEF VisitValueOperation, FoldLeft, MapThenFoldSet
<1>7. ASSUME NEW g PROVE IsIteration(g) <=> IsUpdating(g, f, s, m, vs, xs)
  <2> DEFINE left(T) == IF T = {} THEN s ELSE UpdateValue(f, g[T \ {Max(T)}], vs[Max(T)], R)
             right(T) == IF T = {} THEN s ELSE UpdateValue(f, g[T \ {Max(T)}], vs[Max(T)], xs[Max(T)])
  <2>1. ASSUME NEW T \in SUBSET (1..m) PROVE left(T) = right(T)
    <3>1. CASE T = {}
      BY <3>1
    <3>2. CASE T # {}
      <4>1. Max(T) \in 1..m
        BY <1>1, <3>2, MaxHolds
      <4>2. xs[Max(T)] = R
        BY <4>1
      <4> HIDE DEF xs
      <4> QED
        BY <3>2, <4>2
    <3> QED
      BY <3>1, <3>2
  <2>2. [T \in SUBSET (1..m) |-> left(T)] = [T \in SUBSET (1..m) |-> right(T)]
    <3> HIDE DEF left, right
    <3> QED
      BY <2>1
  <2>3. IsIteration(g) <=> g = [T \in SUBSET (1..m) |-> left(T)]
    BY <1>1, Zenon
  <2> QED
    BY <2>2, <2>3, Zenon DEF IsUpdating
<1> HIDE DEF IsIteration, xs, vs, m
<1>8. PICK g : g = (CHOOSE h : IsIteration(h)) /\ IsIteration(g)
  BY <1>5, <1>7
<1>9. IsUpdating(g, f, s, m, vs, xs) /\ VisitValueOperation(f, s, o) = g[1..m]
  BY <1>1, <1>6, <1>7, <1>8
<1> QED
  BY <1>9 DEF xs, vs, m, R

\* Nothing follows from l that l leaves out.
IsSaturated(f, l) == IsAnalysis(f, l) /\ IsWithin(f, Consequences(f, l), l)

\* What the value v says of the place that defines it.
IsResultAt(f, v, o, i) ==
  /\ v \in DOMAIN f.values
  /\ f.values[v].kind = "OperationResult"
  /\ f.values[v].operation = o
  /\ f.values[v].index = i

IsParameterAt(f, v, b, k) ==
  /\ v \in DOMAIN f.values
  /\ f.values[v].kind = "BlockParameter"
  /\ f.values[v].block = b
  /\ f.values[v].index = k

\* What an operation defines says so.
LEMMA ResultPlace ==
  ASSUME NEW f, IsInOrder(f),
         NEW o \in DOMAIN f.operations, NEW i \in DOMAIN f.operations[o].results
  PROVE  IsResultAt(f, f.operations[o].results[i], o, i)
<1> DEFINE v == f.operations[o].results[i]
           d == f.values[v]
<1>1. v \in DOMAIN f.values /\ d = [kind |-> "OperationResult", operation |-> o, index |-> i]
  BY Zenon DEF IsInOrder, DefinitionsAreExact, IsDefinedAs
<1> HIDE DEF d
<1>2. d.kind = "OperationResult" /\ d.operation = o /\ d.index = i
  BY <1>1
<1> QED
  BY <1>1, <1>2, Zenon DEF IsResultAt, d

\* What a block defines says so.
LEMMA ParameterPlace ==
  ASSUME NEW f, IsInOrder(f),
         NEW b \in DOMAIN f.blocks, NEW k \in DOMAIN f.blocks[b].parameters
  PROVE  IsParameterAt(f, f.blocks[b].parameters[k].value, b, k)
<1> DEFINE v == f.blocks[b].parameters[k].value
           d == f.values[v]
<1>1. v \in DOMAIN f.values /\ d = [kind |-> "BlockParameter", block |-> b, index |-> k]
  BY Zenon DEF IsInOrder, DefinitionsAreExact, IsDefinedAs
<1> HIDE DEF d
<1>2. d.kind = "BlockParameter" /\ d.block = b /\ d.index = k
  BY <1>1
<1> QED
  BY <1>1, <1>2, Zenon DEF IsParameterAt, d

\* What a visit of the value operation o does, and what it leaves.
ValueVisitTo(f, s, o, t) ==
  /\ t.blocks = s.blocks /\ t.edges = s.edges
  /\ \A i \in DOMAIN f.operations[o].results :
       IsCovered(ResultFact(f, s, o), t.values[f.operations[o].results[i]])
  /\ \A w \in DOMAIN f.values :
       w \notin ToSet(f.operations[o].results) => t.values[w] = s.values[w]
  /\ \A l : /\ IsSaturated(f, l) /\ IsWithin(f, s, l)
            /\ f.operations[o].block \in l.blocks
            => IsWithin(f, t, l)

\* A visit of a value operation lets the state grow.
LEMMA ValueVisitGrows ==
  ASSUME NEW f, IsInOrder(f), NEW N, NEW s \in SolverStates(f), NEW o \in DOMAIN f.operations
  PROVE  /\ Grows(f, N, s, VisitValueOperation(f, s, o))
         /\ ValueVisitTo(f, s, o, VisitValueOperation(f, s, o))
<1> DEFINE vs == f.operations[o].results
           m  == Len(vs)
           R  == ResultFact(f, s, o)
           xs == [i \in 1..m |-> R]
           t  == VisitValueOperation(f, s, o)
<1>1. m \in Nat /\ DOMAIN vs = 1..m /\ \A i \in 1..m : vs[i] \in DOMAIN f.values
  BY OperationsAreFit DEF IsFitAt
<1>2. IsAnalysis(f, s)
  BY StatesAreAnalyses
<1>3. R \in AbstractValue
  BY <1>2, WithinIsOrder, WithinRises, ResultRises
<1>4. \A i \in 1..m : xs[i] = R /\ xs[i] \in AbstractValue
  BY <1>3
<1>5. PICK g : IsUpdating(g, f, s, m, vs, xs) /\ t = g[1..m]
  BY ValueVisitsUpdate
<1>6. ASSUME NEW l, IsSaturated(f, l), IsWithin(f, s, l), f.operations[o].block \in l.blocks,
             NEW i \in 1..m
      PROVE  IsCovered(R, l.values[vs[i]])
  <2>1. IsAnalysis(f, l)
    BY <1>6 DEF IsSaturated
  <2>2. ResultFact(f, l, o) \in AbstractValue /\ IsCovered(R, ResultFact(f, l, o))
    BY <1>2, <1>6, <2>1, WithinRises, ResultRises
  <2>3. /\ f.values[vs[i]].kind = "OperationResult" /\ f.values[vs[i]].operation = o
        /\ vs[i] \in DOMAIN f.values
    <3>1. i \in DOMAIN vs
      BY <1>1
    <3>2. IsResultAt(f, vs[i], o, i)
      BY <3>1, ResultPlace
    <3> QED
      BY <3>2, Zenon DEF IsResultAt
  <2>4. DefiningBlock(f, vs[i]) = f.operations[o].block
    BY <2>3 DEF DefiningBlock
  <2>5. ValueFact(f, l, vs[i]) = ResultFact(f, l, o)
    BY <1>6, <2>3, <2>4 DEF ValueFact
  <2>6. IsCovered(ResultFact(f, l, o), l.values[vs[i]])
    BY <1>6, <2>3, <2>5 DEF IsSaturated, IsWithin, Consequences
  <2>7. l.values[vs[i]] \in AbstractValue
    BY <2>1, <2>3 DEF IsAnalysis
  <2> QED
    BY <1>3, <2>2, <2>6, <2>7, CoverIsOrder
<1> HIDE DEF t, xs, R, m
<1>7. Grows(f, N, s, t) /\ UpdateAllTo(f, s, m, vs, xs, t)
  BY <1>1, <1>4, <1>5, UpdatesGrow
<1>8. ASSUME NEW w \in DOMAIN f.values, w \notin ToSet(vs) PROVE t.values[w] = s.values[w]
  <2>1. \A i \in 1..m : w # vs[i]
    BY <1>1, <1>8 DEF ToSet
  <2> QED
    BY <1>7, <2>1 DEF UpdateAllTo
<1>9. \A i \in DOMAIN vs : IsCovered(R, t.values[vs[i]])
  BY <1>1, <1>4, <1>7 DEF UpdateAllTo
<1>10. ASSUME NEW l, IsSaturated(f, l), IsWithin(f, s, l), f.operations[o].block \in l.blocks
       PROVE  IsWithin(f, t, l)
  <2>1. \A i \in 1..m : IsCovered(xs[i], l.values[vs[i]])
    BY <1>4, <1>6, <1>10
  <2>2. IsAnalysis(f, l)
    BY <1>10 DEF IsSaturated
  <2> QED
    BY <1>7, <1>10, <2>1, <2>2 DEF UpdateAllTo
<1>11. t.blocks = s.blocks /\ t.edges = s.edges
  BY <1>7 DEF UpdateAllTo
<1>12. ValueVisitTo(f, s, o, t)
  BY <1>8, <1>9, <1>10, <1>11 DEF ValueVisitTo, R
<1> QED
  BY <1>7, <1>12 DEF t

-----------------------------------------------------------------------------
(* The solver: edges                                                       *)

\* State t is what s becomes when each parameter of a block gets the join of its inputs.
Recomputes(f, s, b, t) ==
  LET m  == Len(f.blocks[b].parameters)
      vs == [k \in 1..m |-> f.blocks[b].parameters[k].value]
      xs == [k \in 1..m |-> JoinAll(Inputs(f, s, b, k))]
  IN  \E g : IsUpdating(g, f, s, m, vs, xs) /\ t = g[1..m]

\* What the parameters of a block get.
LEMMA RecomputingUpdates ==
  ASSUME NEW f, IsInOrder(f), NEW s \in SolverStates(f), NEW b \in DOMAIN f.blocks
  PROVE  Recomputes(f, s, b, RecomputeBlockParameters(f, s, b))
<1> DEFINE ps == f.blocks[b].parameters
           m  == Len(ps)
           vs == [k \in 1..m |-> ps[k].value]
           xs == [k \in 1..m |-> JoinAll(Inputs(f, s, b, k))]
<1>1. m \in Nat /\ DOMAIN ps = 1..m
  BY LenProperties DEF IsInOrder, IsLaidOut
<1>2. \A k \in 1..m : vs[k] \in DOMAIN f.values
  BY <1>1, ParameterPlace DEF IsParameterAt
<1>3. \A k \in 1..m : xs[k] \in AbstractValue
  <2>1. IsAnalysis(f, s)
    BY StatesAreAnalyses
  <2>2. IsWithin(f, s, s)
    BY <2>1, WithinIsOrder
  <2> QED
    BY <1>1, <2>1, <2>2, InputsRise
<1>5. \E g : IsUpdating(g, f, s, m, vs, xs)
  <2> HIDE DEF vs, m, xs
  <2> QED
    BY <1>1, <1>2, <1>3, UpdatingExists
<1> DEFINE incoming == [k \in DOMAIN ps |->
                          JoinAll({Incoming(f, s, e, k) : e \in IncomingEdges(f, b) \cap s.edges})]
           ks == [k \in DOMAIN ps |-> k]
           IsIteration(g) ==
             g = [T \in SUBSET (DOMAIN ks) |->
                    IF T = {} THEN s
                    ELSE UpdateValue(f, g[T \ {Max(T)}], ps[ks[Max(T)]].value, incoming[ks[Max(T)]])]
<1>6. RecomputeBlockParameters(f, s, b) = (CHOOSE g : IsIteration(g))[DOMAIN ks]
  BY DEF RecomputeBlockParameters, FoldLeft, MapThenFoldSet
<1>4. DOMAIN ks = 1..m /\ incoming = xs
  BY <1>1 DEF Inputs
<1>7. ASSUME NEW g PROVE IsIteration(g) <=> IsUpdating(g, f, s, m, vs, xs)
  <2> DEFINE left(T) == IF T = {} THEN s
                        ELSE UpdateValue(f, g[T \ {Max(T)}], ps[ks[Max(T)]].value, incoming[ks[Max(T)]])
             right(T) == IF T = {} THEN s ELSE UpdateValue(f, g[T \ {Max(T)}], vs[Max(T)], xs[Max(T)])
  <2>1. ASSUME NEW T \in SUBSET (1..m) PROVE left(T) = right(T)
    <3>1. CASE T = {}
      BY <3>1
    <3>2. CASE T # {}
      <4>1. Max(T) \in 1..m
        BY <1>1, <3>2, MaxHolds
      <4>2. ks[Max(T)] = Max(T) /\ vs[Max(T)] = ps[Max(T)].value
        BY <1>1, <4>1
      <4> HIDE DEF xs, incoming, ks, vs
      <4> QED
        BY <1>4, <3>2, <4>2
    <3> QED
      BY <3>1, <3>2
  <2>2. [T \in SUBSET (1..m) |-> left(T)] = [T \in SUBSET (1..m) |-> right(T)]
    <3> HIDE DEF left, right
    <3> QED
      BY <2>1
  <2>3. IsIteration(g) <=> g = [T \in SUBSET (1..m) |-> left(T)]
    <3> HIDE DEF ks, incoming
    <3> QED
      BY <1>4, Zenon
  <2> QED
    BY <2>2, <2>3, Zenon DEF IsUpdating
<1> HIDE DEF IsIteration, xs, vs, m, ks
<1>8. PICK g : g = (CHOOSE h : IsIteration(h)) /\ IsIteration(g)
  BY <1>5, <1>7
<1>9. IsUpdating(g, f, s, m, vs, xs) /\ RecomputeBlockParameters(f, s, b) = g[1..m]
  BY <1>4, <1>6, <1>7, <1>8
<1> QED
  BY <1>9 DEF Recomputes, xs, vs, m, ps

\* What is appended is in the list.
LEMMA AppendHolds ==
  ASSUME NEW T, NEW s \in Seq(T), NEW x \in T
  PROVE  Append(s, x) \in Seq(T) /\ ToSet(Append(s, x)) = ToSet(s) \cup {x}
<1>1. /\ Append(s, x) \in Seq(T) /\ Len(Append(s, x)) = Len(s) + 1 /\ Len(s) \in Nat
      /\ \A i \in 1..Len(s) : Append(s, x)[i] = s[i]
      /\ Append(s, x)[Len(s) + 1] = x
  BY AppendProperties, LenProperties
<1>2. DOMAIN s = 1..Len(s) /\ DOMAIN Append(s, x) = 1..(Len(s) + 1)
  BY <1>1, LenProperties
<1> DEFINE t == Append(s, x)
           n == Len(s)
<1> HIDE DEF t, n
<1>3. \A i \in 1..(n + 1) : i \in 1..n \/ i = n + 1
  BY <1>1 DEF n
<1>4. \A i \in 1..n : i \in 1..(n + 1)
  BY <1>1 DEF n
<1>5. n + 1 \in 1..(n + 1)
  BY <1>1 DEF n
<1>6. ToSet(t) = ToSet(s) \cup {x}
  BY <1>1, <1>2, <1>3, <1>4, <1>5 DEF ToSet, t, n
<1> QED
  BY <1>1, <1>6 DEF t

\* A block that is found to execute is added once.
LEMMA BlockMarked ==
  ASSUME NEW f, NEW s \in SolverStates(f), NEW b \in DOMAIN f.blocks
  PROVE  LET t == MarkBlockExecutable(s, b)
         IN  /\ t \in SolverStates(f)
             /\ t.blocks = s.blocks \cup {b}
             /\ ToSet(t.blockWork) = ToSet(s.blockWork) \cup (t.blocks \ s.blocks)
             /\ b \in s.blocks => t = s
             /\ t.values = s.values /\ t.edges = s.edges /\ t.visited = s.visited
             /\ t.scanning = s.scanning /\ t.operationWork = s.operationWork /\ t.order = s.order
<1> DEFINE t == MarkBlockExecutable(s, b)
<1>1. CASE b \in s.blocks
  <2>1. t = s
    BY <1>1 DEF MarkBlockExecutable
  <2> HIDE DEF t
  <2> QED
    BY <1>1, <2>1 DEF t
<1>2. CASE b \notin s.blocks
  <2>0. /\ s = [values |-> s.values, blocks |-> s.blocks, edges |-> s.edges, visited |-> s.visited,
                scanning |-> s.scanning, blockWork |-> s.blockWork,
                operationWork |-> s.operationWork, order |-> s.order]
        /\ s.values \in [DOMAIN f.values -> AbstractValue]
        /\ s.blocks \in SUBSET DOMAIN f.blocks /\ s.edges \in SUBSET Edges(f)
        /\ s.visited \in SUBSET DOMAIN f.blocks /\ s.scanning \in DOMAIN f.blocks \cup {None}
        /\ s.blockWork \in Seq(DOMAIN f.blocks) /\ s.operationWork \in Seq(DOMAIN f.operations)
        /\ s.order \in Orders
    BY StateParts
  <2> DEFINE p == Append(s.blockWork, b)
  <2>1. p \in Seq(DOMAIN f.blocks) /\ ToSet(p) = ToSet(s.blockWork) \cup {b}
    BY <2>0, AppendHolds
  <2>2. t = [s EXCEPT !.blocks = s.blocks \cup {b}, !.blockWork = p]
    BY <1>2 DEF MarkBlockExecutable
  <2> HIDE DEF t, p
  <2>3. t = [values |-> s.values, blocks |-> s.blocks \cup {b}, edges |-> s.edges,
             visited |-> s.visited, scanning |-> s.scanning, blockWork |-> p,
             operationWork |-> s.operationWork, order |-> s.order]
    BY <2>0, <2>2
  <2>4. t \in SolverStates(f)
    BY <2>0, <2>1, <2>3, StateBuilt
  <2>5. /\ t.values = s.values /\ t.edges = s.edges /\ t.visited = s.visited
        /\ t.scanning = s.scanning /\ t.operationWork = s.operationWork /\ t.order = s.order
        /\ t.blocks = s.blocks \cup {b} /\ t.blockWork = p
    BY <2>3
  <2>6. ToSet(t.blockWork) = ToSet(s.blockWork) \cup (t.blocks \ s.blocks)
    BY <1>2, <2>1, <2>5
  <2> QED
    BY <1>2, <2>4, <2>5, <2>6 DEF t
<1> QED
  BY <1>1, <1>2

\* What is done to the edge e, and what is left.
EdgeMarkTo(f, s, e, t) ==
  /\ e \in t.edges
  /\ \A k \in DOMAIN f.blocks[Target(f, e)].parameters :
       IsCovered(Incoming(f, s, e, k), t.values[f.blocks[Target(f, e)].parameters[k].value])
  /\ \A l : /\ IsSaturated(f, l) /\ IsWithin(f, s, l)
            /\ e \in l.edges
            => IsWithin(f, t, l)

\* To mark an edge lets the state grow.
LEMMA EdgeMarkGrows ==
  ASSUME NEW f, IsInOrder(f), NEW N, NEW s \in SolverStates(f), NEW e \in Edges(f), e \in N
  PROVE  /\ Grows(f, N, s, MarkEdgeExecutable(f, s, e))
         /\ EdgeMarkTo(f, s, e, MarkEdgeExecutable(f, s, e))
<1> DEFINE b  == Target(f, e)
           s1 == [s EXCEPT !.edges = @ \cup {e}]
           s2 == MarkBlockExecutable(s1, b)
           t  == RecomputeBlockParameters(f, s2, b)
           ps == f.blocks[b].parameters
           m  == Len(ps)
           vs == [k \in 1..m |-> ps[k].value]
           xs == [k \in 1..m |-> JoinAll(Inputs(f, s2, b, k))]
<1>0. /\ s = [values |-> s.values, blocks |-> s.blocks, edges |-> s.edges, visited |-> s.visited,
              scanning |-> s.scanning, blockWork |-> s.blockWork,
              operationWork |-> s.operationWork, order |-> s.order]
      /\ s.values \in [DOMAIN f.values -> AbstractValue]
      /\ s.blocks \in SUBSET DOMAIN f.blocks /\ s.edges \in SUBSET Edges(f)
      /\ s.visited \in SUBSET DOMAIN f.blocks /\ s.scanning \in DOMAIN f.blocks \cup {None}
      /\ s.blockWork \in Seq(DOMAIN f.blocks) /\ s.operationWork \in Seq(DOMAIN f.operations)
      /\ s.order \in Orders
  BY StateParts
<1>1. b \in DOMAIN f.blocks /\ e[1] \in DOMAIN f.operations /\ e = <<e[1], e[2]>>
  BY EdgesAreEnds
<1>2. s1 = [values |-> s.values, blocks |-> s.blocks, edges |-> s.edges \cup {e},
            visited |-> s.visited, scanning |-> s.scanning, blockWork |-> s.blockWork,
            operationWork |-> s.operationWork, order |-> s.order]
  <2>1. s = [values |-> s.values, blocks |-> s.blocks, edges |-> s.edges, visited |-> s.visited,
             scanning |-> s.scanning, blockWork |-> s.blockWork,
             operationWork |-> s.operationWork, order |-> s.order]
    BY <1>0
  <2>2. s1 = [s EXCEPT !.edges = s.edges \cup {e}]
    OBVIOUS
  <2> HIDE DEF s1
  <2> QED
    BY <2>1, <2>2
<1> HIDE DEF s1
<1>3. s1 \in SolverStates(f)
  BY <1>0, <1>2, StateBuilt
<1>4. /\ s1.values = s.values /\ s1.edges = s.edges \cup {e} /\ s1.visited = s.visited
      /\ s1.scanning = s.scanning /\ s1.operationWork = s.operationWork /\ s1.order = s.order
      /\ s1.blocks = s.blocks /\ s1.blockWork = s.blockWork
  BY <1>2
<1>5. /\ s2 \in SolverStates(f)
      /\ s2.blocks = s1.blocks \cup {b}
      /\ ToSet(s2.blockWork) = ToSet(s1.blockWork) \cup (s2.blocks \ s1.blocks)
      /\ b \in s1.blocks => s2 = s1
      /\ s2.values = s1.values /\ s2.edges = s1.edges /\ s2.visited = s1.visited
      /\ s2.scanning = s1.scanning /\ s2.operationWork = s1.operationWork /\ s2.order = s1.order
  BY <1>1, <1>3, BlockMarked
<1> HIDE DEF s2, b
<1>6. IsAnalysis(f, s) /\ IsAnalysis(f, s2)
  BY <1>5, StatesAreAnalyses
<1>7. IsWithin(f, s, s2)
  <2>1. \A v \in DOMAIN f.values : IsCovered(s.values[v], s.values[v])
    BY <1>0, CoverIsOrder
  <2> QED
    BY <1>4, <1>5, <2>1 DEF IsWithin
<1>8. ToSet(s.operationWork) \subseteq DOMAIN f.operations
  BY <1>0, LenProperties DEF ToSet
<1>9. Grows(f, N, s, s2)
  <2>1. \A x \in s2.edges \ s.edges : Target(f, x) \in s2.blocks
    BY <1>4, <1>5 DEF b
  <2>2. SameFacts(f, s, s2) => s2.blockWork = s.blockWork /\ s2.operationWork = s.operationWork
    BY <1>4, <1>5 DEF SameFacts
  <2>3. \A o \in DOMAIN f.operations : OperandsAgree(f, s, s2, o)
    BY <1>4, <1>5 DEF OperandsAgree
  <2> QED
    BY <1>4, <1>5, <1>7, <1>8, <2>1, <2>2, <2>3 DEF Grows
<1>10. m \in Nat /\ DOMAIN ps = 1..m
  BY <1>1, LenProperties DEF IsInOrder, IsLaidOut
<1>11. \A k \in 1..m : vs[k] = ps[k].value /\ vs[k] \in DOMAIN f.values
  BY <1>1, <1>10, ParameterPlace DEF IsParameterAt, b
<1>12. \A k \in 1..m : /\ xs[k] = JoinAll(Inputs(f, s2, b, k)) /\ xs[k] \in AbstractValue
                       /\ Inputs(f, s2, b, k) \subseteq AbstractValue
  <2>1. IsWithin(f, s2, s2)
    BY <1>6, WithinIsOrder
  <2> QED
    BY <1>6, <1>10, <2>1, InputsRise
<1>13. PICK g : IsUpdating(g, f, s2, m, vs, xs) /\ t = g[1..m]
  <2>1. Recomputes(f, s2, b, t)
    BY <1>1, <1>5, RecomputingUpdates
  <2> HIDE DEF t
  <2> QED
    BY <2>1, Zenon DEF Recomputes
<1>14. ASSUME NEW l, IsSaturated(f, l), IsWithin(f, s2, l), NEW k \in 1..m
       PROVE  IsCovered(JoinAll(Inputs(f, s2, b, k)), l.values[ps[k].value])
  <2> DEFINE x == JoinAll(Inputs(f, s2, b, k))
             y == JoinAll(Inputs(f, l, b, k))
             v == ps[k].value
             base == IF b = Entry(f, f.blocks[b].region) THEN Unknown ELSE Bottom
  <2>1. IsAnalysis(f, l) /\ IsWithin(f, Consequences(f, l), l)
    BY <1>14 DEF IsSaturated
  <2>2. x \in AbstractValue /\ y \in AbstractValue /\ IsCovered(x, y)
    BY <1>6, <1>10, <1>14, <2>1, InputsRise
  <2>3. /\ v \in DOMAIN f.values /\ f.values[v].kind = "BlockParameter"
        /\ f.values[v].block = b /\ f.values[v].index = k
    <3>1. k \in DOMAIN ps
      BY <1>10
    <3>2. IsParameterAt(f, v, b, k)
      BY <1>1, <3>1, ParameterPlace
    <3> QED
      BY <3>2, Zenon DEF IsParameterAt
  <2>4. b \in l.blocks
    BY <1>5, <1>14 DEF IsWithin
  <2>5. ValueFact(f, l, v) = Join(base, y)
    BY <2>3, <2>4 DEF ValueFact, DefiningBlock, ParameterFact, Inputs
  <2>6. base \in AbstractValue
    BY EndsAreFacts
  <2> HIDE DEF x, y, base, v
  <2>7. Join(base, y) \in AbstractValue /\ IsCovered(y, Join(base, y))
    BY <2>2, <2>6, JoinHolds
  <2>8. IsCovered(Join(base, y), l.values[v])
    BY <2>1, <2>3, <2>5 DEF IsWithin, Consequences
  <2>9. l.values[v] \in AbstractValue
    BY <2>1, <2>3 DEF IsAnalysis
  <2>10. IsCovered(x, Join(base, y))
    BY <2>2, <2>7, CoverIsOrder
  <2>11. IsCovered(x, l.values[v])
    BY <2>2, <2>7, <2>8, <2>9, <2>10, CoverIsOrder
  <2> QED
    BY <2>11 DEF x, v
<1>15. ASSUME NEW k \in 1..m
       PROVE  /\ Incoming(f, s, e, k) \in Inputs(f, s2, b, k)
  <2>1. OperandsAgree(f, s, s2, e[1])
    BY <1>4, <1>5 DEF OperandsAgree
  <2>2. Incoming(f, s, e, k) = Incoming(f, s2, e, k)
    BY <1>1, <1>6, <1>10, <2>1, AgreeingOperands DEF b
  <2>3. e \in IncomingEdges(f, b) \cap s2.edges
    BY <1>4, <1>5 DEF IncomingEdges, b
  <2> QED
    BY <2>2, <2>3 DEF Inputs
<1> HIDE DEF t, xs, vs, m, ps
<1>16. Grows(f, N, s2, t) /\ UpdateAllTo(f, s2, m, vs, xs, t)
  BY <1>5, <1>10, <1>11, <1>12, <1>13, UpdatesGrow
<1>17. Grows(f, N, s, t)
  BY <1>9, <1>16, GrowsOn
<1>18. e \in t.edges
  BY <1>4, <1>5, <1>16 DEF UpdateAllTo
<1>19. ASSUME NEW k \in DOMAIN ps
       PROVE  IsCovered(Incoming(f, s, e, k), t.values[ps[k].value])
  <2>1. k \in 1..m
    BY <1>10
  <2>2. /\ Incoming(f, s, e, k) \in AbstractValue
        /\ IsCovered(Incoming(f, s, e, k), JoinAll(Inputs(f, s2, b, k)))
    BY <1>12, <1>15, <2>1, JoinAllHolds
  <2>3. IsCovered(xs[k], t.values[vs[k]]) /\ xs[k] \in AbstractValue /\ vs[k] \in DOMAIN f.values
    BY <1>11, <1>12, <1>16, <2>1 DEF UpdateAllTo
  <2>4. t \in SolverStates(f)
    BY <1>16 DEF Grows
  <2>5. IsAnalysis(f, t)
    BY <2>4, StatesAreAnalyses
  <2>6. t.values[vs[k]] \in AbstractValue
    BY <2>3, <2>5 DEF IsAnalysis
  <2>7. xs[k] = JoinAll(Inputs(f, s2, b, k)) /\ vs[k] = ps[k].value
    BY <1>11, <1>12, <2>1
  <2>8. IsCovered(Incoming(f, s, e, k), t.values[vs[k]])
    BY <2>2, <2>3, <2>6, <2>7, CoverIsOrder
  <2> QED
    BY <2>7, <2>8
<1>20. ASSUME NEW l, IsSaturated(f, l), IsWithin(f, s, l), e \in l.edges
       PROVE  IsWithin(f, t, l)
  <2>1. IsAnalysis(f, l) /\ IsWithin(f, Consequences(f, l), l)
    BY <1>20 DEF IsSaturated
  <2>2. b \in l.blocks
    BY <1>20, <2>1 DEF IsWithin, Consequences, b
  <2>3. IsWithin(f, s2, l)
    BY <1>4, <1>5, <1>20, <2>2 DEF IsWithin
  <2>4. \A k \in 1..m : IsCovered(xs[k], l.values[vs[k]])
    BY <1>11, <1>12, <1>14, <1>20, <2>3
  <2> QED
    BY <1>16, <2>1, <2>3, <2>4 DEF UpdateAllTo
<1>21. EdgeMarkTo(f, s, e, t)
  BY <1>18, <1>19, <1>20 DEF EdgeMarkTo, ps, b
<1> QED
  BY <1>17, <1>21 DEF t, s2, s1, b, MarkEdgeExecutable

-----------------------------------------------------------------------------
(* The solver: terminators                                                 *)

\* The successors that a terminator can take are numbers, each listed once.
LEMMA SuccessorsListed ==
  ASSUME NEW f, IsInOrder(f), NEW s \in SolverStates(f), NEW o \in DOMAIN f.operations
  PROVE  LET X == ExecutableSuccessors(f, s, o)
             q == InOrder(X)
         IN  /\ X \subseteq DOMAIN f.operations[o].targets
             /\ Len(q) \in Nat /\ DOMAIN q = 1..Len(q)
             /\ \A i \in 1..Len(q) : q[i] \in X /\ <<o, q[i]>> \in Edges(f)
             /\ \A x \in X : \E i \in 1..Len(q) : q[i] = x
<1> DEFINE X == ExecutableSuccessors(f, s, o)
           q == InOrder(X)
           n == Len(f.operations[o].targets)
<1>1. IsAnalysis(f, s)
  BY StatesAreAnalyses
<1>2. X \subseteq DOMAIN f.operations[o].targets
  BY <1>1, WithinIsOrder, WithinRises, SuccessorsRise
<1>3. n \in Nat /\ DOMAIN f.operations[o].targets = 1..n
  BY OperationsAreFit DEF IsFitAt
<1> HIDE DEF X, n
<1>4. X \in SUBSET Nat /\ IsFiniteSet(X)
  <2>1. IsFiniteSet(1..n)
    BY <1>3, FS_Interval
  <2> QED
    BY <1>2, <1>3, <2>1, FS_Subset
<1>5. q \in Seq(X) /\ ToSet(q) = X
  BY <1>4, InOrderEnumerates DEF Enumerates
<1>6. Len(q) \in Nat /\ DOMAIN q = 1..Len(q) /\ \A i \in 1..Len(q) : q[i] \in X
  BY <1>5, LenProperties
<1> HIDE DEF q
<1>7. \A x \in X : \E i \in 1..Len(q) : q[i] = x
  BY <1>5, <1>6 DEF ToSet
<1>8. \A i \in 1..Len(q) : <<o, q[i]>> \in Edges(f)
  BY <1>2, <1>6 DEF Edges, EdgesOf
<1> QED
  BY <1>2, <1>6, <1>7, <1>8 DEF X, q

\* A visit of a terminator marks its edges one after another.
LEMMA TerminatorVisitsMark ==
  ASSUME NEW f, IsInOrder(f), NEW s \in SolverStates(f), NEW o \in DOMAIN f.operations,
         NEW q, q = InOrder(ExecutableSuccessors(f, s, o)), NEW m, m = Len(q)
  PROVE  \E h : /\ h[0] = s
                /\ \A i \in 1..m : h[i] = MarkEdgeExecutable(f, h[i - 1], <<o, q[i]>>)
                /\ VisitTerminator(f, s, o) = h[m]
<1>1. m \in Nat /\ DOMAIN q = 1..m /\ \A i \in 1..m : <<o, q[i]>> \in Edges(f)
  BY SuccessorsListed
<1> DEFINE S == SolverStates(f)
           step == [p \in S \X (1..m) |-> MarkEdgeExecutable(f, p[1], <<o, q[p[2]]>>)]
           IsIteration(g) ==
             g = [T \in SUBSET (DOMAIN q) |->
                    IF T = {} THEN s ELSE MarkEdgeExecutable(f, g[T \ {Max(T)}], <<o, q[Max(T)]>>)]
<1>2. step \in [S \X (1..m) -> S]
  <2>1. ASSUME NEW p \in S \X (1..m) PROVE MarkEdgeExecutable(f, p[1], <<o, q[p[2]]>>) \in S
    <3>1. p[1] \in S /\ p[2] \in 1..m
      OBVIOUS
    <3>2. <<o, q[p[2]]>> \in Edges(f)
      BY <1>1, <3>1
    <3>3. Grows(f, Edges(f), p[1], MarkEdgeExecutable(f, p[1], <<o, q[p[2]]>>))
      BY <3>1, <3>2, EdgeMarkGrows
    <3> QED
      BY <3>3 DEF Grows
  <2> QED
    BY <2>1
<1>3. PICK g0 \in [SUBSET (1..m) -> S] : IsFold(g0, m, s, step)
  <2> HIDE DEF step, S
  <2>1. s \in S
    BY DEF S
  <2> QED
    BY <1>1, <1>2, <2>1, FoldExists
<1>4. IsIteration(g0)
  <2>1. ASSUME NEW T \in SUBSET (1..m), T # {}
        PROVE  step[<<g0[T \ {Max(T)}], Max(T)>>] = MarkEdgeExecutable(f, g0[T \ {Max(T)}], <<o, q[Max(T)]>>)
    <3>1. Max(T) \in 1..m
      BY <1>1, <2>1, MaxHolds
    <3>2. g0[T \ {Max(T)}] \in S
      OBVIOUS
    <3> DEFINE i == Max(T)
               a == g0[T \ {Max(T)}]
    <3> HIDE DEF i, a, S
    <3>3. <<a, i>> \in S \X (1..m)
      BY <3>1, <3>2 DEF i, a
    <3>4. step[<<a, i>>] = MarkEdgeExecutable(f, a, <<o, q[i]>>)
      BY <3>3
    <3> QED
      BY <3>4 DEF i, a
  <2> DEFINE left(T) == IF T = {} THEN s ELSE step[<<g0[T \ {Max(T)}], Max(T)>>]
             right(T) == IF T = {} THEN s ELSE MarkEdgeExecutable(f, g0[T \ {Max(T)}], <<o, q[Max(T)]>>)
  <2>2. \A T \in SUBSET (1..m) : left(T) = right(T)
    <3> HIDE DEF step
    <3> QED
      BY <2>1
  <2>3. g0 = [T \in SUBSET (1..m) |-> left(T)]
    BY <1>3 DEF IsFold
  <2>4. g0 = [T \in SUBSET (1..m) |-> right(T)]
    <3> HIDE DEF left, right
    <3> QED
      BY <2>2, <2>3
  <2> QED
    BY <1>1, <2>4, Zenon
<1>5. VisitTerminator(f, s, o) = (CHOOSE g : IsIteration(g))[DOMAIN q]
  BY DEF VisitTerminator, FoldLeft, MapThenFoldSet
<1>6. PICK g : g = (CHOOSE x : IsIteration(x)) /\ IsIteration(g)
  <2> HIDE DEF IsIteration
  <2> QED
    BY <1>4
<1> DEFINE h == [i \in 0..m |-> g[1..i]]
<1>7. h[0] = s
  <2>1. 1..0 = {} /\ {} \in SUBSET (DOMAIN q)
    OBVIOUS
  <2>2. g[{}] = s
    BY <1>6, <2>1
  <2>3. h[0] = g[1..0]
    BY <1>1
  <2> QED
    BY <2>1, <2>2, <2>3
<1>8. ASSUME NEW i \in 1..m PROVE h[i] = MarkEdgeExecutable(f, h[i - 1], <<o, q[i]>>)
  <2>1. /\ 1..i \in SUBSET (1..m) /\ 1..i # {} /\ Max(1..i) = i
        /\ (1..i) \ {i} = 1..(i - 1) /\ i - 1 \in 0..m
    BY <1>1, FirstNumbers
  <2>2. g[1..i] = MarkEdgeExecutable(f, g[(1..i) \ {i}], <<o, q[i]>>)
    <3>1. 1..i \in SUBSET (DOMAIN q)
      BY <1>1, <2>1
    <3>2. g[1..i] = IF 1..i = {} THEN s
                    ELSE MarkEdgeExecutable(f, g[(1..i) \ {Max(1..i)}], <<o, q[Max(1..i)]>>)
      BY <1>6, <3>1
    <3> QED
      BY <2>1, <3>2
  <2>3. h[i] = g[1..i] /\ h[i - 1] = g[1..(i - 1)]
    BY <2>1
  <2> QED
    BY <2>1, <2>2, <2>3
<1>9. VisitTerminator(f, s, o) = h[m]
  <2>1. m \in 0..m
    BY <1>1
  <2>2. h[m] = g[1..m]
    BY <2>1
  <2> HIDE DEF h, IsIteration
  <2> QED
    BY <1>1, <1>5, <1>6, <2>2
<1> HIDE DEF h
<1> QED
  BY <1>7, <1>8, <1>9

\* The edge e has handed on all that is known of what it passes.
EdgeIsTold(f, a, e) ==
  /\ e \in a.edges
  /\ \A k \in DOMAIN f.blocks[Target(f, e)].parameters :
       IsCovered(Incoming(f, a, e, k), a.values[f.blocks[Target(f, e)].parameters[k].value])

\* Nothing follows from the operands of o that a leaves out.
IsUpToDate(f, a, o) ==
  /\ \A i \in DOMAIN f.operations[o].results :
       IsCovered(ResultFact(f, a, o), a.values[f.operations[o].results[i]])
  /\ \A i \in ExecutableSuccessors(f, a, o) : EdgeIsTold(f, a, <<o, i>>)

\* An operation stays up to date while its operands stay the same.
LEMMA StaysUpToDate ==
  ASSUME NEW f, IsInOrder(f), NEW o \in DOMAIN f.operations,
         NEW a, IsAnalysis(f, a), NEW b, IsAnalysis(f, b), IsWithin(f, a, b),
         OperandsAgree(f, a, b, o), IsUpToDate(f, a, o)
  PROVE  IsUpToDate(f, b, o)
<1>1. /\ ResultFact(f, a, o) = ResultFact(f, b, o)
      /\ ExecutableSuccessors(f, a, o) = ExecutableSuccessors(f, b, o)
      /\ \A e \in Edges(f) : \A k \in DOMAIN f.blocks[Target(f, e)].parameters :
           e[1] = o => Incoming(f, a, e, k) = Incoming(f, b, e, k)
  BY AgreeingOperands
<1>2. OperandsRise(f, a, a, o)
  BY WithinIsOrder, WithinRises
<1>3. ResultFact(f, a, o) \in AbstractValue
  BY <1>2, ResultRises
<1>4. ASSUME NEW i \in DOMAIN f.operations[o].results
      PROVE  IsCovered(ResultFact(f, b, o), b.values[f.operations[o].results[i]])
  <2> DEFINE v == f.operations[o].results[i]
  <2>1. v \in DOMAIN f.values
    BY <1>4, ResultPlace DEF IsResultAt
  <2>2. IsCovered(ResultFact(f, a, o), a.values[v])
    BY <1>4 DEF IsUpToDate
  <2>3. /\ IsCovered(a.values[v], b.values[v])
        /\ a.values[v] \in AbstractValue /\ b.values[v] \in AbstractValue
    BY <2>1 DEF IsWithin, IsAnalysis
  <2> HIDE DEF v
  <2>4. IsCovered(ResultFact(f, a, o), b.values[v])
    BY <1>3, <2>2, <2>3, CoverIsOrder
  <2> QED
    BY <1>1, <2>4 DEF v
<1>5. ASSUME NEW i \in ExecutableSuccessors(f, b, o)
      PROVE  EdgeIsTold(f, b, <<o, i>>)
  <2> DEFINE e == <<o, i>>
             ps == f.blocks[Target(f, e)].parameters
  <2>1. EdgeIsTold(f, a, e)
    BY <1>1, <1>5 DEF IsUpToDate
  <2>2. e \in a.edges /\ e \in b.edges /\ e \in Edges(f) /\ e[1] = o
    BY <2>1 DEF EdgeIsTold, IsWithin, IsAnalysis
  <2>3. Target(f, e) \in DOMAIN f.blocks
    BY <2>2, EdgesAreEnds
  <2>4. ASSUME NEW k \in DOMAIN ps
        PROVE  IsCovered(Incoming(f, b, e, k), b.values[ps[k].value])
    <3> DEFINE v == ps[k].value
               x == Incoming(f, a, e, k)
    <3>1. v \in DOMAIN f.values
      BY <2>3, ParameterPlace DEF IsParameterAt
    <3>2. IsCovered(x, a.values[v])
      BY <2>1 DEF EdgeIsTold
    <3>3. /\ IsCovered(a.values[v], b.values[v])
          /\ a.values[v] \in AbstractValue /\ b.values[v] \in AbstractValue
      BY <3>1 DEF IsWithin, IsAnalysis
    <3>4. x \in AbstractValue
      <4>1. OperandsRise(f, a, a, e[1])
        BY <1>2, <2>2
      <4> HIDE DEF e
      <4> QED
        BY <2>2, <4>1, IncomingRises
    <3>5. x = Incoming(f, b, e, k)
      <4> HIDE DEF e
      <4> QED
        BY <1>1, <2>2
    <3> HIDE DEF v, x
    <3>6. IsCovered(x, b.values[v])
      BY <3>2, <3>3, <3>4, CoverIsOrder
    <3> QED
      BY <3>5, <3>6 DEF v
  <2> HIDE DEF e
  <2> QED
    BY <2>2, <2>4 DEF EdgeIsTold, e
<1> QED
  BY <1>4, <1>5 DEF IsUpToDate

\* What a visit of the terminator o does, and what it leaves.
TerminatorVisitTo(f, s, o, t) ==
  /\ \/ o \in ToSet(t.operationWork) \/ IsUpToDate(f, t, o)
     \/ f.operations[o].block \notin s.visited \ {s.scanning}
  /\ \A l : /\ IsSaturated(f, l) /\ IsWithin(f, s, l)
            /\ f.operations[o].block \in l.blocks
            => IsWithin(f, t, l)

\* The edges that o can take.
Taken(f, a, o) == {o} \X ExecutableSuccessors(f, a, o)

\* A visit of a terminator lets the state grow.
LEMMA TerminatorVisitGrows ==
  ASSUME NEW f, IsInOrder(f), NEW s \in SolverStates(f), NEW o \in DOMAIN f.operations,
         f.blocks[f.operations[o].block].terminator = o
  PROVE  /\ Grows(f, Taken(f, s, o), s, VisitTerminator(f, s, o))
         /\ TerminatorVisitTo(f, s, o, VisitTerminator(f, s, o))
<1> DEFINE X == ExecutableSuccessors(f, s, o)
           N == Taken(f, s, o)
           q == InOrder(X)
           m == Len(q)
           t == VisitTerminator(f, s, o)
           b == f.operations[o].block
<1>1. /\ X \subseteq DOMAIN f.operations[o].targets
      /\ m \in Nat /\ DOMAIN q = 1..m
      /\ \A i \in 1..m : q[i] \in X /\ <<o, q[i]>> \in Edges(f)
      /\ \A x \in X : \E i \in 1..m : q[i] = x
  BY SuccessorsListed
<1>2. PICK h : /\ h[0] = s
               /\ \A i \in 1..m : h[i] = MarkEdgeExecutable(f, h[i - 1], <<o, q[i]>>)
               /\ t = h[m]
  BY TerminatorVisitsMark
<1>3. b \in DOMAIN f.blocks /\ b # None
  BY OperationsAreFit DEF IsFitAt
<1>4. o # None /\ IsTerminator(f, o) /\ f.operations[o].results = <<>>
  <2>1. f.operations[o].block = b /\ o \in BlockOperations(f, b)
    BY <1>3 DEF IsInOrder, PlacesAreExact
  <2>2. o # None
    BY DEF IsInOrder, IsAnalysable
  <2>3. IsTerminator(f, o)
    BY <1>3, <2>2 DEF IsInOrder, PlacesAreExact
  <2> QED
    BY <2>2, <2>3 DEF IsInOrder, IsAnalysable
<1> DEFINE e(i) == <<o, q[i]>>
<1> HIDE DEF X, q, m, t
<1>5. \A i \in 1..m : e(i) \in N /\ e(i) \in Edges(f)
  BY <1>1 DEF Taken, X
<1>6. ASSUME NEW i \in 1..m, h[i - 1] \in SolverStates(f)
      PROVE  Grows(f, N, h[i - 1], h[i]) /\ EdgeMarkTo(f, h[i - 1], e(i), h[i])
  <2>1. h[i] = MarkEdgeExecutable(f, h[i - 1], e(i))
    BY <1>2
  <2> HIDE DEF e, N
  <2> QED
    BY <1>5, <1>6, <2>1, EdgeMarkGrows
<1>7. \A i \in 0..m : h[i] \in SolverStates(f) /\ \A j \in 0..i : Grows(f, N, h[j], h[i])
  <2> HIDE DEF N
  <2> QED
    BY <1>1, <1>2, <1>6, GrowsAlong
<1>8. \A i \in 1..m : i - 1 \in 0..m /\ i \in 0..m
  BY <1>1
<1>9. 0 \in 0..m /\ m \in 0..m
  BY <1>1
<1>10. Grows(f, N, s, t) /\ t \in SolverStates(f)
  BY <1>2, <1>7, <1>9
<1>11. IsAnalysis(f, s) /\ IsAnalysis(f, t)
  BY <1>10, StatesAreAnalyses
<1>12. ASSUME b \in s.visited \ {s.scanning}, o \notin ToSet(t.operationWork)
       PROVE  IsUpToDate(f, t, o)
  <2>1. OperandsAgree(f, s, t, o)
    BY <1>10, <1>12 DEF Grows
  <2>2. ExecutableSuccessors(f, t, o) = X
    BY <1>11, <2>1, AgreeingOperands DEF X
  <2>3. ASSUME NEW x \in X PROVE EdgeIsTold(f, t, <<o, x>>)
    <3>1. PICK i \in 1..m : q[i] = x
      BY <1>1
    <3> DEFINE a == h[i - 1]
               c == h[i]
               d == e(i)
               ps == f.blocks[Target(f, d)].parameters
    <3>2. /\ a \in SolverStates(f) /\ c \in SolverStates(f)
          /\ Grows(f, N, a, t) /\ Grows(f, N, c, t) /\ Grows(f, N, s, a)
          /\ EdgeMarkTo(f, a, d, c)
      <4>1. i - 1 \in 0..m /\ i \in 0..m /\ i - 1 \in 0..m
        BY <1>8
      <4>2. h[i - 1] \in SolverStates(f) /\ h[i] \in SolverStates(f)
        BY <1>7, <4>1
      <4>3. i - 1 \in 0..m /\ i \in 0..m /\ 0 \in 0..(i - 1)
        BY <4>1
      <4>4. Grows(f, N, h[i - 1], h[m]) /\ Grows(f, N, h[i], h[m]) /\ Grows(f, N, h[0], h[i - 1])
        BY <1>7, <1>9, <4>1, <4>3
      <4>5. EdgeMarkTo(f, h[i - 1], e(i), h[i])
        BY <1>6, <4>2
      <4> QED
        BY <1>2, <4>2, <4>4, <4>5
    <3> HIDE DEF a, c
    <3>3. IsAnalysis(f, a) /\ IsAnalysis(f, c)
      BY <3>2, StatesAreAnalyses
    <3>4. OperandsAgree(f, a, t, o)
      <4>1. b \in a.visited \ {a.scanning}
        BY <1>12, <3>2 DEF Grows
      <4> QED
        BY <1>12, <3>2, <4>1 DEF Grows
    <3>5. d \in Edges(f) /\ d[1] = o /\ d = <<o, x>>
      BY <1>5, <3>1
    <3> HIDE DEF d
    <3>6. d \in t.edges
      BY <3>2 DEF Grows, IsWithin, EdgeMarkTo
    <3>7. Target(f, d) \in DOMAIN f.blocks
      BY <3>5, EdgesAreEnds
    <3>8. ASSUME NEW k \in DOMAIN ps PROVE IsCovered(Incoming(f, t, d, k), t.values[ps[k].value])
      <4> DEFINE v == ps[k].value
                 y == Incoming(f, a, d, k)
      <4>1. v \in DOMAIN f.values
        BY <3>7, ParameterPlace DEF IsParameterAt
      <4>2. y = Incoming(f, t, d, k)
        BY <1>11, <3>3, <3>4, <3>5, AgreeingOperands
      <4>3. IsCovered(y, c.values[v])
        BY <3>2 DEF EdgeMarkTo
      <4>4. y \in AbstractValue
        <5>1. OperandsRise(f, a, a, d[1])
          BY <3>3, <3>5, WithinIsOrder, WithinRises
        <5> QED
          BY <3>3, <3>5, <5>1, IncomingRises
      <4>5. /\ IsCovered(c.values[v], t.values[v])
            /\ c.values[v] \in AbstractValue /\ t.values[v] \in AbstractValue
        BY <1>11, <3>2, <3>3, <4>1 DEF Grows, IsWithin, IsAnalysis
      <4> HIDE DEF v, y
      <4>6. IsCovered(y, t.values[v])
        BY <4>3, <4>4, <4>5, CoverIsOrder
      <4> QED
        BY <4>2, <4>6 DEF v
    <3>9. EdgeIsTold(f, t, d)
      BY <3>6, <3>8 DEF EdgeIsTold
    <3> QED
      BY <3>5, <3>9
  <2> QED
    BY <1>4, <2>2, <2>3 DEF IsUpToDate
<1>13. ASSUME NEW l, IsSaturated(f, l), IsWithin(f, s, l), b \in l.blocks
       PROVE  IsWithin(f, t, l)
  <2>1. IsAnalysis(f, l) /\ IsWithin(f, Consequences(f, l), l)
    BY <1>13 DEF IsSaturated
  <2>2. X \subseteq ExecutableSuccessors(f, l, o)
    <3>1. OperandsRise(f, s, l, o)
      BY <1>13, WithinRises
    <3> QED
      BY <1>11, <2>1, <3>1, SuccessorsRise DEF X
  <2>3. \A i \in 1..m : e(i) \in l.edges
    <3>1. ASSUME NEW i \in 1..m PROVE e(i) \in {o} \X ExecutableSuccessors(f, l, o)
      BY <1>1, <2>2
    <3>2. o \in {f.blocks[x].terminator : x \in l.blocks} \ {None}
      BY <1>4, <1>13
    <3>3. {o} \X ExecutableSuccessors(f, l, o) \subseteq Consequences(f, l).edges
      BY <3>2 DEF Consequences
    <3> QED
      BY <2>1, <3>1, <3>3 DEF IsWithin
  <2> DEFINE P == {i \in 0..m : IsWithin(f, h[i], l)}
  <2>4. 0 \in P
    BY <1>2, <1>9, <1>13
  <2>5. ASSUME NEW i \in 1..m, i - 1 \in P PROVE i \in P
    <3>1. h[i - 1] \in SolverStates(f) /\ i \in 0..m
      BY <1>7, <1>8
    <3>2. EdgeMarkTo(f, h[i - 1], e(i), h[i])
      BY <1>6, <3>1
    <3>3. IsWithin(f, h[i], l)
      BY <1>13, <2>3, <2>5, <3>2 DEF EdgeMarkTo
    <3> QED
      BY <3>1, <3>3
  <2> HIDE DEF P
  <2>6. m \in P
    BY <1>1, <1>9, <2>4, <2>5, CountingUp
  <2> QED
    BY <1>2, <2>6 DEF P
<1>14. TerminatorVisitTo(f, s, o, t)
  <2> HIDE DEF N
  <2> QED
    BY <1>12, <1>13 DEF TerminatorVisitTo
<1> QED
  BY <1>10, <1>14 DEF t

-----------------------------------------------------------------------------
(* The solver: the scan of a block                                         *)

\* The state in which the scan of b begins, and the one behind its operations.
Entered(s, b) == [s EXCEPT !.visited = @ \cup {b}, !.scanning = b]
Left(s)       == [s EXCEPT !.scanning = None]

\* A state at the two ends of a scan.
LEMMA ScanEnds ==
  ASSUME NEW f, NEW s \in SolverStates(f), NEW b \in DOMAIN f.blocks
  PROVE  /\ Entered(s, b) \in SolverStates(f)
         /\ Entered(s, b).visited = s.visited \cup {b} /\ Entered(s, b).scanning = b
         /\ Entered(s, b).values = s.values /\ Entered(s, b).blocks = s.blocks
         /\ Entered(s, b).edges = s.edges /\ Entered(s, b).order = s.order
         /\ Entered(s, b).blockWork = s.blockWork /\ Entered(s, b).operationWork = s.operationWork
         /\ Left(s) \in SolverStates(f)
         /\ Left(s).visited = s.visited /\ Left(s).scanning = None
         /\ Left(s).values = s.values /\ Left(s).blocks = s.blocks
         /\ Left(s).edges = s.edges /\ Left(s).order = s.order
         /\ Left(s).blockWork = s.blockWork /\ Left(s).operationWork = s.operationWork
<1>1. /\ s.values \in [DOMAIN f.values -> AbstractValue]
      /\ s.blocks \in SUBSET DOMAIN f.blocks /\ s.edges \in SUBSET Edges(f)
      /\ s.visited \in SUBSET DOMAIN f.blocks /\ s.scanning \in DOMAIN f.blocks \cup {None}
      /\ s.blockWork \in Seq(DOMAIN f.blocks) /\ s.operationWork \in Seq(DOMAIN f.operations)
      /\ s.order \in Orders
  BY StateParts
<1>2. s = [values |-> s.values, blocks |-> s.blocks, edges |-> s.edges, visited |-> s.visited,
           scanning |-> s.scanning, blockWork |-> s.blockWork,
           operationWork |-> s.operationWork, order |-> s.order]
  BY StateParts
<1> DEFINE x == Entered(s, b)
           y == Left(s)
<1>3. x = [values |-> s.values, blocks |-> s.blocks, edges |-> s.edges,
           visited |-> s.visited \cup {b}, scanning |-> b, blockWork |-> s.blockWork,
           operationWork |-> s.operationWork, order |-> s.order]
  <2>1. x = [s EXCEPT !.visited = s.visited \cup {b}, !.scanning = b]
    BY DEF Entered
  <2> HIDE DEF x
  <2> QED
    BY <1>2, <2>1
<1>4. y = [values |-> s.values, blocks |-> s.blocks, edges |-> s.edges,
           visited |-> s.visited, scanning |-> None, blockWork |-> s.blockWork,
           operationWork |-> s.operationWork, order |-> s.order]
  <2>1. y = [s EXCEPT !.scanning = None]
    BY DEF Left
  <2> HIDE DEF y
  <2> QED
    BY <1>2, <2>1
<1> HIDE DEF x, y
<1>5. x \in SolverStates(f)
  BY <1>1, <1>3, StateBuilt
<1>6. y \in SolverStates(f)
  BY <1>1, <1>4, StateBuilt
<1>7. /\ x.visited = s.visited \cup {b} /\ x.scanning = b
      /\ x.values = s.values /\ x.blocks = s.blocks /\ x.edges = s.edges /\ x.order = s.order
      /\ x.blockWork = s.blockWork /\ x.operationWork = s.operationWork
  BY <1>3
<1>8. /\ y.visited = s.visited /\ y.scanning = None
      /\ y.values = s.values /\ y.blocks = s.blocks /\ y.edges = s.edges /\ y.order = s.order
      /\ y.blockWork = s.blockWork /\ y.operationWork = s.operationWork
  BY <1>4
<1> QED
  BY <1>5, <1>6, <1>7, <1>8, Zenon DEF x, y

\* A visit of a block visits its operations one after another, and then its
\* terminator.
LEMMA BlockVisitsScan ==
  ASSUME NEW f, IsInOrder(f), NEW s \in SolverStates(f), NEW b \in DOMAIN f.blocks,
         NEW c, c = f.blocks[b].contents, NEW m, m = Len(c),
         NEW o, o = f.blocks[b].terminator
  PROVE  \E h : /\ h[0] = Entered(s, b)
                /\ \A i \in 1..m : h[i] = VisitValueOperation(f, h[i - 1], c[i])
                /\ VisitBlock(f, s, b) = IF o = None THEN Left(h[m])
                                         ELSE VisitTerminator(f, Left(h[m]), o)
<1>1. m \in Nat /\ DOMAIN c = 1..m /\ \A i \in 1..m : c[i] \in DOMAIN f.operations
  BY LenProperties DEF IsInOrder, IsLaidOut
<1> DEFINE S == SolverStates(f)
           s0 == Entered(s, b)
           step == [p \in S \X (1..m) |-> VisitValueOperation(f, p[1], c[p[2]])]
           IsIteration(g) ==
             g = [T \in SUBSET (DOMAIN c) |->
                    IF T = {} THEN s0 ELSE VisitValueOperation(f, g[T \ {Max(T)}], c[Max(T)])]
<1>2. step \in [S \X (1..m) -> S]
  <2>1. ASSUME NEW p \in S \X (1..m) PROVE VisitValueOperation(f, p[1], c[p[2]]) \in S
    <3>1. p[1] \in S /\ p[2] \in 1..m
      OBVIOUS
    <3>2. c[p[2]] \in DOMAIN f.operations
      BY <1>1, <3>1
    <3>3. Grows(f, {}, p[1], VisitValueOperation(f, p[1], c[p[2]]))
      BY <3>1, <3>2, ValueVisitGrows
    <3> QED
      BY <3>3 DEF Grows
  <2> QED
    BY <2>1
<1>3. PICK g0 \in [SUBSET (1..m) -> S] : IsFold(g0, m, s0, step)
  <2>1. s0 \in S
    BY ScanEnds
  <2> HIDE DEF step, S, s0
  <2> QED
    BY <1>1, <1>2, <2>1, FoldExists
<1> HIDE DEF s0
<1>4. IsIteration(g0)
  <2>1. ASSUME NEW T \in SUBSET (1..m), T # {}
        PROVE  step[<<g0[T \ {Max(T)}], Max(T)>>] = VisitValueOperation(f, g0[T \ {Max(T)}], c[Max(T)])
    <3>1. Max(T) \in 1..m
      BY <1>1, <2>1, MaxHolds
    <3>2. g0[T \ {Max(T)}] \in S
      OBVIOUS
    <3> DEFINE i == Max(T)
               a == g0[T \ {Max(T)}]
    <3> HIDE DEF i, a, S
    <3>3. <<a, i>> \in S \X (1..m)
      BY <3>1, <3>2 DEF i, a
    <3>4. step[<<a, i>>] = VisitValueOperation(f, a, c[i])
      BY <3>3
    <3> QED
      BY <3>4 DEF i, a
  <2> DEFINE left(T) == IF T = {} THEN s0 ELSE step[<<g0[T \ {Max(T)}], Max(T)>>]
             right(T) == IF T = {} THEN s0 ELSE VisitValueOperation(f, g0[T \ {Max(T)}], c[Max(T)])
  <2>2. \A T \in SUBSET (1..m) : left(T) = right(T)
    <3> HIDE DEF step
    <3> QED
      BY <2>1
  <2>3. g0 = [T \in SUBSET (1..m) |-> left(T)]
    BY <1>3 DEF IsFold
  <2>4. g0 = [T \in SUBSET (1..m) |-> right(T)]
    <3> HIDE DEF left, right
    <3> QED
      BY <2>2, <2>3
  <2> QED
    BY <1>1, <2>4, Zenon
<1> DEFINE scanned == (CHOOSE g : IsIteration(g))[DOMAIN c]
<1>5. VisitBlock(f, s, b) = IF o = None THEN Left(scanned) ELSE VisitTerminator(f, Left(scanned), o)
  <2> DEFINE d == f.blocks[b].contents
             e == Entered(s, b)
             raw == (CHOOSE g : g = [T \in SUBSET (DOMAIN d) |->
                       IF T = {} THEN e ELSE VisitValueOperation(f, g[T \ {Max(T)}], d[Max(T)])])[DOMAIN d]
             p == f.blocks[b].terminator
  <2>1. VisitBlock(f, s, b) = IF p = None THEN Left(raw) ELSE VisitTerminator(f, Left(raw), p)
    BY Zenon DEF VisitBlock, FoldLeft, MapThenFoldSet, Left, Entered
  <2>2. c = d /\ e = s0 /\ p = o
    BY DEF s0
  <2> HIDE DEF d, e, p
  <2>3. raw = scanned
    BY <2>2
  <2> HIDE DEF raw, scanned
  <2> QED
    BY <2>1, <2>2, <2>3
<1>6. PICK g : g = (CHOOSE x : IsIteration(x)) /\ IsIteration(g)
  <2> HIDE DEF IsIteration
  <2> QED
    BY <1>4
<1> DEFINE h == [i \in 0..m |-> g[1..i]]
<1>7. h[0] = s0
  <2>1. 1..0 = {} /\ {} \in SUBSET (DOMAIN c)
    OBVIOUS
  <2>2. g[{}] = s0
    BY <1>6, <2>1
  <2>3. h[0] = g[1..0]
    BY <1>1
  <2> QED
    BY <2>1, <2>2, <2>3
<1>8. ASSUME NEW i \in 1..m PROVE h[i] = VisitValueOperation(f, h[i - 1], c[i])
  <2>1. /\ 1..i \in SUBSET (1..m) /\ 1..i # {} /\ Max(1..i) = i
        /\ (1..i) \ {i} = 1..(i - 1) /\ i - 1 \in 0..m
    BY <1>1, FirstNumbers
  <2>2. g[1..i] = VisitValueOperation(f, g[(1..i) \ {i}], c[i])
    <3>1. 1..i \in SUBSET (DOMAIN c)
      BY <1>1, <2>1
    <3>2. g[1..i] = IF 1..i = {} THEN s0
                    ELSE VisitValueOperation(f, g[(1..i) \ {Max(1..i)}], c[Max(1..i)])
      BY <1>6, <3>1
    <3> QED
      BY <2>1, <3>2
  <2>3. h[i] = g[1..i] /\ h[i - 1] = g[1..(i - 1)]
    BY <2>1
  <2> QED
    BY <2>1, <2>2, <2>3
<1>9. scanned = h[m]
  <2>1. m \in 0..m
    BY <1>1
  <2>2. h[m] = g[1..m]
    BY <2>1
  <2> HIDE DEF h, IsIteration
  <2> QED
    BY <1>1, <1>6, <2>2
<1> HIDE DEF h, scanned
<1>10. VisitBlock(f, s, b) = IF o = None THEN Left(h[m]) ELSE VisitTerminator(f, Left(h[m]), o)
  BY <1>5, <1>9
<1> QED
  BY <1>7, <1>8, <1>10 DEF s0

-----------------------------------------------------------------------------
(* The solver: what holds between two steps                                *)

\* What the boundaries give is known, what executes is scanned or waits, an edge
\* is one that its scanned source can take, and every operation of a scanned
\* block waits or is up to date, except x and those of the block that is being
\* scanned.
IsWorking(f, x, s) ==
  /\ s \in SolverStates(f)
  /\ \A v \in BoundaryValues(f) : s.values[v] = Unknown
  /\ \A r \in DOMAIN f.regions : Entry(f, r) \in s.blocks
  /\ \A e \in s.edges : /\ Target(f, e) \in s.blocks
                        /\ Source(f, e) \in s.visited
                        /\ e[2] \in ExecutableSuccessors(f, s, e[1])
  /\ s.blocks = s.visited \cup ToSet(s.blockWork)
  /\ \A o \in ToSet(s.operationWork) : f.operations[o].block \in s.visited
  /\ \A o \in DOMAIN f.operations :
       f.operations[o].block \in s.visited \ {s.scanning} =>
         o = x \/ o \in ToSet(s.operationWork) \/ IsUpToDate(f, s, o)

\* What comes from outside is a value of the function.
LEMMA BoundariesAreValues ==
  ASSUME NEW f, IsInOrder(f)
  PROVE  BoundaryValues(f) \subseteq DOMAIN f.values
<1>1. ASSUME NEW r \in DOMAIN f.regions PROVE ParameterValues(f, Entry(f, r)) \subseteq DOMAIN f.values
  <2> DEFINE b == Entry(f, r)
  <2>1. b \in DOMAIN f.blocks
    BY EntriesAreBlocks
  <2> HIDE DEF b
  <2>2. \A k \in DOMAIN f.blocks[b].parameters :
          IsParameterAt(f, f.blocks[b].parameters[k].value, b, k)
    BY <2>1, ParameterPlace
  <2>3. ParameterValues(f, b) \subseteq DOMAIN f.values
    BY <2>2 DEF ParameterValues, IsParameterAt
  <2> QED
    BY <2>3 DEF b
<1> QED
  BY <1>1 DEF BoundaryValues

\* A state that grows along edges that it can take goes on working.
LEMMA GrowingKeepsWorking ==
  ASSUME NEW f, IsInOrder(f), NEW x, NEW s, IsWorking(f, x, s), NEW N, NEW t, Grows(f, N, s, t),
         \A e \in N : Source(f, e) \in s.visited /\ e[2] \in ExecutableSuccessors(f, s, e[1])
  PROVE  IsWorking(f, x, t)
<1>1. s \in SolverStates(f) /\ t \in SolverStates(f) /\ IsWithin(f, s, t)
  BY DEF IsWorking, Grows
<1>2. IsAnalysis(f, s) /\ IsAnalysis(f, t)
  BY <1>1, StatesAreAnalyses
<1>3. t.visited = s.visited /\ t.scanning = s.scanning
  BY DEF Grows
<1>4. ASSUME NEW v \in BoundaryValues(f) PROVE t.values[v] = Unknown
  <2>1. v \in DOMAIN f.values
    BY BoundariesAreValues
  <2>2. s.values[v] = Unknown
    BY DEF IsWorking
  <2>3. IsCovered(Unknown, t.values[v]) /\ t.values[v] \in AbstractValue
    BY <1>1, <1>2, <2>1, <2>2 DEF IsWithin, IsAnalysis
  <2> QED
    BY <2>3, EndsHold
<1>5. s.blocks \subseteq t.blocks
  BY <1>1 DEF IsWithin
<1>6. ASSUME NEW e \in t.edges
      PROVE  /\ Target(f, e) \in t.blocks /\ Source(f, e) \in t.visited
             /\ e[2] \in ExecutableSuccessors(f, t, e[1])
  <2>1. e \in Edges(f)
    BY <1>2 DEF IsAnalysis
  <2>2. Source(f, e) \in s.visited /\ e[2] \in ExecutableSuccessors(f, s, e[1])
    BY DEF Grows, IsWorking
  <2>3. Target(f, e) \in t.blocks
    BY <1>5 DEF Grows, IsWorking
  <2>4. e[1] \in DOMAIN f.operations
    BY <2>1, EdgesAreEnds
  <2>5. OperandsRise(f, s, t, e[1])
    BY <1>1, <2>4, WithinRises
  <2>6. ExecutableSuccessors(f, s, e[1]) \subseteq ExecutableSuccessors(f, t, e[1])
    BY <1>2, <2>4, <2>5, SuccessorsRise
  <2> QED
    BY <1>3, <2>2, <2>3, <2>6
<1>7. t.blocks = t.visited \cup ToSet(t.blockWork)
  BY <1>3, <1>5 DEF Grows, IsWorking
<1>8. \A o \in ToSet(t.operationWork) : f.operations[o].block \in t.visited
  BY <1>3 DEF Grows, IsWorking
<1>9. ASSUME NEW o \in DOMAIN f.operations, f.operations[o].block \in t.visited \ {t.scanning}, o # x
      PROVE  o \in ToSet(t.operationWork) \/ IsUpToDate(f, t, o)
  <2>1. f.operations[o].block \in s.visited \ {s.scanning}
    BY <1>3, <1>9
  <2>2. o \in ToSet(s.operationWork) \/ IsUpToDate(f, s, o)
    BY <1>9, <2>1 DEF IsWorking
  <2>3. o \in ToSet(t.operationWork) \/ OperandsAgree(f, s, t, o)
    BY <2>1 DEF Grows
  <2>4. ToSet(s.operationWork) \subseteq ToSet(t.operationWork)
    BY DEF Grows
  <2> QED
    BY <1>1, <1>2, <2>2, <2>3, <2>4, StaysUpToDate
<1>10. \A r \in DOMAIN f.regions : Entry(f, r) \in t.blocks
  BY <1>5 DEF IsWorking
<1> QED
  BY <1>1, <1>4, <1>6, <1>7, <1>8, <1>9, <1>10 DEF IsWorking

\* An operation of a block reads only results of operations before it.
ReadsGoBack(f, b) ==
  \A i, j \in DOMAIN f.blocks[b].contents :
    \A k \in DOMAIN f.operations[f.blocks[b].contents[j]].operands :
      f.operations[f.blocks[b].contents[j]].operands[k]
        \in ToSet(f.operations[f.blocks[b].contents[i]].results) => i < j

\* o is an operation of the block b and not its terminator.
IsContent(f, b, o) ==
  /\ o \in DOMAIN f.operations /\ f.operations[o].block = b
  /\ ~ IsTerminator(f, o) /\ f.operations[o].targets = <<>>

\* What is visited is an operation of a block that is not its terminator.
LEMMA ContentsArePlaced ==
  ASSUME NEW f, IsInOrder(f), NEW b \in DOMAIN f.blocks, NEW i \in DOMAIN f.blocks[b].contents
  PROVE  IsContent(f, b, f.blocks[b].contents[i])
<1> DEFINE o == f.blocks[b].contents[i]
<1>1. o \in ToSet(f.blocks[b].contents)
  BY DEF ToSet
<1>2. o \in BlockOperations(f, b)
  BY <1>1 DEF BlockOperations
<1>3. o \in DOMAIN f.operations /\ f.operations[o].block = b /\ ~ IsTerminator(f, o)
  BY <1>1, <1>2 DEF IsInOrder, PlacesAreExact
<1>4. f.operations[o].targets = <<>>
  BY <1>3 DEF IsInOrder, HasSuccessors
<1> QED
  BY <1>3, <1>4, Zenon DEF IsContent

\* An operation without successors takes none.
LEMMA NothingTaken ==
  ASSUME NEW f, IsInOrder(f), NEW s \in SolverStates(f), NEW o \in DOMAIN f.operations,
         f.operations[o].targets = <<>>
  PROVE  ExecutableSuccessors(f, s, o) = {}
<1>1. ExecutableSuccessors(f, s, o) \subseteq DOMAIN f.operations[o].targets
  BY SuccessorsListed
<1>2. DOMAIN f.operations[o].targets = {}
  OBVIOUS
<1> QED
  BY <1>1, <1>2

\* A value operation that was visited is up to date as long as nothing it reads
\* has changed.
LEMMA VisitedIsUpToDate ==
  ASSUME NEW f, IsInOrder(f), NEW N, NEW s \in SolverStates(f), NEW o \in DOMAIN f.operations,
         f.operations[o].targets = <<>>,
         NEW t, Grows(f, N, s, t), ValueVisitTo(f, s, o, t), OperandsAgree(f, s, t, o)
  PROVE  IsUpToDate(f, t, o)
<1>1. t \in SolverStates(f)
  BY DEF Grows
<1>2. IsAnalysis(f, s) /\ IsAnalysis(f, t)
  BY <1>1, StatesAreAnalyses
<1>3. ResultFact(f, t, o) = ResultFact(f, s, o)
  BY <1>2, AgreeingOperands
<1>4. ExecutableSuccessors(f, t, o) = {}
  BY <1>1, NothingTaken
<1> QED
  BY <1>3, <1>4 DEF IsUpToDate, ValueVisitTo

\* The state behind the operations of a block that was scanned.
IsScanned(f, s, b, u) ==
  /\ Grows(f, {}, Entered(s, b), u)
  /\ ReadsGoBack(f, b) =>
       \A i \in DOMAIN f.blocks[b].contents : IsUpToDate(f, u, f.blocks[b].contents[i])
  /\ \A l : /\ IsSaturated(f, l) /\ IsWithin(f, s, l)
            /\ b \in l.blocks
            => IsWithin(f, u, l)

\* A scan leads to such a state, and goes on with the terminator.
LEMMA ScanHolds ==
  ASSUME NEW f, IsInOrder(f), NEW s \in SolverStates(f), NEW b \in DOMAIN f.blocks,
         NEW o, o = f.blocks[b].terminator
  PROVE  \E u : /\ IsScanned(f, s, b, u)
                /\ VisitBlock(f, s, b) = IF o = None THEN Left(u) ELSE VisitTerminator(f, Left(u), o)
<1> DEFINE c == f.blocks[b].contents
           m == Len(c)
           s0 == Entered(s, b)
<1>1. m \in Nat /\ DOMAIN c = 1..m
  <2>1. c \in Seq(DOMAIN f.operations)
    BY Zenon DEF IsInOrder, IsLaidOut
  <2> HIDE DEF c
  <2> QED
    BY <2>1, LenProperties
<1>2. \A i \in 1..m : /\ c[i] \in DOMAIN f.operations /\ f.operations[c[i]].block = b
                      /\ f.operations[c[i]].targets = <<>>
  <2> TAKE i \in 1..m
  <2>1. i \in DOMAIN f.blocks[b].contents
    BY <1>1
  <2>2. IsContent(f, b, c[i])
    BY <2>1, ContentsArePlaced
  <2> QED
    BY <2>2, Zenon DEF IsContent
<1>3. PICK h : /\ h[0] = s0
               /\ \A i \in 1..m : h[i] = VisitValueOperation(f, h[i - 1], c[i])
               /\ VisitBlock(f, s, b) = IF o = None THEN Left(h[m])
                                        ELSE VisitTerminator(f, Left(h[m]), o)
  BY BlockVisitsScan
<1> HIDE DEF m
<1>4. s0 \in SolverStates(f) /\ s0.values = s.values /\ s0.blocks = s.blocks /\ s0.edges = s.edges
  BY ScanEnds
<1> HIDE DEF s0
<1>5. ASSUME NEW i \in 1..m, h[i - 1] \in SolverStates(f)
      PROVE  Grows(f, {}, h[i - 1], h[i]) /\ ValueVisitTo(f, h[i - 1], c[i], h[i])
  <2>1. h[i] = VisitValueOperation(f, h[i - 1], c[i]) /\ c[i] \in DOMAIN f.operations
    BY <1>2, <1>3
  <2> HIDE DEF c
  <2> QED
    BY <1>5, <2>1, ValueVisitGrows
<1>6. \A i \in 0..m : h[i] \in SolverStates(f) /\ \A j \in 0..i : Grows(f, {}, h[j], h[i])
  BY <1>1, <1>3, <1>4, <1>5, GrowsAlong
<1>7. \A i \in 1..m : i - 1 \in 0..m /\ i \in 0..m
  BY <1>1
<1>8. 0 \in 0..m /\ m \in 0..m
  BY <1>1
<1>9. Grows(f, {}, s0, h[m])
  BY <1>3, <1>6, <1>8
<1>10. ASSUME ReadsGoBack(f, b) PROVE \A i \in 1..m : IsUpToDate(f, h[m], c[i])
  <2> DEFINE P == {i \in 0..m : \A j \in 1..i : IsUpToDate(f, h[i], c[j])}
  <2>1. 0 \in P
    BY <1>8
  <2>2. ASSUME NEW i \in 1..m, i - 1 \in P PROVE i \in P
    <3> DEFINE a == h[i - 1]
               d == h[i]
    <3>1. a \in SolverStates(f) /\ d \in SolverStates(f)
      BY <1>6, <1>7
    <3>2. Grows(f, {}, a, d) /\ ValueVisitTo(f, a, c[i], d)
      BY <1>5, <3>1
    <3> HIDE DEF a, d
    <3>3. IsAnalysis(f, a) /\ IsAnalysis(f, d) /\ IsWithin(f, a, d)
      BY <3>1, <3>2, StatesAreAnalyses DEF Grows
    <3>4. ASSUME NEW j \in 1..i PROVE OperandsAgree(f, a, d, c[j])
      <4>1. j \in 1..m /\ ~ (i < j) /\ i \in 1..m
        BY <1>1
      <4> SUFFICES ASSUME NEW k \in DOMAIN f.operations[c[j]].operands
                   PROVE  a.values[f.operations[c[j]].operands[k]] = d.values[f.operations[c[j]].operands[k]]
        BY DEF OperandsAgree
      <4>2. f.operations[c[j]].operands[k] \in DOMAIN f.values
        BY <1>2, <4>1, OperationsAreFit DEF IsFitAt
      <4>3. f.operations[c[j]].operands[k] \notin ToSet(f.operations[c[i]].results)
        <5>1. j \in DOMAIN c /\ i \in DOMAIN c
          BY <1>1, <4>1
        <5> QED
          BY <1>10, <4>1, <5>1 DEF ReadsGoBack
      <4> QED
        BY <3>2, <4>2, <4>3 DEF ValueVisitTo
    <3>5. ASSUME NEW j \in 1..i PROVE IsUpToDate(f, d, c[j])
      <4>1. CASE j = i
        <5>1. c[i] \in DOMAIN f.operations /\ f.operations[c[i]].targets = <<>>
          BY <1>2
        <5>2. OperandsAgree(f, a, d, c[i])
          BY <3>4, <4>1
        <5> QED
          BY <3>1, <3>2, <4>1, <5>1, <5>2, VisitedIsUpToDate
      <4>2. CASE j # i
        <5>1. j \in 1..(i - 1) /\ j \in 1..m
          BY <1>1, <4>2
        <5>2. IsUpToDate(f, a, c[j])
          BY <2>2, <5>1 DEF a
        <5>3. c[j] \in DOMAIN f.operations
          BY <1>2, <5>1
        <5> QED
          BY <3>3, <3>4, <5>2, <5>3, StaysUpToDate
      <4> QED
        BY <4>1, <4>2
    <3> QED
      BY <1>7, <3>5 DEF d
  <2> HIDE DEF P
  <2>3. m \in P
    BY <1>1, <1>8, <2>1, <2>2, CountingUp
  <2> QED
    BY <2>3 DEF P
<1>11. ASSUME NEW l, IsSaturated(f, l), IsWithin(f, s, l), b \in l.blocks
       PROVE  IsWithin(f, h[m], l)
  <2> DEFINE P == {i \in 0..m : IsWithin(f, h[i], l)}
  <2>1. 0 \in P
    <3>1. IsWithin(f, s0, l)
      BY <1>4, <1>11 DEF IsWithin
    <3> QED
      BY <1>3, <1>8, <3>1
  <2>2. ASSUME NEW i \in 1..m, i - 1 \in P PROVE i \in P
    <3>1. h[i - 1] \in SolverStates(f) /\ i \in 0..m
      BY <1>6, <1>7
    <3>2. ValueVisitTo(f, h[i - 1], c[i], h[i])
      BY <1>5, <3>1
    <3>3. IsWithin(f, h[i], l)
      BY <1>2, <1>11, <2>2, <3>2 DEF ValueVisitTo
    <3> QED
      BY <3>1, <3>3
  <2> HIDE DEF P
  <2>3. m \in P
    BY <1>1, <1>8, <2>1, <2>2, CountingUp
  <2> QED
    BY <2>3 DEF P
<1>12. IsScanned(f, s, b, h[m])
  BY <1>1, <1>9, <1>10, <1>11 DEF IsScanned, s0
<1> QED
  BY <1>3, <1>12

-----------------------------------------------------------------------------
(* The solver: a step                                                      *)

\* How much waits.
Waiting(s) == Len(s.operationWork) + Len(s.blockWork)

\* t knows more than s, or the same and has less to do.
Advances(f, s, t) ==
  /\ t \in SolverStates(f) /\ IsWithin(f, s, t)
  /\ SameFacts(f, s, t) => Waiting(t) < Waiting(s)

\* A state that still has to be taken one step on.
CanGoOn(s) == ~ (IsEmpty(s.operationWork) /\ IsEmpty(s.blockWork))

\* The state without the head of a queue.
LessOperation(s) == [s EXCEPT !.operationWork = Tail(@)]
LessBlock(s)     == [s EXCEPT !.blockWork = Tail(@)]

\* An operation is taken from the queue.
LEMMA OperationTaken ==
  ASSUME NEW f, NEW s \in SolverStates(f), ~ IsEmpty(s.operationWork)
  PROVE  /\ Head(s.operationWork) \in DOMAIN f.operations
         /\ LessOperation(s) \in SolverStates(f)
         /\ ToSet(s.operationWork) = {Head(s.operationWork)} \cup ToSet(LessOperation(s).operationWork)
         /\ LessOperation(s).visited = s.visited /\ LessOperation(s).scanning = s.scanning
         /\ LessOperation(s).values = s.values /\ LessOperation(s).blocks = s.blocks
         /\ LessOperation(s).edges = s.edges /\ LessOperation(s).order = s.order
         /\ LessOperation(s).blockWork = s.blockWork
         /\ Waiting(LessOperation(s)) < Waiting(s) /\ Waiting(s) \in Nat
<1>1. /\ s.values \in [DOMAIN f.values -> AbstractValue]
      /\ s.blocks \in SUBSET DOMAIN f.blocks /\ s.edges \in SUBSET Edges(f)
      /\ s.visited \in SUBSET DOMAIN f.blocks /\ s.scanning \in DOMAIN f.blocks \cup {None}
      /\ s.blockWork \in Seq(DOMAIN f.blocks) /\ s.operationWork \in Seq(DOMAIN f.operations)
      /\ s.order \in Orders
  BY StateParts
<1>2. s = [values |-> s.values, blocks |-> s.blocks, edges |-> s.edges, visited |-> s.visited,
           scanning |-> s.scanning, blockWork |-> s.blockWork,
           operationWork |-> s.operationWork, order |-> s.order]
  BY StateParts
<1> DEFINE x == LessOperation(s)
           q == Tail(s.operationWork)
<1>3. /\ Head(s.operationWork) \in DOMAIN f.operations /\ q \in Seq(DOMAIN f.operations)
      /\ ToSet(s.operationWork) = {Head(s.operationWork)} \cup ToSet(q)
  BY <1>1, PopTakesHead
<1>4. Len(q) = Len(s.operationWork) - 1 /\ Len(s.operationWork) \in Nat /\ Len(s.blockWork) \in Nat
  BY <1>1, HeadTailProperties, LenProperties DEF IsEmpty
<1> HIDE DEF q
<1>5. x = [values |-> s.values, blocks |-> s.blocks, edges |-> s.edges,
           visited |-> s.visited, scanning |-> s.scanning, blockWork |-> s.blockWork,
           operationWork |-> q, order |-> s.order]
  <2>1. x = [s EXCEPT !.operationWork = q]
    BY DEF LessOperation, q
  <2> HIDE DEF x
  <2> QED
    BY <1>2, <2>1
<1> HIDE DEF x
<1>6. x \in SolverStates(f)
  BY <1>1, <1>3, <1>5, StateBuilt
<1>7. /\ x.visited = s.visited /\ x.scanning = s.scanning
      /\ x.values = s.values /\ x.blocks = s.blocks /\ x.edges = s.edges /\ x.order = s.order
      /\ x.blockWork = s.blockWork /\ x.operationWork = q
  BY <1>5
<1>8. Waiting(x) < Waiting(s) /\ Waiting(s) \in Nat
  <2> DEFINE n == Len(s.operationWork)
             m == Len(s.blockWork)
             k == Len(q)
  <2>1. Waiting(s) = n + m /\ Waiting(x) = k + m
    BY <1>7 DEF Waiting
  <2>2. k = n - 1 /\ n \in Nat /\ m \in Nat
    BY <1>4
  <2> HIDE DEF n, m, k
  <2> QED
    BY <2>1, <2>2
<1> QED
  BY <1>3, <1>6, <1>7, <1>8 DEF x

\* A block is taken from the queue.
LEMMA BlockTaken ==
  ASSUME NEW f, NEW s \in SolverStates(f), ~ IsEmpty(s.blockWork)
  PROVE  /\ Head(s.blockWork) \in DOMAIN f.blocks
         /\ LessBlock(s) \in SolverStates(f)
         /\ ToSet(s.blockWork) = {Head(s.blockWork)} \cup ToSet(LessBlock(s).blockWork)
         /\ LessBlock(s).visited = s.visited /\ LessBlock(s).scanning = s.scanning
         /\ LessBlock(s).values = s.values /\ LessBlock(s).blocks = s.blocks
         /\ LessBlock(s).edges = s.edges /\ LessBlock(s).order = s.order
         /\ LessBlock(s).operationWork = s.operationWork
         /\ Waiting(LessBlock(s)) < Waiting(s) /\ Waiting(s) \in Nat
<1>1. /\ s.values \in [DOMAIN f.values -> AbstractValue]
      /\ s.blocks \in SUBSET DOMAIN f.blocks /\ s.edges \in SUBSET Edges(f)
      /\ s.visited \in SUBSET DOMAIN f.blocks /\ s.scanning \in DOMAIN f.blocks \cup {None}
      /\ s.blockWork \in Seq(DOMAIN f.blocks) /\ s.operationWork \in Seq(DOMAIN f.operations)
      /\ s.order \in Orders
  BY StateParts
<1>2. s = [values |-> s.values, blocks |-> s.blocks, edges |-> s.edges, visited |-> s.visited,
           scanning |-> s.scanning, blockWork |-> s.blockWork,
           operationWork |-> s.operationWork, order |-> s.order]
  BY StateParts
<1> DEFINE x == LessBlock(s)
           q == Tail(s.blockWork)
<1>3. /\ Head(s.blockWork) \in DOMAIN f.blocks /\ q \in Seq(DOMAIN f.blocks)
      /\ ToSet(s.blockWork) = {Head(s.blockWork)} \cup ToSet(q)
  BY <1>1, PopTakesHead
<1>4. Len(q) = Len(s.blockWork) - 1 /\ Len(s.operationWork) \in Nat /\ Len(s.blockWork) \in Nat
  BY <1>1, HeadTailProperties, LenProperties DEF IsEmpty
<1> HIDE DEF q
<1>5. x = [values |-> s.values, blocks |-> s.blocks, edges |-> s.edges,
           visited |-> s.visited, scanning |-> s.scanning, blockWork |-> q,
           operationWork |-> s.operationWork, order |-> s.order]
  <2>1. x = [s EXCEPT !.blockWork = q]
    BY DEF LessBlock, q
  <2> HIDE DEF x
  <2> QED
    BY <1>2, <2>1
<1> HIDE DEF x
<1>6. x \in SolverStates(f)
  BY <1>1, <1>3, <1>5, StateBuilt
<1>7. /\ x.visited = s.visited /\ x.scanning = s.scanning
      /\ x.values = s.values /\ x.blocks = s.blocks /\ x.edges = s.edges /\ x.order = s.order
      /\ x.blockWork = q /\ x.operationWork = s.operationWork
  BY <1>5
<1>8. Waiting(x) < Waiting(s) /\ Waiting(s) \in Nat
  <2> DEFINE n == Len(s.operationWork)
             m == Len(s.blockWork)
             k == Len(q)
  <2>1. Waiting(s) = n + m /\ Waiting(x) = n + k
    BY <1>7 DEF Waiting
  <2>2. k = m - 1 /\ n \in Nat /\ m \in Nat
    BY <1>4
  <2> HIDE DEF n, m, k
  <2> QED
    BY <2>1, <2>2
<1> QED
  BY <1>3, <1>6, <1>7, <1>8 DEF x

\* A visit that starts with less to do advances.
LEMMA GrowthAdvances ==
  ASSUME NEW f, NEW N, NEW s \in SolverStates(f), NEW x \in SolverStates(f),
         x.values = s.values, x.blocks = s.blocks, x.edges = s.edges, Waiting(x) < Waiting(s),
         NEW t, Grows(f, N, x, t)
  PROVE  Advances(f, s, t)
<1>1. t \in SolverStates(f) /\ IsWithin(f, s, t)
  BY DEF Grows, IsWithin
<1>2. ASSUME SameFacts(f, s, t) PROVE Waiting(t) < Waiting(s)
  <2>1. SameFacts(f, x, t)
    BY <1>2 DEF SameFacts
  <2>2. t.blockWork = x.blockWork /\ t.operationWork = x.operationWork
    BY <2>1 DEF Grows
  <2>3. Waiting(t) = Waiting(x)
    BY <2>2 DEF Waiting
  <2> QED
    BY <2>3
<1> QED
  BY <1>1, <1>2 DEF Advances

\* A visit of a block advances.
LEMMA BlockVisitAdvances ==
  ASSUME NEW f, IsInOrder(f), NEW s \in SolverStates(f), NEW x \in SolverStates(f),
         x.values = s.values, x.blocks = s.blocks, x.edges = s.edges, Waiting(x) < Waiting(s),
         NEW b \in DOMAIN f.blocks
  PROVE  Advances(f, s, VisitBlock(f, x, b))
<1> DEFINE o == f.blocks[b].terminator
           x0 == Entered(x, b)
           t == VisitBlock(f, x, b)
<1>1. PICK u : /\ IsScanned(f, x, b, u)
               /\ t = IF o = None THEN Left(u) ELSE VisitTerminator(f, Left(u), o)
  BY ScanHolds
<1> HIDE DEF t
<1>2. /\ x0 \in SolverStates(f) /\ x0.values = x.values /\ x0.blocks = x.blocks /\ x0.edges = x.edges
      /\ x0.blockWork = x.blockWork /\ x0.operationWork = x.operationWork
  BY ScanEnds
<1>3. Waiting(x0) < Waiting(s)
  BY <1>2 DEF Waiting
<1> HIDE DEF x0
<1>4. Grows(f, {}, x0, u) /\ u \in SolverStates(f)
  BY <1>1 DEF IsScanned, Grows, x0
<1>5. Advances(f, s, u)
  BY <1>2, <1>3, <1>4, GrowthAdvances
<1> DEFINE y == Left(u)
<1>6. /\ y \in SolverStates(f) /\ y.values = u.values /\ y.blocks = u.blocks /\ y.edges = u.edges
      /\ y.blockWork = u.blockWork /\ y.operationWork = u.operationWork
  BY <1>4, ScanEnds
<1> HIDE DEF y
<1>7. Advances(f, s, y)
  BY <1>5, <1>6 DEF Advances, IsWithin, SameFacts, Waiting
<1>8. CASE o = None
  BY <1>1, <1>7, <1>8 DEF y, t
<1>9. CASE o # None
  <2>1. /\ o \in DOMAIN f.operations /\ f.operations[o].block = b
    BY <1>9, TerminatorsArePlaced
  <2>2. Grows(f, Taken(f, y, o), y, t)
    BY <1>1, <1>6, <1>9, <2>1, TerminatorVisitGrows DEF y
  <2> HIDE DEF o
  <2>3. t \in SolverStates(f) /\ IsWithin(f, y, t)
    BY <2>2 DEF Grows
  <2>4. IsAnalysis(f, s) /\ IsAnalysis(f, y) /\ IsAnalysis(f, t)
    BY <1>6, <2>3, StatesAreAnalyses
  <2>5. IsWithin(f, s, t)
    BY <1>7, <2>3, <2>4, WithinIsOrder DEF Advances
  <2>6. ASSUME SameFacts(f, s, t) PROVE Waiting(t) < Waiting(s)
    <3>1. IsWithin(f, y, s) /\ IsWithin(f, s, y)
      BY <1>7, <2>3, <2>6 DEF Advances, IsWithin, SameFacts
    <3>2. SameFacts(f, s, y)
      BY <2>4, <3>1, WithinIsOrder DEF SameFacts
    <3>3. SameFacts(f, y, t)
      BY <2>6, <3>2 DEF SameFacts
    <3>4. t.blockWork = y.blockWork /\ t.operationWork = y.operationWork
      BY <2>2, <3>3 DEF Grows
    <3>5. Waiting(y) < Waiting(s)
      BY <1>7, <3>2 DEF Advances
    <3> QED
      BY <3>4, <3>5 DEF Waiting
  <2> QED
    BY <2>3, <2>5, <2>6 DEF Advances, t
<1> QED
  BY <1>8, <1>9

\* Every step advances.
LEMMA StepAdvances ==
  ASSUME NEW f, IsInOrder(f), NEW s \in SolverStates(f), CanGoOn(s)
  PROVE  Advances(f, s, TakeWork(f, s)) /\ Waiting(s) \in Nat
<1>1. CASE ~ IsEmpty(s.operationWork)
  <2> DEFINE x == LessOperation(s)
             o == Head(s.operationWork)
  <2>1. /\ o \in DOMAIN f.operations /\ x \in SolverStates(f)
        /\ x.values = s.values /\ x.blocks = s.blocks /\ x.edges = s.edges
        /\ Waiting(x) < Waiting(s) /\ Waiting(s) \in Nat
    BY <1>1, OperationTaken
  <2>2. TakeWork(f, s) = VisitScheduledOperation(f, x, o)
    BY <1>1 DEF TakeWork, LessOperation
  <2> HIDE DEF x, o
  <2>3. CASE f.blocks[f.operations[o].block].terminator = o
    <3>1. Grows(f, Taken(f, x, o), x, VisitTerminator(f, x, o))
      BY <2>1, <2>3, TerminatorVisitGrows
    <3> QED
      BY <2>1, <2>2, <2>3, <3>1, GrowthAdvances DEF VisitScheduledOperation
  <2>4. CASE f.blocks[f.operations[o].block].terminator # o
    <3>1. Grows(f, {}, x, VisitValueOperation(f, x, o))
      BY <2>1, ValueVisitGrows
    <3> QED
      BY <2>1, <2>2, <2>4, <3>1, GrowthAdvances DEF VisitScheduledOperation
  <2> QED
    BY <2>3, <2>4
<1>2. CASE IsEmpty(s.operationWork)
  <2>1. ~ IsEmpty(s.blockWork)
    BY <1>2 DEF CanGoOn
  <2> DEFINE x == LessBlock(s)
             b == Head(s.blockWork)
  <2>2. /\ b \in DOMAIN f.blocks /\ x \in SolverStates(f)
        /\ x.values = s.values /\ x.blocks = s.blocks /\ x.edges = s.edges
        /\ Waiting(x) < Waiting(s) /\ Waiting(s) \in Nat
    BY <2>1, BlockTaken
  <2>3. TakeWork(f, s) = VisitBlock(f, x, b)
    BY <1>2 DEF TakeWork, LessBlock
  <2> HIDE DEF x, b
  <2> QED
    BY <2>2, <2>3, BlockVisitAdvances
<1> QED
  BY <1>1, <1>2

\* A state that knows the same works as well if what it owes waits or is done.
LEMMA SameFactsWork ==
  ASSUME NEW f, IsInOrder(f), NEW w, NEW s, IsWorking(f, w, s), NEW x \in SolverStates(f),
         x.values = s.values, x.blocks = s.blocks, x.edges = s.edges,
         s.visited \subseteq x.visited, x.blocks = x.visited \cup ToSet(x.blockWork),
         \A o \in ToSet(x.operationWork) : f.operations[o].block \in x.visited,
         NEW y,
         \A o \in DOMAIN f.operations :
           f.operations[o].block \in x.visited \ {x.scanning} =>
             o = y \/ o \in ToSet(x.operationWork) \/ IsUpToDate(f, s, o)
  PROVE  IsWorking(f, y, x)
<1>1. s \in SolverStates(f)
  BY DEF IsWorking
<1>2. IsAnalysis(f, s) /\ IsAnalysis(f, x)
  BY <1>1, StatesAreAnalyses
<1>3. IsWithin(f, s, x)
  <2>1. IsWithin(f, s, s)
    BY <1>2, WithinIsOrder
  <2> QED
    BY <2>1 DEF IsWithin
<1>4. \A o \in DOMAIN f.operations : OperandsAgree(f, s, x, o)
  BY DEF OperandsAgree
<1>5. \A o \in DOMAIN f.operations : IsUpToDate(f, s, o) => IsUpToDate(f, x, o)
  BY <1>2, <1>3, <1>4, StaysUpToDate
<1>6. ASSUME NEW e \in x.edges
      PROVE  /\ Target(f, e) \in x.blocks /\ Source(f, e) \in x.visited
             /\ e[2] \in ExecutableSuccessors(f, x, e[1])
  <2>1. e[1] \in DOMAIN f.operations
    BY <1>2, EdgesAreEnds DEF IsAnalysis
  <2>2. ExecutableSuccessors(f, s, e[1]) = ExecutableSuccessors(f, x, e[1])
    BY <1>2, <1>4, <2>1, AgreeingOperands
  <2>3. e \in s.edges
    OBVIOUS
  <2>4. /\ Target(f, e) \in s.blocks /\ Source(f, e) \in s.visited
        /\ e[2] \in ExecutableSuccessors(f, s, e[1])
    BY <2>3 DEF IsWorking
  <2> QED
    BY <2>2, <2>4
<1>7. /\ \A v \in BoundaryValues(f) : x.values[v] = Unknown
      /\ \A r \in DOMAIN f.regions : Entry(f, r) \in x.blocks
  BY DEF IsWorking
<1> QED
  BY <1>5, <1>6, <1>7 DEF IsWorking

\* What holds between two steps, for an analysis l from which nothing follows:
\* the solver works, is in no scan, and has found out nothing that l denies.
IsOnTrack(f, l, s) == IsWorking(f, None, s) /\ s.scanning = None /\ IsWithin(f, s, l)

\* A scheduled operation is visited.
LEMMA ScheduledVisitKeeps ==
  ASSUME NEW f, IsInOrder(f), NEW l, IsSaturated(f, l), NEW s, IsOnTrack(f, l, s),
         ~ IsEmpty(s.operationWork)
  PROVE  IsOnTrack(f, l, VisitScheduledOperation(f, LessOperation(s), Head(s.operationWork)))
<1> DEFINE x == LessOperation(s)
           o == Head(s.operationWork)
           b == f.operations[o].block
           t == VisitScheduledOperation(f, x, o)
<1>1. s \in SolverStates(f)
  BY DEF IsOnTrack, IsWorking
<1>2. /\ o \in DOMAIN f.operations /\ x \in SolverStates(f)
      /\ ToSet(s.operationWork) = {o} \cup ToSet(x.operationWork)
      /\ x.visited = s.visited /\ x.scanning = s.scanning
      /\ x.values = s.values /\ x.blocks = s.blocks /\ x.edges = s.edges
      /\ x.blockWork = s.blockWork
  BY <1>1, OperationTaken
<1> HIDE DEF x, o
<1>3. IsWorking(f, o, x)
  <2>1. /\ x.blocks = x.visited \cup ToSet(x.blockWork)
        /\ \A p \in ToSet(x.operationWork) : f.operations[p].block \in x.visited
    BY <1>2 DEF IsOnTrack, IsWorking
  <2>2. \A p \in DOMAIN f.operations :
          f.operations[p].block \in x.visited \ {x.scanning} =>
            p = o \/ p \in ToSet(x.operationWork) \/ IsUpToDate(f, s, p)
    <3>1. \A p \in DOMAIN f.operations : p # None
      BY DEF IsInOrder, IsAnalysable
    <3> QED
      BY <1>2, <3>1 DEF IsOnTrack, IsWorking
  <2>3. IsWorking(f, None, s)
    BY DEF IsOnTrack
  <2> QED
    BY <1>2, <2>1, <2>2, <2>3, SameFactsWork
<1>4. b \in x.visited /\ x.scanning = None /\ b # None /\ b \in l.blocks /\ b \in DOMAIN f.blocks
  <2>1. b \in s.visited /\ s.scanning = None
    BY <1>2 DEF IsOnTrack, IsWorking
  <2>2. b \in s.blocks
    BY <2>1 DEF IsOnTrack, IsWorking
  <2>3. b \in l.blocks
    BY <2>2 DEF IsOnTrack, IsWithin
  <2>4. b # None /\ b \in DOMAIN f.blocks
    BY <1>2, OperationsAreFit DEF IsFitAt
  <2> QED
    BY <1>2, <2>1, <2>3, <2>4
<1>5. IsWithin(f, x, l)
  BY <1>2 DEF IsOnTrack, IsWithin
<1> DEFINE IsVisited(N) ==
             /\ Grows(f, N, x, t) /\ IsWithin(f, t, l)
             /\ \A e \in N : Source(f, e) \in x.visited /\ e[2] \in ExecutableSuccessors(f, x, e[1])
             /\ o \in ToSet(t.operationWork) \/ IsUpToDate(f, t, o)
<1>6. \E N : IsVisited(N)
  <2>1. CASE f.blocks[b].terminator = o
    <3> DEFINE N == Taken(f, x, o)
    <3>1. t = VisitTerminator(f, x, o)
      BY <2>1 DEF VisitScheduledOperation
    <3>2. Grows(f, N, x, t) /\ TerminatorVisitTo(f, x, o, t)
      BY <1>2, <2>1, <3>1, TerminatorVisitGrows
    <3>3. \A e \in N : Source(f, e) \in x.visited /\ e[2] \in ExecutableSuccessors(f, x, e[1])
      BY <1>4 DEF Taken, Source
    <3> HIDE DEF N, t
    <3>4. IsWithin(f, t, l)
      BY <1>4, <1>5, <3>2 DEF TerminatorVisitTo
    <3>5. o \in ToSet(t.operationWork) \/ IsUpToDate(f, t, o)
      BY <1>4, <3>2 DEF TerminatorVisitTo
    <3>6. IsVisited(N)
      BY <3>2, <3>3, <3>4, <3>5
    <3> QED
      BY <3>6
  <2>2. CASE f.blocks[b].terminator # o
    <3>1. t = VisitValueOperation(f, x, o)
      BY <2>2 DEF VisitScheduledOperation
    <3>2. Grows(f, {}, x, t) /\ ValueVisitTo(f, x, o, t)
      BY <1>2, <3>1, ValueVisitGrows
    <3> HIDE DEF t
    <3>3. f.operations[o].targets = <<>>
      <4>1. o \in BlockOperations(f, b)
        BY <1>2, <1>4 DEF IsInOrder, PlacesAreExact
      <4>2. o \in ToSet(f.blocks[b].contents)
        BY <2>2, <4>1 DEF BlockOperations
      <4>3. ~ IsTerminator(f, o)
        BY <1>4, <4>2 DEF IsInOrder, PlacesAreExact
      <4> QED
        BY <1>2, <4>3 DEF IsInOrder, HasSuccessors
    <3>4. o \in ToSet(t.operationWork) \/ OperandsAgree(f, x, t, o)
      BY <1>2, <1>4, <3>2 DEF Grows
    <3>5. o \in ToSet(t.operationWork) \/ IsUpToDate(f, t, o)
      BY <1>2, <3>2, <3>3, <3>4, VisitedIsUpToDate
    <3>6. IsWithin(f, t, l)
      BY <1>4, <1>5, <3>2 DEF ValueVisitTo
    <3>7. IsVisited({})
      BY <3>2, <3>5, <3>6
    <3> QED
      BY <3>7
  <2> QED
    BY <2>1, <2>2
<1> HIDE DEF t
<1>7. PICK N : IsVisited(N)
  BY <1>6
<1>8. IsWorking(f, o, t)
  BY <1>3, <1>7, GrowingKeepsWorking
<1>9. IsWorking(f, None, t)
  BY <1>7, <1>8 DEF IsWorking
<1>10. t.scanning = None
  BY <1>4, <1>7 DEF Grows
<1> QED
  BY <1>7, <1>9, <1>10 DEF IsOnTrack, t, x, o

\* A block is scanned.
LEMMA BlockVisitKeeps ==
  ASSUME NEW f, IsInOrder(f), NEW l, IsSaturated(f, l), \A b \in l.blocks : ReadsGoBack(f, b),
         NEW s, IsOnTrack(f, l, s), ~ IsEmpty(s.blockWork)
  PROVE  IsOnTrack(f, l, VisitBlock(f, LessBlock(s), Head(s.blockWork)))
<1> DEFINE x == LessBlock(s)
           b == Head(s.blockWork)
           o == f.blocks[b].terminator
           t == VisitBlock(f, x, b)
           x0 == Entered(x, b)
<1>0. \A y \in SolverStates(f) : \A c \in DOMAIN f.blocks :
        /\ Entered(y, c) \in SolverStates(f)
        /\ Entered(y, c).visited = y.visited \cup {c} /\ Entered(y, c).scanning = c
        /\ Entered(y, c).values = y.values /\ Entered(y, c).blocks = y.blocks
        /\ Entered(y, c).edges = y.edges
        /\ Entered(y, c).blockWork = y.blockWork /\ Entered(y, c).operationWork = y.operationWork
  BY ScanEnds
<1>1. s \in SolverStates(f)
  BY DEF IsOnTrack, IsWorking
<1>2. /\ b \in DOMAIN f.blocks /\ x \in SolverStates(f)
      /\ ToSet(s.blockWork) = {b} \cup ToSet(x.blockWork)
      /\ x.visited = s.visited /\ x.scanning = s.scanning
      /\ x.values = s.values /\ x.blocks = s.blocks /\ x.edges = s.edges
      /\ x.operationWork = s.operationWork
  BY <1>1, BlockTaken
<1> HIDE DEF x, b
<1>3. PICK u : /\ IsScanned(f, x, b, u)
               /\ t = IF o = None THEN Left(u) ELSE VisitTerminator(f, Left(u), o)
  BY <1>2, ScanHolds
<1> HIDE DEF t
<1>4. /\ x0 \in SolverStates(f)
      /\ x0.visited = x.visited \cup {b} /\ x0.scanning = b
      /\ x0.values = x.values /\ x0.blocks = x.blocks /\ x0.edges = x.edges
      /\ x0.blockWork = x.blockWork /\ x0.operationWork = x.operationWork
  <2>1. b \in DOMAIN f.blocks /\ x \in SolverStates(f)
    BY <1>2
  <2> QED
    BY <1>0, <2>1, Zenon
<1> HIDE DEF x0
<1>5. b \in l.blocks /\ IsWithin(f, x, l) /\ ReadsGoBack(f, b)
  <2>1. b \in s.blocks
    BY <1>2 DEF IsOnTrack, IsWorking
  <2> QED
    BY <1>2, <2>1 DEF IsOnTrack, IsWithin
<1>6. IsWorking(f, None, x0)
  <2>1. IsWorking(f, None, s)
    BY DEF IsOnTrack
  <2>2. /\ x0.blocks = x0.visited \cup ToSet(x0.blockWork)
        /\ \A p \in ToSet(x0.operationWork) : f.operations[p].block \in x0.visited
    BY <1>2, <1>4, <2>1 DEF IsWorking
  <2>3. s.scanning = None
    BY DEF IsOnTrack
  <2>4. \A p \in DOMAIN f.operations : f.operations[p].block # None
    BY OperationsAreFit DEF IsFitAt
  <2>5. \A p \in DOMAIN f.operations :
          f.operations[p].block \in x0.visited \ {x0.scanning} =>
            p = None \/ p \in ToSet(x0.operationWork) \/ IsUpToDate(f, s, p)
    BY <1>2, <1>4, <2>1, <2>3, <2>4 DEF IsWorking
  <2>6. s.visited \subseteq x0.visited
    BY <1>2, <1>4
  <2>7. x0.values = s.values /\ x0.blocks = s.blocks /\ x0.edges = s.edges
    BY <1>2, <1>4
  <2> QED
    BY <1>4, <2>1, <2>2, <2>5, <2>6, <2>7, SameFactsWork
<1>7. Grows(f, {}, x0, u) /\ IsWithin(f, u, l)
  BY <1>3, <1>5 DEF IsScanned, x0
<1>8. \A i \in DOMAIN f.blocks[b].contents : IsUpToDate(f, u, f.blocks[b].contents[i])
  BY <1>3, <1>5 DEF IsScanned
<1>9. IsWorking(f, None, u)
  BY <1>6, <1>7, GrowingKeepsWorking
<1>10. u \in SolverStates(f) /\ u.visited = x.visited \cup {b} /\ u.scanning = b
  BY <1>4, <1>7 DEF Grows
<1> DEFINE y == Left(u)
<1>11. /\ y \in SolverStates(f)
       /\ y.visited = u.visited /\ y.scanning = None
       /\ y.values = u.values /\ y.blocks = u.blocks /\ y.edges = u.edges
       /\ y.blockWork = u.blockWork /\ y.operationWork = u.operationWork
  BY <1>2, <1>10, ScanEnds
<1> HIDE DEF y
<1>12. IsWorking(f, o, y)
  <2>1. /\ y.blocks = y.visited \cup ToSet(y.blockWork)
        /\ \A p \in ToSet(y.operationWork) : f.operations[p].block \in y.visited
    BY <1>9, <1>11 DEF IsWorking
  <2>2. ASSUME NEW p \in DOMAIN f.operations, f.operations[p].block \in y.visited, p # o
        PROVE  p \in ToSet(y.operationWork) \/ IsUpToDate(f, u, p)
    <3>1. CASE f.operations[p].block = b
      <4>1. p \in BlockOperations(f, b)
        BY <1>2, <3>1 DEF IsInOrder, PlacesAreExact
      <4>2. p \in ToSet(f.blocks[b].contents)
        BY <2>2, <4>1 DEF BlockOperations
      <4> QED
        BY <1>8, <4>2 DEF ToSet
    <3>2. CASE f.operations[p].block # b
      <4>1. f.operations[p].block \in u.visited \ {u.scanning}
        BY <1>10, <1>11, <2>2, <3>2
      <4>2. p # None
        BY DEF IsInOrder, IsAnalysable
      <4> QED
        BY <1>9, <1>11, <4>1, <4>2 DEF IsWorking
    <3> QED
      BY <3>1, <3>2
  <2> QED
    BY <1>9, <1>11, <2>1, <2>2, SameFactsWork
<1>13. IsWithin(f, y, l)
  BY <1>7, <1>11 DEF IsWithin
<1>14. CASE o = None
  BY <1>3, <1>11, <1>12, <1>13, <1>14 DEF IsOnTrack, y, t, x, b, o
<1>15. CASE o # None
  <2>1. o \in DOMAIN f.operations /\ f.operations[o].block = b
    BY <1>2, <1>15, TerminatorsArePlaced
  <2> DEFINE N == Taken(f, y, o)
  <2>2. Grows(f, N, y, t) /\ TerminatorVisitTo(f, y, o, t)
    BY <1>3, <1>11, <1>15, <2>1, TerminatorVisitGrows DEF y
  <2>3. \A e \in N : Source(f, e) \in y.visited /\ e[2] \in ExecutableSuccessors(f, y, e[1])
    BY <1>10, <1>11, <2>1 DEF Taken, Source
  <2> HIDE DEF N, o
  <2>4. IsWorking(f, o, t)
    BY <1>12, <2>2, <2>3, GrowingKeepsWorking
  <2>5. b \in y.visited \ {y.scanning}
    <3>1. b # None
      BY <1>2 DEF IsInOrder, IsAnalysable
    <3> QED
      BY <1>10, <1>11, <3>1
  <2>6. o \in ToSet(t.operationWork) \/ IsUpToDate(f, t, o)
    BY <2>1, <2>2, <2>5 DEF TerminatorVisitTo
  <2>7. IsWorking(f, None, t)
    BY <2>4, <2>6 DEF IsWorking
  <2>8. IsWithin(f, t, l)
    BY <1>5, <1>13, <2>1, <2>2 DEF TerminatorVisitTo
  <2>9. t.scanning = None
    BY <1>11, <2>2 DEF Grows
  <2> QED
    BY <2>7, <2>8, <2>9 DEF IsOnTrack, t, x, b
<1> QED
  BY <1>14, <1>15

\* Every step keeps the solver on track.
LEMMA StepKeeps ==
  ASSUME NEW f, IsInOrder(f), NEW l, IsSaturated(f, l), \A b \in l.blocks : ReadsGoBack(f, b),
         NEW s, IsOnTrack(f, l, s), CanGoOn(s)
  PROVE  IsOnTrack(f, l, TakeWork(f, s))
<1>1. CASE ~ IsEmpty(s.operationWork)
  <2>1. TakeWork(f, s) = VisitScheduledOperation(f, LessOperation(s), Head(s.operationWork))
    BY <1>1 DEF TakeWork, LessOperation
  <2> QED
    BY <1>1, <2>1, ScheduledVisitKeeps
<1>2. CASE IsEmpty(s.operationWork)
  <2>1. ~ IsEmpty(s.blockWork)
    BY <1>2 DEF CanGoOn
  <2>2. TakeWork(f, s) = VisitBlock(f, LessBlock(s), Head(s.blockWork))
    BY <1>2 DEF TakeWork, LessBlock
  <2> QED
    BY <2>1, <2>2, BlockVisitKeeps
<1> QED
  BY <1>1, <1>2

-----------------------------------------------------------------------------
(* The solver ends with the least solution                                 *)

\* What every edge and every operation has handed on leaves nothing to follow.
LEMMA AllToldIsSaturated ==
  ASSUME NEW f, IsInOrder(f), NEW a, IsAnalysis(f, a),
         \A v \in BoundaryValues(f) : a.values[v] = Unknown,
         \A r \in DOMAIN f.regions : Entry(f, r) \in a.blocks,
         \A e \in a.edges : /\ Target(f, e) \in a.blocks /\ Source(f, e) \in a.blocks
                            /\ e[2] \in ExecutableSuccessors(f, a, e[1]),
         \A o \in DOMAIN f.operations : f.operations[o].block \in a.blocks => IsUpToDate(f, a, o)
  PROVE  IsSaturated(f, a)
<1> DEFINE c == Consequences(f, a)
<1>1. c.blocks \subseteq a.blocks
  BY DEF Consequences
<1>2. c.edges \subseteq a.edges
  <2> SUFFICES ASSUME NEW b \in a.blocks, f.blocks[b].terminator # None,
                      NEW i \in ExecutableSuccessors(f, a, f.blocks[b].terminator)
               PROVE  <<f.blocks[b].terminator, i>> \in a.edges
    BY DEF Consequences
  <2> DEFINE o == f.blocks[b].terminator
  <2>1. o \in DOMAIN f.operations /\ f.operations[o].block = b
    BY TerminatorsArePlaced DEF IsAnalysis
  <2>2. IsUpToDate(f, a, o)
    BY <2>1
  <2> QED
    BY <2>2 DEF IsUpToDate, EdgeIsTold
<1>3. ASSUME NEW v \in DOMAIN f.values
      PROVE  IsCovered(ValueFact(f, a, v), a.values[v])
  <2> DEFINE d == f.values[v]
             b == DefiningBlock(f, v)
             y == a.values[v]
  <2>0. y \in AbstractValue /\ IsCovered(Bottom, y) /\ IsCovered(y, y)
    BY EndsHold, CoverIsOrder DEF IsAnalysis
  <2>1. CASE d.kind = "FunctionParameter"
    <3>1. v \in BoundaryValues(f)
      BY <2>1 DEF BoundaryValues
    <3>2. ValueFact(f, a, v) = Unknown
      BY <2>1 DEF ValueFact
    <3> QED
      BY <2>0, <3>1, <3>2
  <2>2. CASE d.kind # "FunctionParameter" /\ b \notin a.blocks
    <3>1. ValueFact(f, a, v) = Bottom
      BY <2>2 DEF ValueFact
    <3> QED
      BY <2>0, <3>1
  <2>3. CASE d.kind = "BlockParameter" /\ b \in a.blocks
    <3> DEFINE k == d.index
               X == Inputs(f, a, b, k)
               base == IF b = Entry(f, f.blocks[b].region) THEN Unknown ELSE Bottom
    <3>1. /\ b \in DOMAIN f.blocks /\ k \in DOMAIN f.blocks[b].parameters
          /\ f.blocks[b].parameters[k].value = v
      <4>1. IsWhereDefined(f, v)
        BY DEF IsInOrder, DefinitionsAreExact
      <4>2. b = d.block
        BY <2>3, Zenon DEF DefiningBlock
      <4> QED
        BY <2>3, <4>1, <4>2, Zenon DEF IsWhereDefined
    <3>2. ValueFact(f, a, v) = Join(base, JoinAll(X))
      BY <2>3 DEF ValueFact, ParameterFact, Inputs
    <3>3. IsCovered(base, y)
      <4>1. CASE b = Entry(f, f.blocks[b].region)
        <5>1. f.blocks[b].region \in DOMAIN f.regions
          BY <3>1 DEF IsInOrder, PlacesAreExact
        <5>2. v \in ParameterValues(f, b)
          BY <3>1 DEF ParameterValues
        <5>3. v \in BoundaryValues(f)
          BY <4>1, <5>1, <5>2 DEF BoundaryValues
        <5> QED
          BY <2>0, <4>1, <5>3
      <4>2. CASE b # Entry(f, f.blocks[b].region)
        BY <2>0, <4>2
      <4> QED
        BY <4>1, <4>2
    <3>4. ASSUME NEW x \in X PROVE IsCovered(x, y)
      <4>1. PICK e \in IncomingEdges(f, b) \cap a.edges : x = Incoming(f, a, e, k)
        BY DEF Inputs
      <4>2. e \in Edges(f) /\ Target(f, e) = b
        BY <4>1 DEF IncomingEdges
      <4>3. e[1] \in DOMAIN f.operations /\ e = <<e[1], e[2]>>
        BY <4>2, EdgesAreEnds
      <4>4. IsUpToDate(f, a, e[1])
        BY <4>1, <4>3 DEF Source
      <4>5. EdgeIsTold(f, a, e)
        BY <4>1, <4>3, <4>4 DEF IsUpToDate
      <4> HIDE DEF k, b
      <4> QED
        BY <3>1, <4>1, <4>2, <4>5 DEF EdgeIsTold
    <3>5. X \subseteq AbstractValue /\ JoinAll(X) \in AbstractValue
      <4>1. IsWithin(f, a, a)
        BY WithinIsOrder
      <4> QED
        BY <3>1, <4>1, InputsRise
    <3> HIDE DEF X, y
    <3>6. IsCovered(JoinAll(X), y)
      BY <2>0, <3>4, <3>5, JoinAllHolds
    <3>7. base \in AbstractValue
      BY EndsAreFacts
    <3> HIDE DEF base
    <3>8. IsCovered(Join(base, JoinAll(X)), y)
      BY <2>0, <3>3, <3>5, <3>6, <3>7, JoinHolds
    <3> QED
      BY <3>2, <3>8 DEF y
  <2>4. CASE d.kind = "OperationResult" /\ b \in a.blocks
    <3> DEFINE o == d.operation
    <3>1. /\ o \in DOMAIN f.operations /\ d.index \in DOMAIN f.operations[o].results
          /\ f.operations[o].results[d.index] = v /\ f.operations[o].block = b
      BY <2>4, ValuesAreDefined
    <3>2. IsUpToDate(f, a, o)
      BY <2>4, <3>1
    <3>3. ValueFact(f, a, v) = ResultFact(f, a, o)
      BY <2>4 DEF ValueFact
    <3> QED
      BY <3>1, <3>2, <3>3 DEF IsUpToDate
  <2> QED
    BY <2>1, <2>2, <2>3, <2>4, ValuesAreDefined
<1>4. \A v \in DOMAIN f.values : c.values[v] = ValueFact(f, a, v)
  BY DEF Consequences
<1> HIDE DEF c
<1>5. IsWithin(f, c, a)
  BY <1>1, <1>2, <1>3, <1>4 DEF IsWithin
<1> QED
  BY <1>5 DEF IsSaturated, c

\* The facts of a state.
FactsOf(s) == [values |-> s.values, blocks |-> s.blocks, edges |-> s.edges]

\* Where nothing waits, nothing follows.
LEMMA RestIsSaturated ==
  ASSUME NEW f, IsInOrder(f), NEW l, NEW s, IsOnTrack(f, l, s), ~ CanGoOn(s)
  PROVE  FactsOf(s) \in Analyses(f) /\ IsSaturated(f, FactsOf(s)) /\ IsWithin(f, FactsOf(s), l)
<1> DEFINE a == FactsOf(s)
<1>1. s \in SolverStates(f) /\ s.scanning = None /\ IsWorking(f, None, s)
  BY DEF IsOnTrack, IsWorking
<1>2. /\ s.values \in [DOMAIN f.values -> AbstractValue]
      /\ s.blocks \in SUBSET DOMAIN f.blocks /\ s.edges \in SUBSET Edges(f)
  BY <1>1, StateParts
<1>3. a.values = s.values /\ a.blocks = s.blocks /\ a.edges = s.edges
  BY DEF FactsOf
<1>4. a \in Analyses(f)
  BY <1>2 DEF FactsOf, Analyses
<1> HIDE DEF a
<1>5. IsAnalysis(f, a) /\ IsAnalysis(f, s)
  BY <1>1, <1>4, AnalysesHold, StatesAreAnalyses
<1>6. IsWithin(f, s, a)
  <2>1. IsWithin(f, s, s)
    BY <1>5, WithinIsOrder
  <2> QED
    BY <1>3, <2>1 DEF IsWithin
<1>7. \A o \in DOMAIN f.operations : OperandsAgree(f, s, a, o)
  BY <1>3 DEF OperandsAgree
<1>8. ToSet(s.operationWork) = {} /\ ToSet(s.blockWork) = {}
  <2>1. s.operationWork = <<>> /\ s.blockWork = <<>>
    BY DEF CanGoOn, IsEmpty
  <2>2. \A q : q = <<>> => ToSet(q) = {}
    BY DEF ToSet
  <2> QED
    BY <2>1, <2>2
<1>9. s.blocks = s.visited
  BY <1>1, <1>8 DEF IsWorking
<1>10. ASSUME NEW o \in DOMAIN f.operations, f.operations[o].block \in a.blocks
       PROVE  IsUpToDate(f, a, o)
  <2>1. o # None /\ f.operations[o].block # None
    BY <1>10, OperationsAreFit DEF IsInOrder, IsAnalysable, IsFitAt
  <2>2. f.operations[o].block \in s.visited \ {s.scanning}
    BY <1>1, <1>3, <1>9, <1>10, <2>1
  <2>3. IsUpToDate(f, s, o)
    BY <1>1, <1>8, <2>1, <2>2 DEF IsWorking
  <2> QED
    BY <1>5, <1>6, <1>7, <2>3, StaysUpToDate
<1>11. ASSUME NEW e \in a.edges
       PROVE  /\ Target(f, e) \in a.blocks /\ Source(f, e) \in a.blocks
              /\ e[2] \in ExecutableSuccessors(f, a, e[1])
  <2>1. e[1] \in DOMAIN f.operations
    BY <1>5, EdgesAreEnds DEF IsAnalysis
  <2>2. ExecutableSuccessors(f, s, e[1]) = ExecutableSuccessors(f, a, e[1])
    BY <1>5, <1>7, <2>1, AgreeingOperands
  <2>3. /\ Target(f, e) \in s.blocks /\ Source(f, e) \in s.visited
        /\ e[2] \in ExecutableSuccessors(f, s, e[1])
    BY <1>1, <1>3 DEF IsWorking
  <2> QED
    BY <1>3, <1>9, <2>2, <2>3
<1>12. /\ \A v \in BoundaryValues(f) : a.values[v] = Unknown
       /\ \A r \in DOMAIN f.regions : Entry(f, r) \in a.blocks
  BY <1>1, <1>3 DEF IsWorking
<1>13. IsSaturated(f, a)
  BY <1>5, <1>10, <1>11, <1>12, AllToldIsSaturated
<1>14. IsWithin(f, a, l)
  BY <1>3 DEF IsOnTrack, IsWithin
<1> QED
  BY <1>4, <1>13, <1>14 DEF a

\* The solver begins on track.
LEMMA BeginningHolds ==
  ASSUME NEW f, IsInOrder(f), NEW order \in Orders
  PROVE  /\ InitializeBoundaries(f, order) \in SolverStates(f)
         /\ \A l : IsSaturated(f, l) => IsOnTrack(f, l, InitializeBoundaries(f, order))
<1> DEFINE s == InitializeBoundaries(f, order)
           entries == {Entry(f, r) : r \in DOMAIN f.regions}
           x == [v \in DOMAIN f.values |-> IF v \in BoundaryValues(f) THEN Unknown ELSE Bottom]
           p == Listed(order, entries)
<1>1. entries \in SUBSET DOMAIN f.blocks
  BY EntriesAreBlocks
<1>2. p \in Seq(DOMAIN f.blocks) /\ ToSet(p) = entries
  <2> HIDE DEF entries
  <2>1. entries \in SUBSET Nat
    BY <1>1 DEF IsInOrder, IsAnalysable
  <2>2. IsFiniteSet(DOMAIN f.blocks)
    BY ArenasAreFinite
  <2>3. IsFiniteSet(entries)
    BY <1>1, <2>2, FS_Subset
  <2>4. p \in Seq(entries) /\ ToSet(p) = entries
    BY <2>1, <2>3, ListedHolds
  <2> HIDE DEF p
  <2>5. \A i \in 1..Len(p) : p[i] \in DOMAIN f.blocks
    BY <1>1, <2>4, LenProperties
  <2> QED
    BY <2>4, <2>5, LenProperties
<1>3. x \in [DOMAIN f.values -> AbstractValue]
  BY EndsAreFacts
<1>4. s = [values |-> x, blocks |-> entries, edges |-> {}, visited |-> {}, scanning |-> None,
           blockWork |-> p, operationWork |-> <<>>, order |-> order]
  BY DEF InitializeBoundaries
<1> HIDE DEF s, p
<1>5. s \in SolverStates(f)
  <2> HIDE DEF x, entries
  <2>1. {} \in SUBSET Edges(f) /\ {} \in SUBSET DOMAIN f.blocks /\ None \in DOMAIN f.blocks \cup {None}
    OBVIOUS
  <2>2. <<>> \in Seq(DOMAIN f.operations)
    OBVIOUS
  <2>3. [values |-> x, blocks |-> entries, edges |-> {}, visited |-> {}, scanning |-> None,
         blockWork |-> p, operationWork |-> <<>>, order |-> order] \in SolverStates(f)
    BY <1>1, <1>2, <1>3, <2>1, <2>2, StateBuilt
  <2> QED
    BY <1>4, <2>3
<1>6. /\ s.values = x /\ s.blocks = entries /\ s.edges = {} /\ s.visited = {}
      /\ s.scanning = None /\ s.blockWork = p /\ s.operationWork = <<>>
  BY <1>4
<1>7. IsWorking(f, None, s)
  <2>1. \A v \in BoundaryValues(f) : s.values[v] = Unknown
    BY <1>6, BoundariesAreValues
  <2>2. ToSet(s.operationWork) = {}
    BY <1>6 DEF ToSet
  <2>3. \A r \in DOMAIN f.regions : Entry(f, r) \in s.blocks
    BY <1>6
  <2> HIDE DEF x, entries
  <2> QED
    BY <1>2, <1>5, <1>6, <2>1, <2>2, <2>3 DEF IsWorking
<1>8. ASSUME NEW l, IsSaturated(f, l) PROVE IsWithin(f, s, l)
  <2>1. IsAnalysis(f, l) /\ IsWithin(f, Consequences(f, l), l)
    BY <1>8 DEF IsSaturated
  <2>2. entries \subseteq l.blocks
    BY <2>1 DEF IsWithin, Consequences
  <2>3. ASSUME NEW v \in BoundaryValues(f) PROVE IsCovered(Unknown, l.values[v])
    <3>0. v \in DOMAIN f.values /\ l.values[v] \in AbstractValue
      BY <2>1, BoundariesAreValues DEF IsAnalysis
    <3>1. IsCovered(ValueFact(f, l, v), l.values[v])
      BY <2>1, <3>0 DEF IsWithin, Consequences
    <3>2. CASE f.values[v].kind = "FunctionParameter"
      BY <3>1, <3>2 DEF ValueFact
    <3>3. CASE f.values[v].kind # "FunctionParameter"
      <4>1. PICK r \in DOMAIN f.regions : v \in ParameterValues(f, Entry(f, r))
        BY <3>3 DEF BoundaryValues
      <4> DEFINE b == Entry(f, r)
      <4>2. b \in DOMAIN f.blocks /\ f.blocks[b].region = r /\ b \in l.blocks
        BY <2>2, EntriesAreBlocks
      <4>3. PICK k \in DOMAIN f.blocks[b].parameters : v = f.blocks[b].parameters[k].value
        BY <4>1 DEF ParameterValues
      <4>4. f.values[v].kind = "BlockParameter" /\ f.values[v].block = b /\ f.values[v].index = k
        <5> HIDE DEF b
        <5>1. IsParameterAt(f, v, b, k)
          BY <4>2, <4>3, ParameterPlace, Zenon
        <5> QED
          BY <5>1, Zenon DEF IsParameterAt
      <4> DEFINE y == JoinAll(Inputs(f, l, b, k))
      <4>5. ValueFact(f, l, v) = Join(Unknown, y)
        BY <4>2, <4>4 DEF ValueFact, DefiningBlock, ParameterFact, Inputs
      <4>6. y \in AbstractValue
        <5>1. IsWithin(f, l, l)
          BY <2>1, WithinIsOrder
        <5> QED
          BY <2>1, <4>2, <4>3, <5>1, InputsRise
      <4> HIDE DEF y, b
      <4>7. Join(Unknown, y) \in AbstractValue /\ IsCovered(Unknown, Join(Unknown, y))
        BY <4>6, EndsAreFacts, JoinHolds
      <4> QED
        BY <3>0, <3>1, <4>5, <4>7, EndsAreFacts, CoverIsOrder
    <3> QED
      BY <3>2, <3>3
  <2>4. \A v \in DOMAIN f.values : IsCovered(Bottom, l.values[v])
    BY <2>1, EndsHold DEF IsAnalysis
  <2>5. \A v \in DOMAIN f.values : IsCovered(s.values[v], l.values[v])
    BY <1>6, <2>3, <2>4
  <2> HIDE DEF x, entries
  <2> QED
    BY <1>6, <2>2, <2>5 DEF IsWithin
<1> QED
  BY <1>5, <1>6, <1>7, <1>8 DEF IsOnTrack, s

\* The solver ends with an analysis of the function; and with the least solution
\* of the equations, if no operation that may execute reads a result of its
\* block before it is there.
LEMMA SolveHolds ==
  ASSUME NEW f, IsInOrder(f), NEW order \in Orders
  PROVE  /\ Solve(f, order) \in Analyses(f)
         /\ (\A b \in LeastFacts(f).blocks : ReadsGoBack(f, b)) => Solve(f, order) = LeastFacts(f)
<1> DEFINE S == SolverStates(f)
           Stop == {s \in S : ~ CanGoOn(s)}
           step == [s \in S |-> IF CanGoOn(s) THEN TakeWork(f, s) ELSE s]
           start == InitializeBoundaries(f, order)
           h == CHOOSE h : IsLoop(h, S, Stop, step)
           l == LeastFacts(f)
           Track == {s \in S : IsOnTrack(f, l, s)}
<1>1. \A s \in S : CanGoOn(s) => Advances(f, s, TakeWork(f, s)) /\ TakeWork(f, s) \in S
  BY StepAdvances DEF Advances
<1>2. step \in [S -> S] /\ Stop \in SUBSET S
  BY <1>1
<1>3. IsLoop(h, S, Stop, step)
  <2> HIDE DEF S, Stop, step
  <2> QED
    BY <1>2, LoopExists
<1>4. Solve(f, order) = FactsOf(h[start])
  <2> DEFINE IsSolution(g) == g = [s \in S |-> IF IsEmpty(s.operationWork) /\ IsEmpty(s.blockWork)
                                               THEN s ELSE g[TakeWork(f, s)]]
  <2>1. Solve(f, order) = FactsOf((CHOOSE g : IsSolution(g))[start])
    BY DEF Solve, FactsOf
  <2>2. \A g : IsLoop(g, S, Stop, step) <=> IsSolution(g)
    <3> TAKE g
    <3>1. \A s \in S : (IF s \in Stop THEN s ELSE g[step[s]])
                        = (IF IsEmpty(s.operationWork) /\ IsEmpty(s.blockWork)
                           THEN s ELSE g[TakeWork(f, s)])
      <4> HIDE DEF S
      <4> QED
        BY DEF CanGoOn
    <3>2. [s \in S |-> IF s \in Stop THEN s ELSE g[step[s]]]
            = [s \in S |-> IF IsEmpty(s.operationWork) /\ IsEmpty(s.blockWork)
                           THEN s ELSE g[TakeWork(f, s)]]
      <4> HIDE DEF S, Stop, step
      <4> QED
        BY <3>1
    <3> HIDE DEF Stop, step
    <3> QED
      BY <3>2 DEF IsLoop
  <2> HIDE DEF IsSolution, S, Stop, step, start
  <2>3. (CHOOSE g : IsSolution(g)) = (CHOOSE g : IsLoop(g, S, Stop, step))
    BY <2>2
  <2> QED
    BY <2>1, <2>3, Zenon DEF h
<1>5. start \in S
  BY BeginningHolds
<1>6. \A s \in S : IsAnalysis(f, s) /\ Gap(f, s) \in Nat /\ Waiting(s) \in Nat
  <2> SUFFICES ASSUME NEW s \in S PROVE IsAnalysis(f, s) /\ Gap(f, s) \in Nat /\ Waiting(s) \in Nat
    OBVIOUS
  <2>1. IsAnalysis(f, s)
    BY StatesAreAnalyses
  <2>2. Gap(f, s) \in Nat
    BY <2>1, GapFalls, WithinIsOrder
  <2>3. s.blockWork \in Seq(DOMAIN f.blocks) /\ s.operationWork \in Seq(DOMAIN f.operations)
    BY StateParts
  <2>4. Len(s.blockWork) \in Nat /\ Len(s.operationWork) \in Nat
    BY <2>3, LenProperties
  <2> DEFINE n == Len(s.operationWork)
             m == Len(s.blockWork)
  <2>5. Waiting(s) = n + m
    BY DEF Waiting
  <2>6. n \in Nat /\ m \in Nat
    BY <2>4
  <2> HIDE DEF n, m
  <2>7. Waiting(s) \in Nat
    BY <2>5, <2>6
  <2> QED
    BY <2>1, <2>2, <2>7
<1>7. ASSUME NEW s \in S \ Stop
      PROVE  /\ step[s] \in S
             /\ \/ Gap(f, step[s]) < Gap(f, s)
                \/ Gap(f, step[s]) = Gap(f, s) /\ Waiting(step[s]) < Waiting(s)
  <2>1. CanGoOn(s) /\ s \in S
    OBVIOUS
  <2>2. step[s] = TakeWork(f, s) /\ Advances(f, s, step[s]) /\ step[s] \in S
    BY <1>1, <2>1
  <2> DEFINE t == step[s]
  <2> HIDE DEF step, S
  <2>3. IsAnalysis(f, s) /\ IsAnalysis(f, t) /\ IsWithin(f, s, t)
    BY <1>6, <2>1, <2>2 DEF Advances
  <2> HIDE DEF t
  <2>4. SameFacts(f, s, t) => Gap(f, t) = Gap(f, s)
    BY <2>3, GapFalls
  <2>5. ~ SameFacts(f, s, t) => Gap(f, t) < Gap(f, s)
    BY <2>3, GapFalls
  <2>6. SameFacts(f, s, t) => Waiting(t) < Waiting(s)
    BY <2>2 DEF Advances, t
  <2> QED
    BY <2>2, <2>4, <2>5, <2>6 DEF t
<1>8. ASSUME NEW Kept \in SUBSET S, \A s \in Kept \ Stop : step[s] \in Kept
      PROVE  \A s \in Kept : h[s] \in Kept /\ h[s] \in Stop
  <2> DEFINE gap == [s \in Kept |-> Gap(f, s)]
             left == [s \in Kept |-> Waiting(s)]
  <2> HIDE DEF S, Stop, step, h
  <2>1. gap \in [Kept -> Nat] /\ left \in [Kept -> Nat]
    BY <1>6
  <2>2. \A s \in Kept \ Stop :
           /\ step[s] \in Kept
           /\ \/ gap[step[s]] < gap[s]
              \/ gap[step[s]] = gap[s] /\ left[step[s]] < left[s]
    BY <1>7, <1>8
  <2> HIDE DEF gap, left
  <2> QED
    BY <1>2, <1>3, <2>1, <2>2, LoopEnds
<1> HIDE DEF h, start, Stop, step
<1>9. h[start] \in S
  <2>1. \A s \in S : h[s] \in S
    <3>1. \A s \in S \ Stop : step[s] \in S
      BY <1>2
    <3> HIDE DEF S
    <3> QED
      BY <1>8, <3>1
  <2> QED
    BY <1>5, <2>1
<1>10. FactsOf(h[start]) \in Analyses(f)
  <2> DEFINE s == h[start]
  <2>1. /\ s.values \in [DOMAIN f.values -> AbstractValue]
        /\ s.blocks \in SUBSET DOMAIN f.blocks /\ s.edges \in SUBSET Edges(f)
    BY <1>9, StateParts
  <2> QED
    BY <2>1 DEF FactsOf, Analyses
<1>11. ASSUME \A b \in l.blocks : ReadsGoBack(f, b)
       PROVE  FactsOf(h[start]) = l
  <2>1. /\ l \in Analyses(f) /\ Consequences(f, l) = l /\ IsAnalysis(f, l)
        /\ \A c \in Analyses(f) : IsWithin(f, Consequences(f, c), c) => IsWithin(f, l, c)
    BY LeastFactsHold, AnalysesHold
  <2>2. IsSaturated(f, l)
    BY <2>1, WithinIsOrder DEF IsSaturated
  <2> HIDE DEF l
  <2>3. start \in Track
    BY <1>5, <2>2, BeginningHolds DEF start
  <2>4. \A s \in Track \ Stop : step[s] \in Track
    <3> SUFFICES ASSUME NEW s \in Track, s \notin Stop PROVE step[s] \in Track
      OBVIOUS
    <3>1. s \in S /\ CanGoOn(s) /\ IsOnTrack(f, l, s)
      BY DEF Stop
    <3>2. step[s] = TakeWork(f, s) /\ step[s] \in S
      BY <1>1, <3>1 DEF step
    <3>3. IsOnTrack(f, l, TakeWork(f, s))
      BY <1>11, <2>2, <3>1, StepKeeps
    <3> QED
      BY <3>2, <3>3
  <2>5. Track \in SUBSET S
    OBVIOUS
  <2>6. h[start] \in Track /\ h[start] \in Stop
    <3> HIDE DEF Track, S
    <3> QED
      BY <1>8, <2>3, <2>4, <2>5
  <2> DEFINE a == FactsOf(h[start])
  <2>7. IsOnTrack(f, l, h[start]) /\ ~ CanGoOn(h[start])
    BY <2>6 DEF Stop
  <2>8. a \in Analyses(f) /\ IsSaturated(f, a) /\ IsWithin(f, a, l)
    BY <2>7, RestIsSaturated
  <2> HIDE DEF a
  <2>9. IsWithin(f, l, a) /\ IsAnalysis(f, a)
    BY <2>1, <2>8 DEF IsSaturated
  <2>10. SameFacts(f, a, l)
    BY <2>1, <2>8, <2>9, WithinIsOrder DEF SameFacts
  <2>11. a = l
    BY <2>1, <2>8, <2>10, AnalysesHold
  <2> QED
    BY <2>11 DEF a
<1> QED
  BY <1>4, <1>10, <1>11

-----------------------------------------------------------------------------
(* What can execute is within reach                                        *)

\* n rounds of step, from the set B.
IsRounds(g, U, B, step, n) ==
  g \in [0..n -> SUBSET U] /\ g[0] = B /\ \A k \in 1..n : g[k] = step[g[k - 1]]

\* A loop that goes on from a set to a set has a result, however far it goes.
LEMMA RoundsExist ==
  ASSUME NEW U, NEW B \in SUBSET U, NEW step \in [SUBSET U -> SUBSET U], NEW n \in Nat
  PROVE  \E g : IsRounds(g, U, B, step, n)
<1> DEFINE T == {k \in 0..n : \E g : IsRounds(g, U, B, step, k)}
<1>1. 0 \in T
  <2> DEFINE g == [k \in 0..0 |-> B]
  <2>1. IsRounds(g, U, B, step, 0)
    BY DEF IsRounds
  <2> QED
    BY <2>1
<1>2. ASSUME NEW k \in 1..n, k - 1 \in T PROVE k \in T
  <2>0. PICK g : IsRounds(g, U, B, step, k - 1)
    BY <1>2
  <2>1. /\ g \in [0..(k - 1) -> SUBSET U] /\ g[0] = B
        /\ \A j \in 1..(k - 1) : g[j] = step[g[j - 1]]
    BY <2>0 DEF IsRounds
  <2> DEFINE h == [j \in 0..k |-> IF j = k THEN step[g[k - 1]] ELSE g[j]]
  <2>2. \A j \in 0..k : j # k => j \in 0..(k - 1)
    OBVIOUS
  <2>3. k - 1 \in 0..(k - 1) /\ 0 \in 0..(k - 1) /\ 0 # k
    OBVIOUS
  <2>4. h \in [0..k -> SUBSET U] /\ h[0] = B
    BY <2>1, <2>2, <2>3
  <2>5. ASSUME NEW j \in 1..k PROVE h[j] = step[h[j - 1]]
    <3>1. j \in 0..k /\ j - 1 \in 0..k /\ j - 1 # k /\ j - 1 \in 0..(k - 1)
      OBVIOUS
    <3>2. h[j - 1] = g[j - 1]
      BY <3>1
    <3>3. CASE j = k
      BY <3>1, <3>2, <3>3
    <3>4. CASE j # k
      <4>1. j \in 1..(k - 1) /\ h[j] = g[j]
        BY <3>1, <3>4
      <4> QED
        BY <2>1, <3>2, <4>1
    <3> QED
      BY <3>3, <3>4
  <2> HIDE DEF h
  <2>6. IsRounds(h, U, B, step, k)
    BY <2>4, <2>5 DEF IsRounds
  <2> QED
    BY <2>6
<1>3. 0..n \subseteq T
  BY <1>1, <1>2, CountingUp
<1> QED
  BY <1>3

\* Enough rounds of a step that takes nothing away.
IsClimb(g, U, B, step, n) ==
  /\ IsFiniteSet(U) /\ n \in Nat /\ Cardinality(U) <= n
  /\ B \in SUBSET U /\ step \in [SUBSET U -> SUBSET U]
  /\ \A C \in SUBSET U : C \subseteq step[C]
  /\ IsRounds(g, U, B, step, n)

\* Rounds of a step that takes nothing away come to an end after as many as
\* there are elements: every round that is not the last adds one.
LEMMA RoundsClose ==
  ASSUME NEW g, NEW U, NEW B, NEW step, NEW n, IsClimb(g, U, B, step, n)
  PROVE  B \subseteq g[n] /\ g[n] \in SUBSET U /\ step[g[n]] = g[n]
<1>0. /\ IsFiniteSet(U) /\ n \in Nat /\ Cardinality(U) <= n
      /\ B \in SUBSET U /\ step \in [SUBSET U -> SUBSET U]
      /\ \A C \in SUBSET U : C \subseteq step[C]
      /\ IsRounds(g, U, B, step, n)
  BY Zenon DEF IsClimb
<1> USE <1>0
<1>1. g \in [0..n -> SUBSET U] /\ g[0] = B /\ \A k \in 1..n : g[k] = step[g[k - 1]]
  BY DEF IsRounds
<1>2. \A C \in SUBSET U : IsFiniteSet(C) /\ Cardinality(C) \in Nat /\ Cardinality(C) <= Cardinality(U)
  BY FS_Subset, FS_CardinalityType
<1>3. Cardinality(U) \in Nat
  BY FS_CardinalityType
\* Either k elements are there, or there is nothing left to add.
<1> DEFINE T == {k \in 0..n :
                   /\ B \subseteq g[k] /\ g[k] \in SUBSET U
                   /\ step[g[k]] = g[k] \/ Cardinality(g[k]) >= k}
<1>4. 0 \in T
  <2>1. Cardinality(g[0]) >= 0 /\ g[0] \in SUBSET U /\ B \subseteq g[0]
    BY <1>1, <1>2
  <2> QED
    BY <2>1
<1>5. ASSUME NEW k \in 1..n, k - 1 \in T PROVE k \in T
  <2> DEFINE C == g[k - 1]
             D == g[k]
  <2>1. B \subseteq C /\ C \in SUBSET U /\ D = step[C]
    BY <1>1, <1>5
  <2>2. C \subseteq D /\ B \subseteq D /\ D \in SUBSET U
    BY <2>1
  <2>3. CASE C = D
    BY <2>1, <2>2, <2>3
  <2>4. CASE C # D
    <3>1. Cardinality(C) >= k - 1
      BY <1>5, <2>1, <2>4
    <3>2. PICK x \in D : x \notin C
      BY <2>2, <2>4
    <3>3. IsFiniteSet(D) /\ Cardinality(D) \in Nat /\ Cardinality(C) \in Nat
      BY <1>2, <2>1, <2>2
    <3>4. IsFiniteSet(D \ {x}) /\ Cardinality(D \ {x}) = Cardinality(D) - 1
      BY <3>2, <3>3, FS_RemoveElement
    <3>5. C \in SUBSET (D \ {x})
      BY <2>2, <3>2
    <3>6. Cardinality(C) <= Cardinality(D \ {x})
      BY <3>4, <3>5, FS_Subset
    <3> HIDE DEF C, D
    <3>7. Cardinality(D) >= k
      BY <3>1, <3>3, <3>4, <3>6
    <3> QED
      BY <2>2, <3>7 DEF D
  <2> QED
    BY <2>3, <2>4
<1>6. n \in T
  <2> HIDE DEF T
  <2>1. 0..n \subseteq T
    BY <1>4, <1>5, CountingUp
  <2> QED
    BY <2>1
<1>7. B \subseteq g[n] /\ g[n] \in SUBSET U
  BY <1>6
<1>8. step[g[n]] = g[n]
  <2>1. CASE Cardinality(g[n]) >= n
    <3>1. Cardinality(g[n]) = Cardinality(U)
      BY <1>2, <1>3, <1>7, <2>1
    <3>2. g[n] = U
      BY <1>7, <3>1, FS_Subset
    <3>3. U \in SUBSET U
      OBVIOUS
    <3>4. step[U] \in SUBSET U /\ U \subseteq step[U]
      BY <3>3
    <3>5. step[U] = U
      BY <3>4
    <3> QED
      BY <3>2, <3>5
  <2> QED
    BY <1>6, <2>1
<1> QED
  BY <1>7, <1>8

\* What is closed under the step and holds B holds every round.
LEMMA RoundsStayWithin ==
  ASSUME NEW U, NEW B \in SUBSET U, NEW step \in [SUBSET U -> SUBSET U],
         NEW n \in Nat, NEW g, IsRounds(g, U, B, step, n),
         NEW C, B \subseteq C, \A D \in SUBSET U : D \subseteq C => step[D] \subseteq C
  PROVE  g[n] \subseteq C
<1>1. g \in [0..n -> SUBSET U] /\ g[0] = B /\ \A k \in 1..n : g[k] = step[g[k - 1]]
  BY DEF IsRounds
<1> DEFINE T == {k \in 0..n : g[k] \subseteq C}
<1>2. 0 \in T
  BY <1>1
<1>3. ASSUME NEW k \in 1..n, k - 1 \in T PROVE k \in T
  BY <1>1, <1>3
<1> HIDE DEF T
<1>4. 0..n \subseteq T
  BY <1>2, <1>3, CountingUp
<1> QED
  BY <1>4 DEF T

\* What the edges of a function need for it to make sense to follow them.
IsGraph(f) ==
  /\ PlacesAreExact(f)
  /\ \A r \in DOMAIN f.regions : f.regions[r] \in Seq(DOMAIN f.blocks) /\ f.regions[r] # <<>>
  /\ \A e \in Edges(f) : /\ Target(f, e) \in DOMAIN f.blocks
                         /\ f.blocks[Source(f, e)].region = f.blocks[Target(f, e)].region

\* It is so where the passes look at a function.
LEMMA GraphInOrder ==
  ASSUME NEW f, IsInOrder(f)
  PROVE  IsGraph(f)
<1>1. \A r \in DOMAIN f.regions : f.regions[r] \in Seq(DOMAIN f.blocks) /\ f.regions[r] # <<>>
  BY DEF IsInOrder, IsLaidOut, IsAnalysable
<1>2. \A e \in Edges(f) : /\ Target(f, e) \in DOMAIN f.blocks
                          /\ f.blocks[Source(f, e)].region = f.blocks[Target(f, e)].region
  BY DEF IsInOrder, EdgesAreFit
<1> QED
  BY <1>1, <1>2 DEF IsGraph, IsInOrder

\* C and the blocks that edges of C lead to.
Followed(f, C) == C \cup {Target(f, e) : e \in {x \in Edges(f) : Source(f, x) \in C}}

\* The loop over the edges.
IsFollowing(g, f, r, A) ==
  g = [n \in 0..Len(f.regions[r]) |->
        IF n = 0 THEN {Entry(f, r)} \ A
        ELSE LET B == g[n - 1]
             IN  (B \cup {Target(f, e) : e \in {x \in Edges(f) : Source(f, x) \in B}}) \ A]

\* Edges lead from blocks of a region to blocks of the region.
LEMMA EdgesStay ==
  ASSUME NEW f, IsGraph(f), NEW r \in DOMAIN f.regions, NEW C \in SUBSET ToSet(f.regions[r])
  PROVE  C \subseteq Followed(f, C) /\ Followed(f, C) \in SUBSET ToSet(f.regions[r])
<1>1. ToSet(f.regions[r]) = {b \in DOMAIN f.blocks : f.blocks[b].region = r}
  BY DEF IsGraph, PlacesAreExact
<1>2. \A e \in Edges(f) : /\ Target(f, e) \in DOMAIN f.blocks
                          /\ f.blocks[Source(f, e)].region = f.blocks[Target(f, e)].region
  BY DEF IsGraph
<1> QED
  BY <1>1, <1>2 DEF Followed

\* The entry of a region is one of its blocks.
LEMMA EntryIsListed ==
  ASSUME NEW f, IsGraph(f), NEW r \in DOMAIN f.regions
  PROVE  /\ Len(f.regions[r]) \in Nat \ {0} /\ Entry(f, r) \in ToSet(f.regions[r])
         /\ f.regions[r] \in [1..Len(f.regions[r]) -> ToSet(f.regions[r])]
         /\ IsFiniteSet(ToSet(f.regions[r]))
         /\ Cardinality(ToSet(f.regions[r])) <= Len(f.regions[r])
<1>1. f.regions[r] \in Seq(DOMAIN f.blocks) /\ f.regions[r] # <<>>
  BY DEF IsGraph
<1> DEFINE s == f.regions[r]
<1>2. Len(s) \in Nat \ {0} /\ DOMAIN s = 1..Len(s) /\ Head(s) = s[1]
  BY <1>1
<1>3. 1 \in DOMAIN s
  BY <1>2
<1>4. s \in [1..Len(s) -> ToSet(s)]
  BY <1>1, <1>2 DEF ToSet
<1>5. IsFiniteSet(ToSet(s)) /\ Cardinality(ToSet(s)) <= Len(s)
  <2>1. s \in Surjection(1..Len(s), ToSet(s))
    BY <1>2, <1>4 DEF Surjection, ToSet
  <2>2. IsFiniteSet(1..Len(s)) /\ Cardinality(1..Len(s)) = Len(s)
    BY <1>2, FS_Interval
  <2> HIDE DEF s
  <2> QED
    BY <2>1, <2>2, FS_Surjection
<1> QED
  BY <1>2, <1>3, <1>4, <1>5 DEF Entry, ToSet

\* L is what n rounds of following edges from B come to, within U.
IsFollowed(f, A, U, B, n, L) ==
  \E step \in [SUBSET U -> SUBSET U] :
    /\ \A C \in SUBSET U : step[C] = Followed(f, C) \ A
    /\ \E g : IsRounds(g, U, B, step, n) /\ L = g[n]

\* ReachableAvoiding is the last round of following edges.
LEMMA AvoidingFollows ==
  ASSUME NEW f, IsGraph(f), NEW r \in DOMAIN f.regions, NEW A
  PROVE  /\ ({Entry(f, r)} \ A) \in SUBSET (ToSet(f.regions[r]) \ A)
         /\ IsFollowed(f, A, ToSet(f.regions[r]) \ A, {Entry(f, r)} \ A, Len(f.regions[r]),
                       ReachableAvoiding(f, r, A))
<1> DEFINE n == Len(f.regions[r])
           U == ToSet(f.regions[r]) \ A
           step == [C \in SUBSET U |-> Followed(f, C) \ A]
           B == {Entry(f, r)} \ A
           h == CHOOSE g : IsFollowing(g, f, r, A)
<1>1. n \in Nat /\ B \in SUBSET U
  BY EntryIsListed
<1>2. step \in [SUBSET U -> SUBSET U]
  <2>1. ASSUME NEW C \in SUBSET U PROVE Followed(f, C) \ A \in SUBSET U
    BY EdgesStay
  <2> QED
    BY <2>1
<1>3. PICK g \in [0..n -> SUBSET U] : g[0] = B /\ \A k \in 1..n : g[k] = step[g[k - 1]]
  <2> HIDE DEF n, U, step, B
  <2>1. \E g : IsRounds(g, U, B, step, n)
    BY <1>1, <1>2, RoundsExist
  <2> QED
    BY <2>1 DEF IsRounds
<1>4. IsFollowing(g, f, r, A)
  <2> DEFINE i == [k \in 0..n |-> IF k = 0 THEN B ELSE Followed(f, g[k - 1]) \ A]
             j == [k \in 0..n |->
                     IF k = 0 THEN {Entry(f, r)} \ A
                     ELSE LET C == g[k - 1]
                          IN  (C \cup {Target(f, e) : e \in {x \in Edges(f) : Source(f, x) \in C}}) \ A]
  <2>1. ASSUME NEW k \in 0..n PROVE g[k] = IF k = 0 THEN B ELSE Followed(f, g[k - 1]) \ A
    <3>1. CASE k = 0
      BY <1>3, <3>1
    <3>2. CASE k # 0
      <4>1. k \in 1..n /\ k - 1 \in 0..n
        BY <1>1, <3>2
      <4> QED
        BY <1>3, <3>2, <4>1
    <3> QED
      BY <3>1, <3>2
  <2>2. g = i
    BY <1>3, <2>1
  <2>3. i = j
    <3>1. \A k \in 0..n : (IF k = 0 THEN B ELSE Followed(f, g[k - 1]) \ A) = j[k]
      BY DEF Followed
    <3> QED
      BY <3>1
  <2>4. g = j
    BY <2>2, <2>3
  <2> QED
    BY <2>4, Zenon DEF IsFollowing
<1>5. IsFollowing(h, f, r, A)
  BY <1>4
<1>6. ReachableAvoiding(f, r, A) = h[n]
  BY Zenon DEF ReachableAvoiding, IsFollowing
<1>7. h = [k \in 0..n |->
            IF k = 0 THEN {Entry(f, r)} \ A
            ELSE LET C == h[k - 1]
                 IN  (C \cup {Target(f, e) : e \in {x \in Edges(f) : Source(f, x) \in C}}) \ A]
  BY <1>5 DEF IsFollowing
<1> HIDE DEF h, n
<1>8. 0 \in 0..n /\ \A k \in 1..n : k \in 0..n /\ k # 0
  BY <1>1
<1>9. DOMAIN h = 0..n /\ h[0] = B
  BY <1>7, <1>8
<1>10. ASSUME NEW k \in 1..n PROVE h[k] = Followed(f, h[k - 1]) \ A
  BY <1>7, <1>8 DEF Followed
<1> DEFINE T == {k \in 0..n : h[k] \in SUBSET U}
<1>11. 0 \in T
  BY <1>1, <1>9
<1>12. ASSUME NEW k \in 1..n, k - 1 \in T PROVE k \in T
  BY <1>2, <1>8, <1>10, <1>12
<1>13. 0..n \subseteq T
  <2> HIDE DEF T
  <2> QED
    BY <1>1, <1>11, <1>12, CountingUp
<1>14. h \in [0..n -> SUBSET U]
  <2>1. h = [k \in 0..n |-> h[k]]
    BY <1>7
  <2>2. \A k \in 0..n : h[k] \in SUBSET U
    BY <1>13
  <2> QED
    BY <2>1, <2>2
<1>15. \A k \in 1..n : h[k] = step[h[k - 1]]
  <2> TAKE k \in 1..n
  <2>1. k - 1 \in 0..n
    BY <1>1
  <2>2. h[k - 1] \in SUBSET U
    BY <1>14, <2>1
  <2> QED
    BY <1>10, <2>2
<1>16. IsRounds(h, U, B, step, n)
  BY <1>9, <1>14, <1>15 DEF IsRounds
<1>17. \A C \in SUBSET U : step[C] = Followed(f, C) \ A
  OBVIOUS
<1> HIDE DEF U, step, B
<1>18. IsFollowed(f, A, U, B, n, ReachableAvoiding(f, r, A))
  BY <1>2, <1>6, <1>16, <1>17 DEF IsFollowed
<1> QED
  BY <1>1, <1>18 DEF n, U, B

\* What can be reached on paths that avoid A is closed under edges that do.
LEMMA AvoidingIsClosed ==
  ASSUME NEW f, IsGraph(f), NEW r \in DOMAIN f.regions, NEW A
  PROVE  /\ ReachableAvoiding(f, r, A) \subseteq ToSet(f.regions[r]) \ A
         /\ Entry(f, r) \notin A => Entry(f, r) \in ReachableAvoiding(f, r, A)
         /\ \A e \in Edges(f) :
              Source(f, e) \in ReachableAvoiding(f, r, A) /\ Target(f, e) \notin A
                => Target(f, e) \in ReachableAvoiding(f, r, A)
<1> DEFINE n == Len(f.regions[r])
           U == ToSet(f.regions[r]) \ A
           B == {Entry(f, r)} \ A
           L == ReachableAvoiding(f, r, A)
<1>0. B \in SUBSET U /\ IsFollowed(f, A, U, B, n, L)
  BY AvoidingFollows
<1>1. PICK step \in [SUBSET U -> SUBSET U] :
        /\ \A C \in SUBSET U : step[C] = Followed(f, C) \ A
        /\ \E g : IsRounds(g, U, B, step, n) /\ L = g[n]
  BY <1>0 DEF IsFollowed
<1>2. PICK g : IsRounds(g, U, B, step, n) /\ L = g[n]
  BY <1>1
<1>3. IsFiniteSet(U) /\ Cardinality(U) <= n /\ n \in Nat
  <2> DEFINE V == ToSet(f.regions[r])
  <2>1. IsFiniteSet(V) /\ Cardinality(V) <= n /\ n \in Nat /\ U \in SUBSET V
    BY EntryIsListed
  <2> HIDE DEF V, U, n
  <2>2. IsFiniteSet(U) /\ Cardinality(U) <= Cardinality(V)
    BY <2>1, FS_Subset
  <2>3. Cardinality(U) \in Nat /\ Cardinality(V) \in Nat
    BY <2>1, <2>2, FS_CardinalityType
  <2> QED
    BY <2>1, <2>2, <2>3
<1>4. \A C \in SUBSET U : C \subseteq step[C]
  BY <1>1, EdgesStay
<1>5. B \subseteq L /\ L \in SUBSET U /\ step[L] = L
  <2> HIDE DEF n, U, B, L
  <2>1. B \subseteq g[n] /\ g[n] \in SUBSET U /\ step[g[n]] = g[n]
    <3>1. IsClimb(g, U, B, step, n)
      BY <1>0, <1>2, <1>3, <1>4, Zenon DEF IsClimb
    <3> QED
      BY <3>1, RoundsClose
  <2> QED
    BY <1>2, <2>1
<1>6. Followed(f, L) \ A = L
  <2> HIDE DEF L
  <2> QED
    BY <1>1, <1>5
<1>7. \A e \in Edges(f) : Source(f, e) \in L => Target(f, e) \in Followed(f, L)
  BY DEF Followed
<1> HIDE DEF L
<1> QED
  BY <1>5, <1>6, <1>7 DEF L

\* Nothing else can be reached: what is closed under the edges that avoid A
\* holds all of it.
LEMMA AvoidingIsLeast ==
  ASSUME NEW f, IsGraph(f), NEW r \in DOMAIN f.regions, NEW A, NEW C,
         Entry(f, r) \notin A => Entry(f, r) \in C,
         \A e \in Edges(f) :
           /\ Source(f, e) \in C \cap ReachableAvoiding(f, r, A)
           /\ Target(f, e) \in ReachableAvoiding(f, r, A)
           => Target(f, e) \in C
  PROVE  ReachableAvoiding(f, r, A) \subseteq C
<1> DEFINE n == Len(f.regions[r])
           U == ToSet(f.regions[r]) \ A
           B == {Entry(f, r)} \ A
           L == ReachableAvoiding(f, r, A)
           E == C \cap L
<1>0. B \in SUBSET U /\ IsFollowed(f, A, U, B, n, L)
  BY AvoidingFollows
<1>1. PICK step \in [SUBSET U -> SUBSET U] :
        /\ \A D \in SUBSET U : step[D] = Followed(f, D) \ A
        /\ \E g : IsRounds(g, U, B, step, n) /\ L = g[n]
  BY <1>0 DEF IsFollowed
<1>2. PICK g : IsRounds(g, U, B, step, n) /\ L = g[n]
  BY <1>1
<1>3. n \in Nat
  BY EntryIsListed
<1>4. /\ L \subseteq U /\ (Entry(f, r) \notin A => Entry(f, r) \in L)
      /\ \A e \in Edges(f) : Source(f, e) \in L /\ Target(f, e) \notin A => Target(f, e) \in L
  BY AvoidingIsClosed
<1> HIDE DEF L
<1>5. B \subseteq E
  BY <1>4
<1>6. \A e \in Edges(f) : Source(f, e) \in E /\ Target(f, e) \notin A => Target(f, e) \in E
  BY <1>4 DEF L
<1> HIDE DEF E
<1>7. ASSUME NEW D \in SUBSET U, D \subseteq E PROVE step[D] \subseteq E
  <2>1. Followed(f, D) \ A \subseteq E
    BY <1>6, <1>7 DEF Followed
  <2> QED
    BY <1>1, <2>1
<1>8. L \subseteq E
  <2> HIDE DEF n, U, B
  <2>1. \A D \in SUBSET U : D \subseteq E => step[D] \subseteq E
    BY <1>7
  <2>2. IsRounds(g, U, B, step, n)
    BY <1>2
  <2>3. g[n] \subseteq E
    BY <1>0, <1>3, <1>5, <2>1, <2>2, RoundsStayWithin
  <2> QED
    BY <1>2, <2>3
<1> QED
  BY <1>8 DEF E, L

\* What can be reached at all.
LEMMA ReachableIsClosed ==
  ASSUME NEW f, IsGraph(f), NEW r \in DOMAIN f.regions
  PROVE  /\ Entry(f, r) \in Reachable(f, r) /\ Reachable(f, r) \subseteq ToSet(f.regions[r])
         /\ \A e \in Edges(f) : Source(f, e) \in Reachable(f, r) => Target(f, e) \in Reachable(f, r)
BY AvoidingIsClosed DEF Reachable

\* What the analysis finds executable can be reached inside its region: nothing
\* but what can be reached follows from not knowing anything.
LEMMA LeastIsReachable ==
  ASSUME NEW f, IsInOrder(f), NEW b \in LeastFacts(f).blocks
  PROVE  b \in DOMAIN f.blocks /\ b \in Reachable(f, f.blocks[b].region)
<1> DEFINE Live == {x \in DOMAIN f.blocks : x \in Reachable(f, f.blocks[x].region)}
           c == [values |-> [v \in DOMAIN f.values |-> Unknown], blocks |-> Live,
                 edges |-> {e \in Edges(f) : Source(f, e) \in Live}]
           d == Consequences(f, c)
<1>1. c \in Analyses(f)
  BY EndsAreFacts DEF Analyses
<1>2. IsAnalysis(f, c) /\ d \in Analyses(f)
  BY <1>1, AnalysesHold, ConsequencesFollow
<1>3. \A r \in DOMAIN f.regions : ToSet(f.regions[r]) = {x \in DOMAIN f.blocks : f.blocks[x].region = r}
  BY DEF IsInOrder, PlacesAreExact
<1>4. \A x \in DOMAIN f.blocks : f.blocks[x].region \in DOMAIN f.regions
  BY DEF IsInOrder, PlacesAreExact
<1>5. \A v \in DOMAIN f.values : IsCovered(d.values[v], c.values[v])
  <2>1. \A v \in DOMAIN f.values : d.values[v] \in AbstractValue
    BY <1>2 DEF Analyses
  <2>2. \A v \in DOMAIN f.values : c.values[v] = Unknown
    OBVIOUS
  <2> HIDE DEF c, d
  <2> QED
    BY <2>1, <2>2, EndsHold
<1>6. \A r \in DOMAIN f.regions : Entry(f, r) \in Live
  BY <1>3, GraphInOrder, EntryIsListed, ReachableIsClosed
<1>7. ASSUME NEW e \in c.edges PROVE Target(f, e) \in Live
  <2>1. e \in Edges(f) /\ Source(f, e) \in Live
    OBVIOUS
  <2>2. Target(f, e) \in DOMAIN f.blocks /\ f.blocks[Source(f, e)].region = f.blocks[Target(f, e)].region
    BY <2>1 DEF IsInOrder, EdgesAreFit
  <2> QED
    BY <1>4, <2>1, <2>2, GraphInOrder, ReachableIsClosed
<1>8. d.blocks \subseteq c.blocks
  <2>1. d.blocks = {Entry(f, r) : r \in DOMAIN f.regions} \cup {Target(f, e) : e \in c.edges}
    BY Zenon DEF Consequences
  <2>2. c.blocks = Live
    OBVIOUS
  <2> HIDE DEF c, d, Live
  <2> QED
    BY <1>6, <1>7, <2>1, <2>2
<1>9. ASSUME NEW e \in d.edges PROVE e \in c.edges
  <2>1. d.edges = UNION {{o} \X ExecutableSuccessors(f, c, o) :
                           o \in {f.blocks[x].terminator : x \in c.blocks} \ {None}}
    BY Zenon DEF Consequences
  <2>2. PICK x \in Live : f.blocks[x].terminator # None /\ e[1] = f.blocks[x].terminator
    BY <2>1
  <2>3. e \in Edges(f)
    BY <1>2 DEF Analyses
  <2>4. Source(f, e) = x
    BY <2>2, TerminatorsArePlaced DEF Source
  <2> QED
    BY <2>2, <2>3, <2>4
<1>10. IsWithin(f, d, c)
  BY <1>5, <1>8, <1>9 DEF IsWithin
<1> HIDE DEF c, d
<1>11. IsWithin(f, LeastFacts(f), c)
  BY <1>1, <1>10, LeastFactsHold DEF d
<1>12. b \in Live
  BY <1>11 DEF IsWithin, c
<1> QED
  BY <1>12

\* If definitions dominate uses, a block that executes reads only results of
\* operations before the one that reads.
LEMMA BlocksReadBack ==
  ASSUME NEW f, IsInOrder(f), ReadsAreAvailable(f), NEW b \in LeastFacts(f).blocks
  PROVE  ReadsGoBack(f, b)
<1> DEFINE s == f.blocks[b].contents
<1>1. b \in DOMAIN f.blocks /\ b \in Reachable(f, f.blocks[b].region)
  BY LeastIsReachable
<1> SUFFICES ASSUME NEW i \in DOMAIN s, NEW j \in DOMAIN s,
                    NEW k \in DOMAIN f.operations[s[j]].operands,
                    f.operations[s[j]].operands[k] \in ToSet(f.operations[s[i]].results)
             PROVE  i < j
  BY DEF ReadsGoBack
<1> DEFINE o == s[j]
           q == s[i]
           v == f.operations[o].operands[k]
<1>2. /\ o \in DOMAIN f.operations /\ f.operations[o].block = b
      /\ q \in DOMAIN f.operations /\ f.operations[q].block = b
  <2>1. \A x \in ToSet(s) : x \in BlockOperations(f, b)
    BY DEF BlockOperations
  <2>2. o \in ToSet(s) /\ q \in ToSet(s)
    BY DEF ToSet
  <2> QED
    BY <1>1, <2>1, <2>2 DEF IsInOrder, PlacesAreExact
<1>3. f.values[v].kind = "OperationResult" /\ f.values[v].operation = q
  <2>1. PICK x \in DOMAIN f.operations[q].results : v = f.operations[q].results[x]
    BY DEF ToSet
  <2> HIDE DEF v, q, o
  <2> QED
    <3>1. IsResultAt(f, v, q, x)
      BY <1>2, <2>1, ResultPlace, Zenon
    <3> QED
      BY <3>1, Zenon DEF IsResultAt
<1>4. DefiningBlock(f, v) = b
  BY <1>2, <1>3 DEF DefiningBlock
<1>5. IsAvailableAt(f, v, o)
  <2>1. v \in ToSet(f.operations[o].operands)
    BY DEF ToSet
  <2>2. o \in ReadersOf(f, v)
    BY <1>2, <2>1 DEF ReadersOf
  <2>3. v \in DOMAIN f.values
    BY <1>2, <2>1 DEF IsInOrder, UsesAreExact
  <2> QED
    BY <2>2, <2>3 DEF ReadsAreAvailable
<1> HIDE DEF o, q, v
<1>6. AheadInBlock(f, v) = UpTo(f, q)
  BY <1>1, <1>3, <1>4 DEF AheadInBlock, RegionOf
<1>7. o \notin UpTo(f, q)
  BY <1>3, <1>5, <1>6 DEF IsAvailableAt, RunsWithout, Running
<1>8. j <= i => o \in UpTo(f, q)
  BY <1>2 DEF UpTo, o, q
<1>9. DOMAIN s \subseteq Nat
  <2>1. s \in Seq(DOMAIN f.operations)
    BY <1>1 DEF IsInOrder, IsLaidOut
  <2> HIDE DEF s
  <2> QED
    BY <2>1, LenProperties
<1> QED
  BY <1>7, <1>8, <1>9

\* The analysis of a function in SSA form comes to the least solution of its
\* equations, in whichever order the users of a value and the entries are taken.
LEMMA SolveIsLeast ==
  ASSUME NEW f, IsInOrder(f), ReadsAreAvailable(f), NEW order \in Orders
  PROVE  Solve(f, order) = LeastFacts(f)
BY BlocksReadBack, SolveHolds

-----------------------------------------------------------------------------
(* What the analysis relies on survives every editor call                  *)

\* A list without some of its members lists no other twice.
LEMMA WithoutListsOnce ==
  ASSUME NEW T, NEW s \in Seq(T), IsInjective(s), NEW S
  PROVE  IsInjective(Without(s, S))
<1> DEFINE n == Len(s)
           f == CHOOSE g : IsSieve(g, s, S, n)
           C == {k \in 0..n : /\ f[k] \in Seq(T) /\ IsInjective(f[k])
                              /\ \A x \in ToSet(f[k]) : \E i \in 1..k : x = s[i]}
<1>1. n \in Nat /\ DOMAIN s = 1..n /\ \A i \in 1..n : s[i] \in T
  BY LenProperties
<1>2. IsSieve(f, s, S, n)
  BY <1>1, SieveExists
<1>3. Without(s, S) = f[n]
  <2>1. f = CHOOSE g : g = [i \in 0..n |-> IF i = 0 THEN <<>> ELSE
                               IF s[i] \in S THEN g[i - 1] ELSE Append(g[i - 1], s[i])]
    BY DEF IsSieve
  <2> QED
    BY <2>1, Zenon DEF Without
<1>4. /\ f[0] = <<>>
      /\ \A k \in 1..n : f[k] = IF s[k] \in S THEN f[k - 1] ELSE Append(f[k - 1], s[k])
  <2>1. f = [i \in 0..n |-> IF i = 0 THEN <<>> ELSE
                               IF s[i] \in S THEN f[i - 1] ELSE Append(f[i - 1], s[i])]
    BY <1>2 DEF IsSieve
  <2> HIDE DEF f, n
  <2>2. 0 \in 0..n /\ \A k \in 1..n : k \in 0..n /\ k # 0
    BY <1>1
  <2> QED
    BY <2>1, <2>2
<1> HIDE DEF f
<1>5. 0 \in C
  <2>1. 0 \in 0..n /\ <<>> \in Seq(T)
    BY <1>1
  <2>2. ToSet(<<>>) = {} /\ IsInjective(<<>>)
    BY DEF ToSet, IsInjective
  <2> QED
    BY <1>4, <2>1, <2>2
<1>6. ASSUME NEW k \in 1..n, k - 1 \in C PROVE k \in C
  <2> DEFINE t == f[k - 1]
             u == Append(t, s[k])
  <2>1. t \in Seq(T) /\ IsInjective(t) /\ k \in 0..n /\ \A x \in ToSet(t) : \E i \in 1..(k - 1) : x = s[i]
    BY <1>6
  <2>2. \A i \in 1..(k - 1) : i \in 1..k /\ i \in 1..n /\ i # k
    BY <1>1
  <2>3. CASE s[k] \in S
    <3>1. f[k] = t
      BY <1>4, <2>3
    <3> QED
      BY <2>1, <2>2, <3>1
  <2>4. CASE s[k] \notin S
    <3>1. f[k] = u /\ s[k] \in T
      BY <1>1, <1>4, <2>4
    <3> HIDE DEF t
    <3>2. /\ Len(t) \in Nat /\ DOMAIN t = 1..Len(t)
          /\ DOMAIN u = 1..(Len(t) + 1) /\ u[Len(t) + 1] = s[k] /\ u \in Seq(T)
          /\ \A i \in 1..Len(t) : u[i] = t[i]
      BY <2>1, <3>1
    <3> DEFINE m == Len(t)
    <3> HIDE DEF u, m
    <3>3. \A i : i \in 1..(m + 1) <=> i \in 1..m \/ i = m + 1
      BY <3>2 DEF m
    <3>4. \A i \in 1..m : u[i] # s[k]
      <4>1. s[k] \notin ToSet(t)
        BY <1>1, <2>1, <2>2 DEF IsInjective
      <4> QED
        BY <3>2, <4>1 DEF m, ToSet
    <3>5. IsInjective(u)
      <4> SUFFICES ASSUME NEW x \in 1..(m + 1), NEW y \in 1..(m + 1), u[x] = u[y] PROVE x = y
        BY <3>2 DEF m, IsInjective
      <4>1. CASE x \in 1..m /\ y \in 1..m
        BY <2>1, <3>2, <4>1 DEF m, IsInjective
      <4>2. CASE x = m + 1 \/ y = m + 1
        BY <3>2, <3>3, <3>4, <4>2 DEF m
      <4> QED
        BY <3>3, <4>1, <4>2
    <3>6. \A x \in ToSet(u) : x \in ToSet(t) \/ x = s[k]
      BY <3>2, <3>3 DEF m, ToSet
    <3>7. \A x \in ToSet(u) : \E i \in 1..k : x = s[i]
      BY <2>1, <2>2, <3>6
    <3> QED
      BY <2>1, <3>1, <3>2, <3>5, <3>7
  <2> QED
    BY <2>3, <2>4
<1>7. n \in C
  <2> HIDE DEF C
  <2>1. 0..n \subseteq C
    BY <1>1, <1>5, <1>6, CountingUp
  <2> QED
    BY <1>1, <2>1
<1> QED
  BY <1>3, <1>7

\* Two lists with nothing in common list nothing twice together.
LEMMA JoinedListsOnce ==
  ASSUME NEW T, NEW s \in Seq(T), NEW t \in Seq(T), IsInjective(s), IsInjective(t),
         \A i \in DOMAIN s : \A j \in DOMAIN t : s[i] # t[j]
  PROVE  IsInjective(s \o t)
<1> DEFINE m == Len(s)
           n == Len(t)
           u == s \o t
<1>1. /\ m \in Nat /\ n \in Nat /\ DOMAIN s = 1..m /\ DOMAIN t = 1..n /\ DOMAIN u = 1..(m + n)
      /\ \A i \in 1..(m + n) : u[i] = IF i <= m THEN s[i] ELSE t[i - m]
  BY ConcatProperties, LenProperties
<1> HIDE DEF u, m, n
<1>2. ASSUME NEW x \in 1..(m + n), NEW y \in 1..(m + n), u[x] = u[y] PROVE x = y
  <2>1. \A i \in 1..(m + n) : IF i <= m THEN i \in DOMAIN s ELSE i - m \in DOMAIN t
    BY <1>1
  <2>2. u[x] = (IF x <= m THEN s[x] ELSE t[x - m]) /\ u[y] = (IF y <= m THEN s[y] ELSE t[y - m])
    BY <1>1
  <2>3. CASE x <= m /\ y <= m
    BY <1>2, <2>1, <2>2, <2>3 DEF IsInjective
  <2>4. CASE ~ x <= m /\ ~ y <= m
    <3>1. t[x - m] = t[y - m] /\ x - m \in DOMAIN t /\ y - m \in DOMAIN t
      BY <1>2, <2>1, <2>2, <2>4
    <3>2. x - m = y - m
      BY <3>1 DEF IsInjective
    <3> QED
      BY <1>1, <3>2
  <2>5. CASE x <= m <=> ~ y <= m
    BY <1>2, <2>1, <2>2, <2>5
  <2> QED
    BY <2>3, <2>4, <2>5
<1> QED
  BY <1>1, <1>2 DEF IsInjective, u

\* An operation stays of its kind and in its region, or becomes a jump or a
\* constant.
KeepsKind(f, g, o) ==
  LET op  == f.operations[o]
      new == g.operations[o]
  IN  /\ DOMAIN new = DOMAIN op /\ new.results = op.results /\ new.regions = op.regions
      /\ f.blocks[new.block].region = f.blocks[op.block].region
      /\ \/ /\ new.kind = op.kind /\ new.own = op.own /\ new.detail = op.detail
            /\ Len(new.targets) = Len(op.targets)
         \/ new.kind = "Jump" /\ IsTerminator(f, o) /\ new.own = 0 /\ Len(new.targets) = 1
         \/ new.kind = "Constant" /\ new.own = 0 /\ new.detail \in Constants

\* So do all that g has of f.
KeepsKinds(f, g) ==
  /\ DOMAIN g.regions \subseteq DOMAIN f.regions
  /\ \A r \in DOMAIN g.regions : g.regions[r] # <<>>
  /\ DOMAIN g.blocks \subseteq DOMAIN f.blocks
  /\ \A b \in DOMAIN g.blocks :
       g.blocks[b].region = f.blocks[b].region /\ IsInjective(g.blocks[b].contents)
  /\ DOMAIN g.operations \subseteq DOMAIN f.operations
  /\ DOMAIN g.values \subseteq DOMAIN f.values
  /\ \A o \in DOMAIN g.operations : KeepsKind(f, g, o)

\* Then the analysis can rely on g as it does on f.
LEMMA KeptIsAnalysable ==
  ASSUME NEW f, NEW g, IsAnalysable(f), KeepsKinds(f, g), IsOrderly(g)
  PROVE  IsAnalysable(g)
<1>1. /\ (DOMAIN g.blocks) \cup (DOMAIN g.operations) \subseteq Nat \ {None}
      /\ DOMAIN g.regions \subseteq Nat
  BY DEF IsAnalysable, KeepsKinds
<1>2. IsFiniteSet(DOMAIN g.values)
  <2>1. IsFiniteSet(DOMAIN f.values) /\ DOMAIN g.values \subseteq DOMAIN f.values
    BY DEF IsAnalysable, KeepsKinds
  <2> QED
    BY <2>1, FS_Subset
<1>3. /\ \A r \in DOMAIN g.regions : g.regions[r] # <<>>
      /\ \A b \in DOMAIN g.blocks : IsInjective(g.blocks[b].contents)
  BY DEF KeepsKinds
<1>4. ASSUME NEW o \in DOMAIN g.operations
      PROVE  LET op == g.operations[o]
             IN  /\ {"own", "detail"} \subseteq DOMAIN op
                 /\ Arity(op.kind) <= op.own
                 /\ op.kind \in Operators => op.own = Arity(op.kind) /\ Len(op.results) = 1
                 /\ op.kind = "Constant" => op.detail \in Constants
                 /\ op.kind \in ConditionalBranch => Len(op.targets) = 2
                 /\ op.kind = "Jump" => Len(op.targets) = 1
                 /\ op.results \in Seq(DOMAIN g.values)
                 /\ IsTerminator(g, o) => op.results = <<>>
                 /\ \A r \in op.regions : g.blocks[op.block].region < r
  <2> DEFINE op  == f.operations[o]
             new == g.operations[o]
  <2>1. o \in DOMAIN f.operations /\ KeepsKind(f, g, o)
    BY DEF KeepsKinds
  <2>2. /\ {"own", "detail"} \subseteq DOMAIN op
        /\ Arity(op.kind) <= op.own
        /\ op.kind \in Operators => op.own = Arity(op.kind) /\ Len(op.results) = 1
        /\ op.kind = "Constant" => op.detail \in Constants
        /\ op.kind \in ConditionalBranch => Len(op.targets) = 2
        /\ op.kind = "Jump" => Len(op.targets) = 1
        /\ op.results \in Seq(DOMAIN f.values)
        /\ IsTerminator(f, o) => op.results = <<>>
        /\ \A r \in op.regions : f.blocks[op.block].region < r
    BY <2>1 DEF IsAnalysable
  <2>3. /\ DOMAIN new = DOMAIN op /\ new.results = op.results /\ new.regions = op.regions
        /\ f.blocks[new.block].region = f.blocks[op.block].region
        /\ \/ /\ new.kind = op.kind /\ new.own = op.own /\ new.detail = op.detail
              /\ Len(new.targets) = Len(op.targets)
           \/ new.kind = "Jump" /\ IsTerminator(f, o) /\ new.own = 0 /\ Len(new.targets) = 1
           \/ new.kind = "Constant" /\ new.own = 0 /\ new.detail \in Constants
    BY <2>1 DEF KeepsKind
  <2>4. IsTerminator(g, o) <=> new.kind \in Terminators
    BY DEF IsTerminator
  <2>5. IsTerminator(f, o) <=> op.kind \in Terminators
    BY DEF IsTerminator
  <2>6. new.block \in DOMAIN g.blocks /\ g.blocks[new.block].region = f.blocks[new.block].region
    BY DEF IsOrderly, PlacesAreExact, KeepsKinds
  <2>7. ToSet(new.results) \subseteq DOMAIN g.values
    <3> SUFFICES ASSUME NEW k \in DOMAIN new.results PROVE new.results[k] \in DOMAIN g.values
      BY DEF ToSet
    <3>1. DefinitionsAreExact(g)
      BY DEF IsOrderly
    <3> QED
      BY <3>1, Zenon DEF DefinitionsAreExact, IsDefinedAs
  <2> HIDE DEF op, new
  <2>8. new.results \in Seq(DOMAIN g.values)
    BY <2>2, <2>3, <2>7, ListOverMembers
  <2>9. \A r \in new.regions : g.blocks[new.block].region < r
    BY <2>2, <2>3, <2>6
  <2>10. /\ Arity(new.kind) <= new.own
         /\ new.kind \in Operators => new.own = Arity(new.kind) /\ Len(new.results) = 1
         /\ new.kind = "Constant" => new.detail \in Constants
         /\ new.kind \in ConditionalBranch => Len(new.targets) = 2
         /\ new.kind = "Jump" => Len(new.targets) = 1
         /\ IsTerminator(g, o) => new.results = <<>>
    <3>1. CASE new.kind = op.kind /\ new.own = op.own /\ new.detail = op.detail
               /\ Len(new.targets) = Len(op.targets)
      BY <2>2, <2>3, <2>4, <2>5, <3>1
    <3>2. CASE new.kind = "Jump" /\ IsTerminator(f, o) /\ new.own = 0 /\ Len(new.targets) = 1
      BY <2>2, <2>3, <3>2 DEF Arity, ConditionalBranch, Operators
    <3>3. CASE new.kind = "Constant" /\ new.own = 0 /\ new.detail \in Constants
      BY <2>4, <3>3 DEF Arity, ConditionalBranch, Terminators, Operators
    <3> QED
      BY <2>3, <3>1, <3>2, <3>3
  <2> QED
    BY <2>2, <2>3, <2>8, <2>9, <2>10 DEF new
<1> QED
  BY <1>1, <1>2, <1>3, <1>4 DEF IsAnalysable

\* What is left as it was keeps its kind.
LEMMA SameKind ==
  ASSUME NEW f, NEW g, NEW o, g.operations[o] = f.operations[o]
  PROVE  KeepsKind(f, g, o)
BY DEF KeepsKind

\* A call that only changes operations keeps the kinds of all if it keeps
\* theirs.
LEMMA OperationsKeepKinds ==
  ASSUME NEW f, NEW g, IsAnalysable(f),
         g.regions = f.regions, g.blocks = f.blocks, DOMAIN g.operations = DOMAIN f.operations,
         DOMAIN g.values = DOMAIN f.values,
         \A o \in DOMAIN f.operations : KeepsKind(f, g, o)
  PROVE  KeepsKinds(f, g)
BY DEF KeepsKinds, IsAnalysable

\* A list with another member in one place is as long.
LEMMA SameLength ==
  ASSUME NEW T, NEW s \in Seq(T), NEW i \in DOMAIN s, NEW x
  PROVE  Len([s EXCEPT ![i] = x]) = Len(s)
<1> DEFINE n == Len(s)
           t == [s EXCEPT ![i] = x]
<1>1. n \in Nat /\ DOMAIN s = 1..n /\ \A j \in 1..n : s[j] \in T
  BY LenProperties
<1>2. t \in [1..n -> T \cup {x}]
  BY <1>1
<1> HIDE DEF t, n
<1>3. t \in Seq(T \cup {x}) /\ DOMAIN t = 1..n
  BY <1>1, <1>2
<1>4. Len(t) = n
  BY <1>1, <1>3, LenProperties
<1> QED
  BY <1>4 DEF t, n

\* A value takes over the uses of another.
LEMMA ReplaceAllUsesIsAnalysable ==
  ASSUME NEW f, IsExact(f), IsOrderly(f), IsAnalysable(f), NEW v, NEW w, CanReplaceAllUses(f, v, w)
  PROVE  IsAnalysable(ReplaceAllUses(f, v, w))
<1> DEFINE g == ReplaceAllUses(f, v, w)
<1>1. CASE v = w
  BY <1>1 DEF ReplaceAllUses
<1>2. CASE v # w
  <2>1. /\ g.values = f.values /\ g.regions = f.regions /\ g.blocks = f.blocks
        /\ DOMAIN g.operations = DOMAIN f.operations
        /\ \A o \in DOMAIN f.operations : g.operations[o] = Rereading(f.operations[o], o, f.uses[v], w)
    BY <1>2 DEF ReplaceAllUses, IsOrderly, IsFunction
  <2>2. IsOrderly(g)
    BY ReplaceAllUsesIsOrderly
  <2> HIDE DEF g
  <2>3. ASSUME NEW o \in DOMAIN f.operations PROVE KeepsKind(f, g, o)
    <3> DEFINE op  == f.operations[o]
               new == Rereading(op, o, f.uses[v], w)
    <3>1. /\ DOMAIN new = DOMAIN op /\ new.kind = op.kind /\ new.block = op.block
          /\ new.results = op.results /\ new.regions = op.regions
          /\ new.own = op.own /\ new.detail = op.detail /\ new.targets = op.targets
      BY DEF Rereading
    <3>2. g.operations[o] = new
      BY <2>1
    <3> HIDE DEF new
    <3> QED
      BY <3>1, <3>2 DEF KeepsKind
  <2>4. IsAnalysable(g)
    BY <2>1, <2>2, <2>3, OperationsKeepKinds, KeptIsAnalysable
  <2> QED
    BY <2>4 DEF g
<1> QED
  BY <1>1, <1>2

\* The function whose operation o is given other operands keeps the kinds if o
\* does.
LEMMA RewiredIsAnalysable ==
  ASSUME NEW f, NEW g, IsOrderly(f), IsOrderly(g), IsAnalysable(f), NEW o \in DOMAIN f.operations,
         NEW update, g = Rewired(f, o, update),
         \A h : h.operations[o] = update => KeepsKind(f, h, o)
  PROVE  IsAnalysable(g)
<1>1. /\ g.values = f.values /\ g.regions = f.regions /\ g.blocks = f.blocks
      /\ DOMAIN g.operations = DOMAIN f.operations
      /\ \A p \in DOMAIN f.operations : g.operations[p] = IF p = o THEN update ELSE f.operations[p]
  BY DEF Rewired, IsOrderly, IsFunction
<1>2. \A p \in DOMAIN f.operations : KeepsKind(f, g, p)
  BY <1>1, SameKind
<1> QED
  BY <1>1, <1>2, OperationsKeepKinds, KeptIsAnalysable

\* An operation becomes a constant.
LEMMA ReplaceWithConstantIsAnalysable ==
  ASSUME NEW f, IsExact(f), IsOrderly(f), IsAnalysable(f), NEW o, NEW constant \in Constants,
         CanReplaceWithConstant(f, o)
  PROVE  IsAnalysable(ReplaceWithConstant(f, o, constant))
<1> DEFINE op == f.operations[o]
           update == [op EXCEPT !.kind = "Constant", !.detail = constant, !.own = 0, !.operands = <<>>]
           g == ReplaceWithConstant(f, o, constant)
<1>1. o \in DOMAIN f.operations
  BY DEF CanReplaceWithConstant
<1>2. g = Rewired(f, o, update)
  BY DEF ReplaceWithConstant
<1>3. {"block", "kind", "operands", "results", "own", "detail"} \subseteq DOMAIN op
  BY <1>1 DEF IsOrderly, IsFunction, IsAnalysable
<1>4. /\ DOMAIN update = DOMAIN op /\ update.results = op.results /\ update.regions = op.regions
      /\ update.block = op.block /\ update.kind = "Constant" /\ update.own = 0
      /\ update.detail = constant
  <2> HIDE DEF op
  <2> QED
    BY <1>3
<1> HIDE DEF update
<1>5. \A h : h.operations[o] = update => KeepsKind(f, h, o)
  BY <1>4 DEF KeepsKind
<1>6. IsOrderly(g)
  BY ReplaceWithConstantIsOrderly
<1> HIDE DEF g
<1>7. IsAnalysable(g)
  BY <1>1, <1>2, <1>5, <1>6, RewiredIsAnalysable
<1> QED
  BY <1>7 DEF g

\* A conditional branch becomes a jump.
LEMMA ReplaceIfWithJumpIsAnalysable ==
  ASSUME NEW f, IsExact(f), IsOrderly(f), IsAnalysable(f), NEW o, NEW i, CanReplaceIfWithJump(f, o, i)
  PROVE  IsAnalysable(ReplaceIfWithJump(f, o, i))
<1> DEFINE op == f.operations[o]
           new == Arguments(op, i)
           kept == <<op.targets[i]>>
           update == [op EXCEPT !.kind = "Jump", !.own = 0, !.structural = {},
                                !.operands = new, !.targets = kept]
           g == ReplaceIfWithJump(f, o, i)
<1>1. o \in DOMAIN f.operations /\ IsTerminator(f, o)
  BY DEF CanReplaceIfWithJump, IsTerminator, Terminators
<1>2. g = Rewired(f, o, update)
  BY DEF ReplaceIfWithJump
<1>3. {"block", "kind", "operands", "targets", "results", "own"} \subseteq DOMAIN op
  BY <1>1 DEF IsOrderly, IsFunction, IsAnalysable
<1>4. /\ DOMAIN update = DOMAIN op /\ update.results = op.results /\ update.regions = op.regions
      /\ update.block = op.block /\ update.kind = "Jump" /\ update.own = 0
      /\ update.targets = kept
  <2> HIDE DEF op, new, kept
  <2> QED
    BY <1>3
<1>5. Len(update.targets) = 1
  BY <1>4
<1> HIDE DEF update
<1>6. \A h : h.operations[o] = update => KeepsKind(f, h, o)
  BY <1>1, <1>4, <1>5 DEF KeepsKind
<1>7. IsOrderly(g)
  BY ReplaceIfWithJumpIsOrderly
<1> HIDE DEF g
<1>8. IsAnalysable(g)
  BY <1>1, <1>2, <1>6, <1>7, RewiredIsAnalysable
<1> QED
  BY <1>8 DEF g

\* A successor becomes another.
LEMMA ReplaceSuccessorIsAnalysable ==
  ASSUME NEW f, IsExact(f), IsOrderly(f), IsAnalysable(f), IsWired(f, {}, 0), NEW o, NEW i,
         NEW target, NEW arguments, CanReplaceSuccessor(f, o, i, target, arguments)
  PROVE  IsAnalysable(ReplaceSuccessor(f, o, i, target, arguments))
<1> DEFINE op     == f.operations[o]
           first  == FirstArgument(op, i)
           after  == first + op.targets[i].count
           new    == SubSeq(op.operands, 1, first) \o arguments
                       \o SubSeq(op.operands, after + 1, Len(op.operands))
           there  == [op.targets[i] EXCEPT !.block = target, !.count = Len(arguments)]
           others == [op.targets EXCEPT ![i] = there]
           update == [op EXCEPT !.operands = new,
                                !.targets[i].block = target, !.targets[i].count = Len(arguments)]
           g      == ReplaceSuccessor(f, o, i, target, arguments)
<1>1. o \in DOMAIN f.operations /\ i \in DOMAIN op.targets
  BY DEF CanReplaceSuccessor
<1>2. g = Rewired(f, o, update)
  BY DEF ReplaceSuccessor
<1>3. {"block", "kind", "operands", "targets", "results", "own"} \subseteq DOMAIN op
  BY <1>1 DEF IsOrderly, IsFunction, IsAnalysable
<1>4. /\ DOMAIN update = DOMAIN op /\ update.results = op.results /\ update.regions = op.regions
      /\ update.block = op.block /\ update.kind = op.kind /\ update.own = op.own
      /\ update.detail = op.detail /\ update.targets = others
  <2> HIDE DEF op, new
  <2> QED
    BY <1>1, <1>3
<1>5. Len(others) = Len(op.targets)
  <2>1. op.targets \in Seq(ToSet(op.targets))
    BY <1>1 DEF IsWired, IsWiredAt, CountsArguments
  <2> HIDE DEF there, op
  <2> QED
    BY <1>1, <2>1, SameLength
<1> HIDE DEF update, others
<1>6. \A h : h.operations[o] = update => KeepsKind(f, h, o)
  BY <1>4, <1>5 DEF KeepsKind
<1>7. IsOrderly(g)
  BY ReplaceSuccessorIsOrderly
<1> HIDE DEF g
<1>8. IsAnalysable(g)
  BY <1>1, <1>2, <1>6, <1>7, RewiredIsAnalysable
<1> QED
  BY <1>8 DEF g

\* A successor loses an argument, whichever edges have lost theirs already.
LEMMA RemoveSuccessorArgumentIsAnalysable ==
  ASSUME NEW f, IsExact(f), IsOrderly(f), IsAnalysable(f), NEW Lost, NEW k, IsWired(f, Lost, k),
         NEW o, NEW i, NEW index, CanRemoveSuccessorArgument(f, o, i, index)
  PROVE  IsAnalysable(RemoveSuccessorArgument(f, o, i, index))
<1> DEFINE op == f.operations[o]
           at == FirstArgument(op, i) + index
           t  == RemoveAt(op.operands, at)
           u  == Attached(Detached(f.uses, o, op.operands, at), o, t, at)
           there  == [op.targets[i] EXCEPT !.count = @ - 1]
           others == [op.targets EXCEPT ![i] = there]
           update == [op EXCEPT !.operands = t, !.targets[i].count = @ - 1]
           g == RemoveSuccessorArgument(f, o, i, index)
<1>1. o \in DOMAIN f.operations /\ i \in DOMAIN op.targets
  BY DEF CanRemoveSuccessorArgument
<1>2. g = [f EXCEPT !.operations[o] = update, !.uses = u]
  BY DEF RemoveSuccessorArgument
<1>3. {"block", "kind", "operands", "targets", "results", "own"} \subseteq DOMAIN op
  BY <1>1 DEF IsOrderly, IsFunction, IsAnalysable
<1>4. /\ DOMAIN update = DOMAIN op /\ update.results = op.results /\ update.regions = op.regions
      /\ update.block = op.block /\ update.kind = op.kind /\ update.own = op.own
      /\ update.detail = op.detail /\ update.targets = others
  <2> HIDE DEF op, t
  <2> QED
    BY <1>1, <1>3
<1>5. Len(others) = Len(op.targets)
  <2>1. op.targets \in Seq(ToSet(op.targets))
    BY <1>1 DEF IsWired, IsWiredAt, CountsArguments
  <2> HIDE DEF there, op
  <2> QED
    BY <1>1, <2>1, SameLength
<1> HIDE DEF update, others, u, g
<1>6. /\ g.values = f.values /\ g.regions = f.regions /\ g.blocks = f.blocks
      /\ DOMAIN g.operations = DOMAIN f.operations
      /\ \A p \in DOMAIN f.operations : g.operations[p] = IF p = o THEN update ELSE f.operations[p]
  BY <1>1, <1>2 DEF IsOrderly, IsFunction
<1>7. ASSUME NEW p \in DOMAIN f.operations PROVE KeepsKind(f, g, p)
  <2>1. CASE p = o
    <3>1. g.operations[o] = update
      BY <1>1, <1>6
    <3>2. KeepsKind(f, g, o)
      BY <1>4, <1>5, <3>1 DEF KeepsKind
    <3> QED
      BY <2>1, <3>2
  <2>2. CASE p # o
    BY <1>6, <2>2, SameKind
  <2> QED
    BY <2>1, <2>2
<1>8. IsOrderly(g)
  BY RemoveSuccessorArgumentIsOrderly DEF g
<1>9. IsAnalysable(g)
  BY <1>6, <1>7, <1>8, OperationsKeepKinds, KeptIsAnalysable
<1> QED
  BY <1>9 DEF g

\* Operations go.
LEMMA RemoveOperationsIsAnalysable ==
  ASSUME NEW f, IsExact(f), IsOrderly(f), IsAnalysable(f), NEW O, CanRemoveOperations(f, O)
  PROVE  IsAnalysable(RemoveOperations(f, O))
<1> DEFINE g == RemoveOperations(f, O)
           V == ResultValues(f, O)
<1>1. /\ g.regions = f.regions
      /\ DOMAIN g.operations = DOMAIN f.operations \ O
      /\ \A o \in DOMAIN f.operations \ O : g.operations[o] = f.operations[o]
      /\ DOMAIN g.blocks = DOMAIN f.blocks
      /\ \A b \in DOMAIN f.blocks : g.blocks[b] = Unlisted(f.blocks[b], O)
      /\ DOMAIN g.values = DOMAIN f.values \ V
  BY RemoveOperationsHolds
<1>2. IsOrderly(g)
  BY RemoveOperationsIsOrderly
<1> HIDE DEF g, V
<1>3. ASSUME NEW b \in DOMAIN f.blocks
      PROVE  g.blocks[b].region = f.blocks[b].region /\ IsInjective(g.blocks[b].contents)
  <2> DEFINE s == f.blocks[b].contents
             t == Without(s, O)
  <2>1. {"region", "contents"} \subseteq DOMAIN f.blocks[b] /\ s \in Seq(DOMAIN f.operations)
    BY DEF IsOrderly, IsLaidOut
  <2>2. IsInjective(s)
    BY DEF IsAnalysable
  <2>3. IsInjective(t)
    BY <2>1, <2>2, WithoutListsOnce
  <2>4. g.blocks[b] = [f.blocks[b] EXCEPT !.contents = t]
    BY <1>1 DEF Unlisted
  <2> HIDE DEF t
  <2> QED
    BY <2>1, <2>3, <2>4
<1>4. \A o \in DOMAIN g.operations : KeepsKind(f, g, o)
  BY <1>1, SameKind
<1>5. \A r \in DOMAIN g.regions : g.regions[r] # <<>>
  BY <1>1 DEF IsAnalysable
<1>6. KeepsKinds(f, g)
  BY <1>1, <1>3, <1>4, <1>5 DEF KeepsKinds
<1>7. IsAnalysable(g)
  BY <1>2, <1>6, KeptIsAnalysable
<1> QED
  BY <1>7 DEF g

\* Blocks go with what is nested in them; what regions stay keep their entries.
LEMMA RemoveBlocksIsAnalysable ==
  ASSUME NEW f, IsExact(f), IsOrderly(f), IsAnalysable(f), NEW B, CanRemoveBlocks(f, B)
  PROVE  IsAnalysable(RemoveBlocks(f, B))
<1> DEFINE g == RemoveBlocks(f, B)
           W == WithNested(f, B)
           O == OperationsOf(f, W)
           R == RegionsOf(f, O)
           V == (UNION {ParameterValues(f, b) : b \in W}) \cup ResultValues(f, O)
<1>1. /\ DOMAIN g.regions = DOMAIN f.regions \ R
      /\ \A r \in DOMAIN f.regions \ R : g.regions[r] = Without(f.regions[r], W)
      /\ DOMAIN g.operations = DOMAIN f.operations \ O
      /\ \A o \in DOMAIN f.operations \ O : g.operations[o] = f.operations[o]
      /\ DOMAIN g.blocks = DOMAIN f.blocks \ W
      /\ \A b \in DOMAIN f.blocks \ W : g.blocks[b] = f.blocks[b]
      /\ DOMAIN g.values = DOMAIN f.values \ V
  BY RemoveBlocksHolds
<1>2. IsOrderly(g)
  BY RemoveBlocksIsOrderly
<1>3. \A r \in DOMAIN f.regions \ R : Entry(f, r) \notin W
  BY DEF CanRemoveBlocks
<1> HIDE DEF g, W, O, R, V
<1>4. ASSUME NEW r \in DOMAIN g.regions PROVE g.regions[r] # <<>>
  <2> DEFINE s == f.regions[r]
  <2>1. r \in DOMAIN f.regions \ R /\ g.regions[r] = Without(s, W)
    BY <1>1
  <2>2. s \in Seq(DOMAIN f.blocks) /\ s # <<>>
    BY <2>1 DEF IsOrderly, IsLaidOut, IsAnalysable
  <2>3. Head(s) \in ToSet(s)
    <3>1. Len(s) \in Nat \ {0} /\ DOMAIN s = 1..Len(s) /\ Head(s) = s[1]
      BY <2>2
    <3>2. 1 \in DOMAIN s
      BY <3>1
    <3> QED
      BY <3>1, <3>2 DEF ToSet
  <2>4. Head(s) \notin W
    BY <1>3, <2>1 DEF Entry
  <2>5. ToSet(Without(s, W)) = ToSet(s) \ W
    BY <2>2, WithoutHolds
  <2>6. ToSet(<<>>) = {}
    BY DEF ToSet
  <2> HIDE DEF s
  <2> QED
    BY <2>1, <2>3, <2>4, <2>5, <2>6
<1>5. ASSUME NEW b \in DOMAIN g.blocks
      PROVE  g.blocks[b].region = f.blocks[b].region /\ IsInjective(g.blocks[b].contents)
  BY <1>1 DEF IsAnalysable
<1>6. \A o \in DOMAIN g.operations : KeepsKind(f, g, o)
  BY <1>1, SameKind
<1>7. KeepsKinds(f, g)
  BY <1>1, <1>4, <1>5, <1>6 DEF KeepsKinds
<1>8. IsAnalysable(g)
  BY <1>2, <1>7, KeptIsAnalysable
<1> QED
  BY <1>8 DEF g

\* Operations move to a block of the same region, which did not list them.
LEMMA SplicedIsAnalysable ==
  ASSUME NEW f, IsExact(f), IsOrderly(f), IsAnalysable(f), NEW p, NEW b, CanMergeBlock(f, p, b)
  PROVE  IsAnalysable(Spliced(f, p, b))
<1> DEFINE g     == Spliced(f, p, b)
           jump  == f.blocks[p].terminator
           moved == BlockOperations(f, b)
           s     == f.blocks[p].contents
           t     == f.blocks[b].contents
<1>1. IsSpliceOf(g, f, p, b) /\ IsOrderly(g)
  BY SplicedHolds, SplicedIsOrderly
<1>2. /\ p # b /\ p \in DOMAIN f.blocks /\ b \in DOMAIN f.blocks
      /\ f.blocks[p].region = f.blocks[b].region
  BY DEF CanMergeBlock
<1>3. \A o \in DOMAIN f.operations \ {jump} : g.operations[o].detail = f.operations[o].detail
  <2> DEFINE ops == [o \in DOMAIN f.operations \ {jump} |->
                       IF o \in moved THEN [f.operations[o] EXCEPT !.block = p] ELSE f.operations[o]]
  <2>1. {"regions", "blocks", "operations", "values", "uses"} \subseteq DOMAIN f
    BY DEF IsOrderly, IsFunction
  <2>2. g.operations = ops
    BY <2>1 DEF Spliced
  <2> HIDE DEF g, moved, jump
  <2> QED
    BY <2>2
<1> HIDE DEF g
<1>4. IsInjective(g.blocks[p].contents)
  <2>1. s \in Seq(DOMAIN f.operations) /\ t \in Seq(DOMAIN f.operations) /\ IsInjective(s) /\ IsInjective(t)
    BY <1>2 DEF IsOrderly, IsLaidOut, IsAnalysable
  <2>2. /\ \A o \in ToSet(s) : f.operations[o].block = p
        /\ \A o \in ToSet(t) : f.operations[o].block = b
    BY <1>2, ListedOperations DEF BlockOperations, IsOrderly
  <2>3. \A i \in DOMAIN s : \A j \in DOMAIN t : s[i] # t[j]
    BY <1>2, <2>2 DEF ToSet
  <2>4. IsInjective(s \o t)
    BY <2>1, <2>3, JoinedListsOnce
  <2> QED
    BY <1>1, <2>4 DEF IsSpliceOf
<1>5. ASSUME NEW c \in DOMAIN g.blocks
      PROVE  g.blocks[c].region = f.blocks[c].region /\ IsInjective(g.blocks[c].contents)
  <2>1. CASE c = p
    BY <1>1, <1>4, <2>1 DEF IsSpliceOf
  <2>2. CASE c = b
    BY <1>1, <2>2 DEF IsSpliceOf, IsInjective
  <2>3. CASE c # p /\ c # b
    BY <1>1, <2>3 DEF IsSpliceOf, IsAnalysable
  <2> QED
    BY <2>1, <2>2, <2>3
<1>6. ASSUME NEW o \in DOMAIN g.operations PROVE KeepsKind(f, g, o)
  <2>1. /\ o \in DOMAIN f.operations \ {jump}
        /\ DOMAIN g.operations[o] = DOMAIN f.operations[o]
        /\ g.operations[o].block = IF o \in moved THEN p ELSE f.operations[o].block
        /\ g.operations[o].kind = f.operations[o].kind
        /\ g.operations[o].own = f.operations[o].own
        /\ g.operations[o].targets = f.operations[o].targets
        /\ g.operations[o].results = f.operations[o].results
        /\ g.operations[o].regions = f.operations[o].regions
    BY <1>1 DEF IsSpliceOf
  <2>2. g.operations[o].detail = f.operations[o].detail
    BY <1>3, <2>1
  <2>3. o \in moved => f.operations[o].block = b
    BY <1>2, ListedOperations DEF IsOrderly
  <2> HIDE DEF moved
  <2> QED
    BY <1>2, <2>1, <2>2, <2>3 DEF KeepsKind
<1>7. /\ DOMAIN g.regions = DOMAIN f.regions /\ \A r \in DOMAIN g.regions : g.regions[r] # <<>>
      /\ DOMAIN g.blocks = DOMAIN f.blocks /\ DOMAIN g.values = DOMAIN f.values
      /\ DOMAIN g.operations \subseteq DOMAIN f.operations
  BY <1>1 DEF IsSpliceOf, IsAnalysable
<1>8. KeepsKinds(f, g)
  BY <1>5, <1>6, <1>7 DEF KeepsKinds
<1>9. IsAnalysable(g)
  BY <1>1, <1>8, KeptIsAnalysable
<1> QED
  BY <1>9 DEF g

\* A block is merged with its predecessor.
LEMMA MergeBlockIsAnalysable ==
  ASSUME NEW f, IsExact(f), IsOrderly(f), IsAnalysable(f), NEW p, NEW b, CanMergeBlock(f, p, b)
  PROVE  IsAnalysable(MergeBlock(f, p, b))
<1>1. CanRemoveBlocks(Spliced(f, p, b), {b})
  BY DEF CanMergeBlock
<1>2. IsExact(Spliced(f, p, b)) /\ IsOrderly(Spliced(f, p, b)) /\ IsAnalysable(Spliced(f, p, b))
  BY SplicedIsExact, SplicedIsOrderly, SplicedIsAnalysable
<1> QED
  BY <1>1, <1>2, RemoveBlocksIsAnalysable DEF MergeBlock

\* A block loses a parameter.
LEMMA RemoveParameterIsAnalysable ==
  ASSUME NEW f, IsExact(f), IsOrderly(f), IsAnalysable(f), NEW b \in DOMAIN f.blocks,
         NEW k \in DOMAIN f.blocks[b].parameters, IsUnread(f, f.blocks[b].parameters[k].value)
  PROVE  IsAnalysable(RemoveParameter(f, b, k))
<1> DEFINE g     == RemoveParameter(f, b, k)
           block == f.blocks[b]
           t     == RemoveAt(block.parameters, k)
           less  == [block EXCEPT !.parameters = t]
<1>1. IsOrderly(g)
  BY RemoveParameterIsOrderly
<1>2. /\ g.regions = f.regions /\ g.operations = f.operations /\ DOMAIN g.blocks = DOMAIN f.blocks
      /\ \A c \in DOMAIN f.blocks : g.blocks[c] = IF c = b THEN less ELSE f.blocks[c]
      /\ DOMAIN g.values \subseteq DOMAIN f.values
  BY DEF RemoveParameter, IsOrderly, IsFunction
<1>3. less.region = block.region /\ less.contents = block.contents
  <2> HIDE DEF block, t
  <2> QED
    OBVIOUS
<1> HIDE DEF g, less
<1>4. \A c \in DOMAIN g.blocks :
        g.blocks[c].region = f.blocks[c].region /\ IsInjective(g.blocks[c].contents)
  BY <1>2, <1>3 DEF IsAnalysable
<1>5. \A o \in DOMAIN g.operations : KeepsKind(f, g, o)
  BY <1>2, SameKind
<1>6. \A r \in DOMAIN g.regions : g.regions[r] # <<>>
  BY <1>2 DEF IsAnalysable
<1>7. KeepsKinds(f, g)
  BY <1>2, <1>4, <1>5, <1>6 DEF KeepsKinds
<1>8. IsAnalysable(g)
  BY <1>1, <1>7, KeptIsAnalysable
<1> QED
  BY <1>8 DEF g

-----------------------------------------------------------------------------
(* What the passes ask for                                                 *)

\* If a call makes an operation a constant, it says which.
IsKnown(c) == c.call = "ReplaceWithConstant" => c.constant \in Constants

\* A list of such calls.
IsKnownBatch(s) == s \in Seq(ToSet(s)) /\ \A c \in ToSet(s) : IsKnown(c)

\* A list over a set of such calls is one.
LEMMA BatchOver ==
  ASSUME NEW T, NEW s \in Seq(T), \A c \in T : IsKnown(c)
  PROVE  IsKnownBatch(s)
<1>1. s \in Seq(ToSet(s))
  BY ListOverMembers
<1>2. ToSet(s) \subseteq T
  BY LenProperties DEF ToSet
<1> QED
  BY <1>1, <1>2 DEF IsKnownBatch

\* A batch with a call for every number up to n.
LEMMA NumberedBatch ==
  ASSUME NEW n \in Nat, NEW s, s = [i \in 1..n |-> s[i]], \A i \in 1..n : IsKnown(s[i])
  PROVE  IsKnownBatch(s)
<1> DEFINE T == {s[i] : i \in 1..n}
<1>1. s \in [1..n -> T]
  OBVIOUS
<1>2. s \in Seq(T)
  <2> HIDE DEF T
  <2> QED
    BY <1>1
<1>3. \A c \in T : IsKnown(c)
  <2> SUFFICES ASSUME NEW i \in 1..n PROVE IsKnown(s[i])
    OBVIOUS
  <2> QED
    OBVIOUS
<1> HIDE DEF T
<1> QED
  BY <1>2, <1>3, BatchOver

\* No call at all.
LEMMA NoCalls == IsKnownBatch(<<>>)
BY DEF IsKnownBatch, ToSet

\* One call.
LEMMA OneCall ==
  ASSUME NEW c, IsKnown(c)
  PROVE  IsKnownBatch(<<c>>)
<1> DEFINE T == {c}
<1>1. <<c>> \in Seq(T) /\ \A x \in T : IsKnown(x)
  OBVIOUS
<1> HIDE DEF T
<1> QED
  BY <1>1, BatchOver

\* Two calls.
LEMMA TwoCalls ==
  ASSUME NEW c, IsKnown(c), NEW d, IsKnown(d)
  PROVE  IsKnownBatch(<<c, d>>)
<1> DEFINE T == {c, d}
<1>1. <<c, d>> \in Seq(T) /\ \A x \in T : IsKnown(x)
  OBVIOUS
<1> HIDE DEF T
<1> QED
  BY <1>1, BatchOver

\* Two batches.
LEMMA TwoBatches ==
  ASSUME NEW s, NEW t, IsKnownBatch(s), IsKnownBatch(t)
  PROVE  IsKnownBatch(s \o t)
<1> DEFINE T == ToSet(s) \cup ToSet(t)
<1>1. s \in Seq(T) /\ t \in Seq(T) /\ \A c \in T : IsKnown(c)
  <2>1. s \in Seq(ToSet(s)) /\ t \in Seq(ToSet(t)) /\ ToSet(s) \subseteq T /\ ToSet(t) \subseteq T
    BY DEF IsKnownBatch
  <2>2. \A c \in T : IsKnown(c)
    BY DEF IsKnownBatch
  <2> HIDE DEF T
  <2> QED
    BY <2>1, <2>2, ListOverMembers
<1> HIDE DEF T
<1>2. s \o t \in Seq(T)
  BY <1>1
<1> QED
  BY <1>1, <1>2, BatchOver

\* What is left of a batch when the next call is made.
LEMMA RestOfBatch ==
  ASSUME NEW s, IsKnownBatch(s), s # <<>>
  PROVE  IsKnown(Head(s)) /\ IsKnownBatch(Tail(s))
<1> DEFINE T == ToSet(s)
<1>1. s \in Seq(T) /\ \A c \in T : IsKnown(c)
  BY DEF IsKnownBatch
<1> HIDE DEF T
<1>2. Head(s) \in T /\ Tail(s) \in Seq(T)
  BY <1>1
<1> QED
  BY <1>1, <1>2, BatchOver

\* A set, listed, is a list over it.
LEMMA ListingIsList ==
  ASSUME NEW S, IsFiniteSet(S)
  PROVE  Listing(S) \in [1..Cardinality(S) -> S] /\ Cardinality(S) \in Nat
<1> DEFINE n == Cardinality(S)
<1>1. n \in Nat /\ ExistsBijection(1..n, S)
  BY FS_CardinalityType
<1>2. PICK f \in Bijection(1..n, S) : TRUE
  BY <1>1 DEF ExistsBijection
<1>3. f \in [1..n -> S] /\ IsInjective(f)
  BY <1>2 DEF Bijection, Injection, IsInjective
<1>4. Listing(S) \in [1..n -> S]
  BY <1>3 DEF Listing, SetToSeq
<1> QED
  BY <1>1, <1>4

\* Lists, joined, are a list.
LEMMA FlattenIsList ==
  ASSUME NEW n \in Nat, NEW T, NEW ss, DOMAIN ss = 1..n, Len(ss) = n, n = 0 => ss = <<>>,
         \A k \in 1..n : ss[k] \in Seq(T)
  PROVE  FlattenSeq(ss) \in Seq(T)
<1>1. CASE n = 0
  <2>1. FlattenSeq(ss) = <<>>
    BY <1>1 DEF FlattenSeq
  <2> QED
    BY <2>1
<1>2. CASE n # 0
  <2> DEFINE g == CHOOSE h : IsFlat(h, ss, n)
             R == {k \in 0..n : k # 0 => g[k] \in Seq(T)}
  <2>1. IsFlat(g, ss, n)
    BY FlatExists
  <2>2. FlattenSeq(ss) = g[n]
    <3>1. g = CHOOSE h : h = [i \in 1..n |-> IF i = 1 THEN ss[i] ELSE h[i - 1] \o ss[i]]
      BY DEF IsFlat
    <3>2. FlattenSeq(ss) = LET h[i \in 1..n] == IF i = 1 THEN ss[i] ELSE h[i - 1] \o ss[i] IN h[n]
      BY <1>2, Zenon DEF FlattenSeq
    <3> QED
      BY <3>1, <3>2, Zenon
  <2>3. g[1] = ss[1] /\ \A k \in 1..n : k # 1 => g[k] = g[k - 1] \o ss[k]
    <3>1. g = [i \in 1..n |-> IF i = 1 THEN ss[i] ELSE g[i - 1] \o ss[i]]
      BY <2>1 DEF IsFlat
    <3>2. 1 \in 1..n
      BY <1>2
    <3> HIDE DEF g
    <3> QED
      BY <3>1, <3>2
  <2> HIDE DEF g
  <2>4. 0 \in R
    OBVIOUS
  <2>5. ASSUME NEW k \in 1..n, k - 1 \in R PROVE k \in R
    <3>1. k \in 0..n /\ ss[k] \in Seq(T)
      OBVIOUS
    <3>2. CASE k = 1
      BY <2>3, <3>1, <3>2
    <3>3. CASE k # 1
      <4>1. k - 1 # 0
        BY <3>3
      <4>2. g[k - 1] \in Seq(T)
        BY <2>5, <4>1
      <4>3. g[k] = g[k - 1] \o ss[k]
        BY <2>3, <3>3
      <4>4. g[k] \in Seq(T)
        BY <3>1, <4>2, <4>3
      <4> QED
        BY <3>1, <4>4
    <3> QED
      BY <3>2, <3>3
  <2>6. n \in R
    <3> HIDE DEF R
    <3>1. 0..n \subseteq R
      BY <2>4, <2>5, CountingUp
    <3> QED
      BY <3>1
  <2> QED
    BY <1>2, <2>2, <2>6
<1> QED
  BY <1>1, <1>2

\* Any edges, listed in their order.
LEMMA EdgesAreListed ==
  ASSUME NEW f, IsInOrder(f), NEW E \in SUBSET Edges(f)
  PROVE  EdgesInOrder(E) \in Seq(E)
<1> DEFINE O == DOMAIN f.operations
<1>1. O \in SUBSET Nat /\ IsFiniteSet(O)
  BY DEF IsInOrder, HasSuccessors
<1>2. \A e \in E : e = <<e[1], e[2]>> /\ e[1] \in O /\ e[2] \in DOMAIN f.operations[e[1]].targets
  BY DEF Edges, EdgesOf
<1>3. ASSUME NEW o \in O
      PROVE  /\ {e[2] : e \in {x \in E : x[1] = o}} \in SUBSET Nat
             /\ IsFiniteSet({e[2] : e \in {x \in E : x[1] = o}})
  <2> DEFINE n == Len(f.operations[o].targets)
  <2>1. f.operations[o].targets \in Seq(ToSet(f.operations[o].targets))
    BY DEF IsInOrder, HasSuccessors
  <2>2. n \in Nat /\ DOMAIN f.operations[o].targets = 1..n
    BY <2>1, LenProperties
  <2>3. {e[2] : e \in {x \in E : x[1] = o}} \in SUBSET (1..n)
    <3> HIDE DEF n
    <3> QED
      BY <1>2, <2>2
  <2>4. 1..n \subseteq Nat
    BY <2>2
  <2> HIDE DEF n
  <2>5. IsFiniteSet(1..n)
    BY <2>2, FS_Interval
  <2> QED
    BY <2>3, <2>4, <2>5, FS_Subset
<1> HIDE DEF O
<1>4. Enumerates(EdgesInOrder(E), E)
  BY <1>1, <1>2, <1>3, EdgesInOrderEnumerates
<1> QED
  BY <1>4 DEF Enumerates

-----------------------------------------------------------------------------
(* Every batch that a pass plans                                           *)

\* Operations, listed in order, and how many there are.
LEMMA OperationsAreListed ==
  ASSUME NEW f, IsInOrder(f), NEW O \in SUBSET DOMAIN f.operations
  PROVE  /\ InOrder(O) \in Seq(O) /\ Len(InOrder(O)) \in Nat
         /\ DOMAIN InOrder(O) = 1..Len(InOrder(O))
         /\ \A i \in 1..Len(InOrder(O)) : InOrder(O)[i] \in O
<1>1. O \in SUBSET Nat /\ IsFiniteSet(O)
  BY FS_Subset DEF IsInOrder, HasSuccessors
<1>2. InOrder(O) \in Seq(O)
  BY <1>1, InOrderEnumerates DEF Enumerates
<1> QED
  BY <1>2, LenProperties

\* propagate_constants.
LEMMA ConstantBatch ==
  ASSUME NEW f, IsInOrder(f), NEW a \in Analyses(f)
  PROVE  IsKnownBatch(ConstantReplacements(f, a))
<1> DEFINE O == {o \in DOMAIN f.operations : IsReplaceable(f, a, o)}
           p == InOrder(O)
           n == Len(p)
           s == [i \in DOMAIN p |->
                  [call |-> "ReplaceWithConstant", operation |-> p[i],
                   constant |-> a.values[f.operations[p[i]].results[1]].constant]]
<1>1. /\ p \in Seq(O) /\ n \in Nat /\ DOMAIN p = 1..n
      /\ \A i \in 1..n : p[i] \in O
  BY OperationsAreListed
<1>2. ASSUME NEW o \in O PROVE a.values[f.operations[o].results[1]].constant \in Constants
  <2>1. o \in DOMAIN f.operations /\ IsReplaceable(f, a, o)
    OBVIOUS
  <2>2. f.operations[o].results \in Seq(DOMAIN f.values)
    BY <2>1 DEF IsInOrder, IsAnalysable
  <2>3. Len(f.operations[o].results) = 1 /\ IsConstant(a.values[f.operations[o].results[1]])
    BY <2>1 DEF IsReplaceable
  <2>4. f.operations[o].results[1] \in DOMAIN f.values
    BY <2>2, <2>3, LenProperties
  <2>5. a.values[f.operations[o].results[1]] \in AbstractValue
    BY <2>4 DEF Analyses
  <2> QED
    BY <2>3, <2>5, FactParts DEF IsConstant
<1>3. ConstantReplacements(f, a) = s
  BY DEF ConstantReplacements
<1> HIDE DEF O, p, n
<1>4. s = [i \in 1..n |-> s[i]] /\ \A i \in 1..n : IsKnown(s[i])
  BY <1>1, <1>2 DEF IsKnown
<1> HIDE DEF s
<1>5. IsKnownBatch(s)
  BY <1>1, <1>4, NumberedBatch
<1> QED
  BY <1>3, <1>5

\* fold_constant_ifs.
LEMMA IfBatch ==
  ASSUME NEW f, IsInOrder(f), NEW a
  PROVE  IsKnownBatch(ConstantIfs(f, a))
<1> DEFINE E == {e \in Edges(f) : /\ f.operations[e[1]].kind = "If"
                                  /\ ExecutableOf(f, a, e[1]) = {e[2]}}
           p == EdgesInOrder(E)
           n == Len(p)
           s == [i \in DOMAIN p |->
                  [call |-> "ReplaceIfWithJump", operation |-> p[i][1], successor |-> p[i][2]]]
<1>1. p \in Seq(E)
  <2>1. E \in SUBSET Edges(f)
    OBVIOUS
  <2> HIDE DEF E
  <2> QED
    BY <2>1, EdgesAreListed
<1>2. ConstantIfs(f, a) = s
  BY DEF ConstantIfs
<1> HIDE DEF E, p
<1>3. n \in Nat /\ DOMAIN p = 1..n
  BY <1>1, LenProperties
<1> HIDE DEF n
<1>4. s = [i \in 1..n |-> s[i]] /\ \A i \in 1..n : IsKnown(s[i])
  BY <1>3 DEF IsKnown
<1> HIDE DEF s
<1>5. IsKnownBatch(s)
  BY <1>3, <1>4, NumberedBatch
<1> QED
  BY <1>2, <1>5

\* prune_unreachable_blocks and eliminate_dead_code.
LEMMA RemovalBatches ==
  ASSUME NEW f, NEW a
  PROVE  IsKnownBatch(PruneCalls(f)) /\ IsKnownBatch(DeadCodeCalls(f, a))
<1>1. /\ IsKnown([call |-> "RemoveBlocks", blocks |-> UnreachableBlocks(f)])
      /\ IsKnown([call |-> "RemoveOperations", operations |-> DeadOperations(f, a)])
  BY DEF IsKnown
<1>2. /\ IsKnownBatch(<<[call |-> "RemoveBlocks", blocks |-> UnreachableBlocks(f)]>>)
      /\ IsKnownBatch(<<[call |-> "RemoveOperations", operations |-> DeadOperations(f, a)]>>)
  BY <1>1, OneCall
<1> QED
  BY <1>2, NoCalls DEF PruneCalls, DeadCodeCalls

\* eliminate_common_subexpressions.
LEMMA ExpressionBatch ==
  ASSUME NEW f, IsInOrder(f), NEW a
  PROVE  IsKnownBatch(ExpressionCalls(f, a))
<1> DEFINE O == {o \in DOMAIN f.operations : IsShareable(f, a, o) /\ Available(f, a, o) # {}}
           p == InOrder(O)
           n == Len(p)
           s == [i \in DOMAIN p |->
                  [call |-> "ReplaceAllUses", value |-> f.operations[p[i]].results[1],
                   replacement |-> f.operations[Leader(f, a, p[i])].results[1]]]
           c == [call |-> "RemoveOperations", operations |-> O]
<1>1. n \in Nat /\ DOMAIN p = 1..n
  BY OperationsAreListed
<1>2. ExpressionCalls(f, a) = s \o <<c>>
  BY DEF ExpressionCalls
<1>3. IsKnown(c)
  BY DEF IsKnown
<1> HIDE DEF O, p, n, c
<1>4. s = [i \in 1..n |-> s[i]] /\ \A i \in 1..n : IsKnown(s[i])
  BY <1>1 DEF IsKnown
<1> HIDE DEF s
<1>5. IsKnownBatch(s) /\ IsKnownBatch(<<c>>)
  BY <1>1, <1>3, <1>4, NumberedBatch, OneCall
<1>6. IsKnownBatch(s \o <<c>>)
  BY <1>5, TwoBatches
<1> QED
  BY <1>2, <1>6

\* simplify_block_parameters.
LEMMA ParameterBatch ==
  ASSUME NEW f, NEW b, NEW index
  PROVE  IsKnownBatch(ParameterCalls(f, b, index))
<1> DEFINE d == [call |-> "ReplaceAllUses", value |-> Parameter(f, b, index),
                 replacement |-> CHOOSE v \in EffectiveInputs(f, b, index) : TRUE]
           c == [call |-> "RemoveForwardedParameter", block |-> b, index |-> index]
           s == IF IsUnused(f, Parameter(f, b, index)) THEN <<>> ELSE <<d>>
<1>1. IsKnown(d) /\ IsKnown(c)
  BY DEF IsKnown
<1>2. ParameterCalls(f, b, index) = s \o <<c>>
  BY DEF ParameterCalls
<1> HIDE DEF d, c
<1>3. IsKnownBatch(s) /\ IsKnownBatch(<<c>>)
  BY <1>1, NoCalls, OneCall
<1> HIDE DEF s
<1>4. IsKnownBatch(s \o <<c>>)
  BY <1>3, TwoBatches
<1> QED
  BY <1>2, <1>4

\* Threading a block.
LEMMA ThreadBatch ==
  ASSUME NEW f, IsInOrder(f), NEW b
  PROVE  IsKnownBatch(ThreadForwardingBlock(f, b))
<1> DEFINE p == EdgesInOrder(IncomingEdges(f, b))
           n == Len(p)
           s == [i \in DOMAIN p |->
                  [call |-> "ReplaceSuccessor", operation |-> p[i][1], successor |-> p[i][2],
                   target |-> f.operations[f.blocks[b].terminator].targets[1].block,
                   arguments |-> ComposedArguments(f, b, p[i])]]
           c == [call |-> "RemoveBlocks", blocks |-> {b}]
<1>1. p \in Seq(IncomingEdges(f, b))
  <2>1. IncomingEdges(f, b) \in SUBSET Edges(f)
    BY DEF IncomingEdges
  <2> QED
    BY <2>1, EdgesAreListed
<1>2. ThreadForwardingBlock(f, b) = s \o <<c>>
  BY DEF ThreadForwardingBlock
<1>3. IsKnown(c)
  BY DEF IsKnown
<1> HIDE DEF p, c
<1>4. n \in Nat /\ DOMAIN p = 1..n
  BY <1>1, LenProperties
<1> HIDE DEF n
<1>5. s = [i \in 1..n |-> s[i]] /\ \A i \in 1..n : IsKnown(s[i])
  BY <1>4 DEF IsKnown
<1> HIDE DEF s
<1>6. IsKnownBatch(s) /\ IsKnownBatch(<<c>>)
  BY <1>3, <1>4, <1>5, NumberedBatch, OneCall
<1>7. IsKnownBatch(s \o <<c>>)
  BY <1>6, TwoBatches
<1> QED
  BY <1>2, <1>7

\* Merging a block into its predecessor.
LEMMA MergeBatch ==
  ASSUME NEW f, IsInOrder(f), NEW b \in DOMAIN f.blocks
  PROVE  IsKnownBatch(MergeLinearBlock(f, b))
<1> DEFINE e == CHOOSE x \in Edges(f) : x \in IncomingEdges(f, b)
           p == f.blocks[b].parameters
           n == Len(p)
           s == [k \in DOMAIN p |->
                  [call |-> "ReplaceAllUses", value |-> p[k].value,
                   replacement |-> EdgeArguments(f, e)[k]]]
           c == [call |-> "MergeBlock", predecessor |-> Source(f, e), block |-> b]
<1>1. n \in Nat /\ DOMAIN p = 1..n
  <2>1. p \in Seq(ToSet(p))
    BY DEF IsInOrder, IsLaidOut
  <2> QED
    BY <2>1, LenProperties
<1>2. MergeLinearBlock(f, b) = s \o <<c>>
  BY DEF MergeLinearBlock
<1>3. IsKnown(c)
  BY DEF IsKnown
<1> HIDE DEF e, p, n, c
<1>4. s = [i \in 1..n |-> s[i]] /\ \A i \in 1..n : IsKnown(s[i])
  BY <1>1 DEF IsKnown
<1> HIDE DEF s
<1>5. IsKnownBatch(s) /\ IsKnownBatch(<<c>>)
  BY <1>1, <1>3, <1>4, NumberedBatch, OneCall
<1>6. IsKnownBatch(s \o <<c>>)
  BY <1>5, TwoBatches
<1> QED
  BY <1>2, <1>6

\* Blocks in the order of their regions.
LEMMA BlocksAreListed ==
  ASSUME NEW f, IsInOrder(f)
  PROVE  BlockOrder(f) \in Seq(DOMAIN f.blocks)
<1> DEFINE R == DOMAIN f.regions
           p == InOrder(R)
           n == Cardinality(R)
           ss == [i \in 1..n |-> f.regions[p[i]]]
<1>1. R \in SUBSET Nat /\ IsFiniteSet(R)
  BY DEF IsInOrder, IsAnalysable, IsLaidOut, HasSuccessors
<1>2. Enumerates(p, R)
  BY <1>1, InOrderEnumerates
<1>3. n \in Nat
  BY <1>1, FS_CardinalityType
<1>4. DOMAIN p = 1..n
  BY DEF InOrder
<1>5. \A i \in 1..n : ss[i] \in Seq(DOMAIN f.blocks)
  <2> TAKE i \in 1..n
  <2>1. p \in Seq(R)
    BY <1>2 DEF Enumerates
  <2>2. p[i] \in R
    <3> HIDE DEF p, n, R
    <3>1. p \in [1..Len(p) -> R] /\ DOMAIN p = 1..Len(p)
      BY <2>1, LenProperties, Zenon
    <3> QED
      BY <1>4, <3>1, Zenon
  <2>3. f.regions[p[i]] \in Seq(DOMAIN f.blocks)
    BY <2>2 DEF IsInOrder, IsLaidOut
  <2> HIDE DEF p, n
  <2> QED
    BY <2>3
<1>6. BlockOrder(f) = FlattenSeq(ss)
  BY DEF BlockOrder
<1> HIDE DEF p, n
<1>7. DOMAIN ss = 1..n /\ Len(ss) = n /\ (n = 0 => ss = <<>>)
  BY <1>3
<1> HIDE DEF ss
<1>8. FlattenSeq(ss) \in Seq(DOMAIN f.blocks)
  BY <1>3, <1>5, <1>7, FlattenIsList
<1> QED
  BY <1>6, <1>8

\* simplify_control_flow.
LEMMA RewriteBatch ==
  ASSUME NEW f, IsInOrder(f)
  PROVE  IsKnownBatch(NextRewrite(f))
<1> DEFINE p == BlockOrder(f)
           C == {i \in DOMAIN p : Rewritable(f, p[i])}
           first == CHOOSE i \in C : \A j \in C : i <= j
<1>1. NextRewrite(f) = IF C = {} THEN <<>> ELSE RewriteOf(f, p[first])
  BY DEF NextRewrite
<1>2. CASE C = {}
  BY <1>1, <1>2, NoCalls
<1>3. CASE C # {}
  <2>1. p \in Seq(DOMAIN f.blocks)
    BY BlocksAreListed
  <2>2. DOMAIN p = 1..Len(p) /\ \A i \in DOMAIN p : p[i] \in DOMAIN f.blocks
    <3> HIDE DEF p
    <3> QED
      BY <2>1, LenProperties
  <2>3. C \in SUBSET Nat
    <3> HIDE DEF p
    <3> QED
      BY <2>2
  <2>4. C \in SUBSET DOMAIN p
    OBVIOUS
  <2> HIDE DEF C
  <2>5. first \in C
    BY <1>3, <2>3, LeastNumber
  <2>6. p[first] \in DOMAIN f.blocks
    BY <2>2, <2>4, <2>5
  <2>7. NextRewrite(f) = RewriteOf(f, p[first])
    BY <1>1, <1>3
  <2> HIDE DEF p, first
  <2> QED
    BY <2>6, <2>7, ThreadBatch, MergeBatch DEF RewriteOf
<1> QED
  BY <1>2, <1>3

\* What an operation may be replaced by are values.
LEMMA OtherValuesExist ==
  ASSUME NEW f, IsInOrder(f), NEW a, NEW o, CanBeSimplified(f, a, o)
  PROVE  SameValueAs(f, a, o) \in SUBSET DOMAIN f.values
<1> DEFINE op == f.operations[o]
           inner == f.values[op.operands[1]]
           V == {v \in ToSet(f.operations[inner.operation].operands) :
                   /\ f.operations[inner.operation].kind = "Not"
                   /\ IsDefinitely(a.values[v], {"boolean"})}
<1>1. o \in DOMAIN f.operations
  BY DEF CanBeSimplified
<1>2. IsFitAt(f, op)
  BY <1>1, OperationsAreFit
<1>3. op.kind \in {"Plus", "Not"} => op.operands[1] \in DOMAIN f.values
  <2>1. SUFFICES ASSUME op.kind \in {"Plus", "Not"} PROVE op.operands[1] \in DOMAIN f.values
    OBVIOUS
  <2>2. Arity(op.kind) = 1
    BY <2>1 DEF Arity
  <2> HIDE DEF op
  <2>3. 1 \in DOMAIN op.operands
    BY <1>2, <2>2 DEF IsFitAt
  <2> QED
    BY <1>2, <2>3 DEF IsFitAt
<1>4. op.kind = "Not" /\ inner.kind = "OperationResult" => V \subseteq DOMAIN f.values
  <2>1. SUFFICES ASSUME op.kind = "Not", inner.kind = "OperationResult"
                 PROVE  inner.operation \in DOMAIN f.operations
    BY DEF IsInOrder, UsesAreExact
  <2>2. op.operands[1] \in DOMAIN f.values
    BY <1>3, <2>1
  <2> QED
    BY <2>1, <2>2 DEF IsInOrder, DefinitionsAreExact, IsWhereDefined
<1>5. SameValueAs(f, a, o)
        = CASE op.kind = "Plus" /\ IsNumber(a, op.operands[1]) -> {op.operands[1]}
            [] op.kind = "Not" /\ inner.kind = "OperationResult" -> V
            [] OTHER -> {}
  BY DEF SameValueAs
<1> HIDE DEF op, inner, V
<1> QED
  BY <1>3, <1>4, <1>5

\* simplify_operations: an operation becomes a constant or another value.
LEMMA SimplificationBatch ==
  ASSUME NEW f, IsInOrder(f), NEW a, NEW o
  PROVE  IsKnownBatch(SimplificationOf(f, a, o))
<1>1. CASE ~ CanBeSimplified(f, a, o)
  BY <1>1, NoCalls DEF SimplificationOf
<1>2. CASE CanBeSimplified(f, a, o)
  <2> DEFINE K == ReflexiveConstant(f, a, o)
             V == SameValueAs(f, a, o)
             r == f.operations[o].results[1]
             made(c) == [call |-> "ReplaceWithConstant", operation |-> o, constant |-> c]
             used(v) == <<[call |-> "ReplaceAllUses", value |-> r, replacement |-> v],
                          [call |-> "RemoveOperations", operations |-> {o}]>>
             S == {made(c) : c \in K}
             T == {used(v) : v \in V}
  <2>1. SimplificationOf(f, a, o) = Listing(S) \o FlattenSeq(Listing(T))
    BY <1>2 DEF SimplificationOf
  <2>2. K \subseteq {"true", "false"}
    BY DEF ReflexiveConstant
  <2>3. IsFiniteSet(V)
    <3>1. V \in SUBSET DOMAIN f.values
      BY <1>2, OtherValuesExist
    <3>2. IsFiniteSet(DOMAIN f.values)
      BY DEF IsInOrder, IsAnalysable
    <3> HIDE DEF V
    <3> QED
      BY <3>1, <3>2, FS_Subset
  <2>4. IsFiniteSet(S) /\ \A c \in S : IsKnown(c)
    <3>1. K \in SUBSET {"true", "false"} /\ K \subseteq Constants
      BY <2>2 DEF Constants
    <3>2. IsFiniteSet({"true", "false"})
      <4>1. IsFiniteSet({"true"}) /\ IsFiniteSet({"false"})
        BY FS_Singleton
      <4>2. IsFiniteSet({"true"} \cup {"false"})
        BY <4>1, FS_Union
      <4>3. {"true"} \cup {"false"} = {"true", "false"}
        OBVIOUS
      <4> QED
        BY <4>2, <4>3
    <3>3. IsFiniteSet(K)
      BY <3>1, <3>2, FS_Subset
    <3> HIDE DEF K
    <3>4. \A c \in S : IsKnown(c)
      BY <3>1 DEF IsKnown
    <3> DEFINE g == [c \in K |-> made(c)]
    <3>5. g \in Surjection(K, S)
      BY DEF Surjection
    <3> HIDE DEF g, S
    <3>6. IsFiniteSet(S)
      BY <3>3, <3>5, FS_Surjection
    <3> QED
      BY <3>4, <3>6
  <2>5. IsFiniteSet(T)
    <3> DEFINE g == [v \in V |-> used(v)]
    <3> HIDE DEF V
    <3>1. g \in Surjection(V, T)
      BY DEF Surjection
    <3> HIDE DEF g, T
    <3> QED
      BY <2>3, <3>1, FS_Surjection
  <2>6. Listing(S) \in Seq(S)
    <3> HIDE DEF S
    <3> QED
      BY <2>4, ListingIsList
  <2>7. IsKnownBatch(FlattenSeq(Listing(T)))
    <3> DEFINE P == {c \in UNION {ToSet(t) : t \in T} : IsKnown(c)}
               n == Cardinality(T)
               ss == Listing(T)
    <3>1. \A t \in T : t \in Seq(P)
      <4>1. SUFFICES ASSUME NEW v \in V PROVE used(v) \in Seq(P)
        OBVIOUS
      <4> DEFINE c == [call |-> "ReplaceAllUses", value |-> r, replacement |-> v]
                 d == [call |-> "RemoveOperations", operations |-> {o}]
      <4>2. IsKnown(c) /\ IsKnown(d)
        BY DEF IsKnown
      <4>3. used(v) = <<c, d>> /\ used(v) \in T
        OBVIOUS
      <4> HIDE DEF used, T, c, d
      <4>4. c \in ToSet(used(v)) /\ d \in ToSet(used(v))
        BY <4>3 DEF ToSet
      <4>5. c \in P /\ d \in P
        BY <4>2, <4>3, <4>4
      <4> HIDE DEF P
      <4> QED
        BY <4>3, <4>5
    <3>2. \A c \in P : IsKnown(c)
      OBVIOUS
    <3> HIDE DEF T, P
    <3>3. ss \in [1..n -> T] /\ n \in Nat
      BY <2>5, ListingIsList
    <3> HIDE DEF ss, n
    <3>4. /\ DOMAIN ss = 1..n /\ Len(ss) = n
          /\ n = 0 => ss = <<>>
          /\ \A k \in 1..n : ss[k] \in Seq(P)
      BY <3>1, <3>3
    <3>5. FlattenSeq(ss) \in Seq(P)
      BY <3>3, <3>4, FlattenIsList
    <3> QED
      BY <3>2, <3>5, BatchOver DEF ss
  <2> HIDE DEF S, T
  <2>8. IsKnownBatch(Listing(S))
    BY <2>4, <2>6, BatchOver
  <2> QED
    BY <2>1, <2>7, <2>8, TwoBatches
<1> QED
  BY <1>1, <1>2

-----------------------------------------------------------------------------
(* Functions that can be analysed: every step of OptimizeFunction          *)

\* The calls that are left are known, and there is one while a parameter is
\* being removed.
CallsInv == IsKnownBatch(calls) /\ (removal # NoRemoval => calls # <<>>)

FactsInv == EdgeInv /\ IsAnalysable(function) /\ CallsInv

\* Between two batches, the function is as the passes rely on.
LEMMA IdleIsInOrder ==
  ASSUME FactsInv, removal = NoRemoval
  PROVE  IsInOrder(function)
<1>1. IsExact(function) /\ IsOrderly(function) /\ IsWired(function, {}, 0)
  BY DEF FactsInv, EdgeInv, OrderInv, EditorInv, WiredInv
<1>2. HasSuccessors(function) /\ EdgesAreFit(function)
  BY <1>1, WiredIsFit DEF IsExact
<1> QED
  BY <1>1, <1>2 DEF IsInOrder, IsExact, IsOrderly, FactsInv

\* What an analysis of it says, whether exact or not, is about its values.
LEMMA AnalyzeIsAnalysis ==
  ASSUME NEW f, IsInOrder(f)
  PROVE  Analyze(f) \in Analyses(f)
BY SolveHolds DEF Analyze, Orders

\* A call that keeps a function analysable if its assertions hold.
LEMMA PerformKeepsFacts ==
  ASSUME NEW call, NEW asserts, NEW result,
         FactsInv, Perform(call, asserts, result), asserts => IsAnalysable(result)
  PROVE  IsAnalysable(function') /\ CallsInv'
<1>1. calls # <<>> /\ removal = NoRemoval /\ IsKnownBatch(calls)
  BY DEF Perform, FactsInv, CallsInv
<1>2. CASE asserts
  <2>1. function' = result /\ calls' = Tail(calls) /\ removal' = removal
    BY <1>2 DEF Perform
  <2> QED
    BY <1>1, <1>2, <2>1, RestOfBatch DEF CallsInv
<1>3. CASE ~ asserts
  <2>1. UNCHANGED <<function, calls, removal>>
    BY <1>3 DEF Perform
  <2> QED
    BY <1>1, <2>1 DEF FactsInv, CallsInv
<1> QED
  BY <1>2, <1>3

\* Every editor call keeps the function such that it can be analysed.
LEMMA EditKeepsFacts ==
  ASSUME FactsInv, Edit
  PROVE  IsAnalysable(function') /\ CallsInv'
<1>0. /\ IsExact(function) /\ IsOrderly(function) /\ IsAnalysable(function)
      /\ removal = NoRemoval => IsWired(function, {}, 0)
  BY DEF FactsInv, EdgeInv, WiredInv, OrderInv, EditorInv
<1>1. CASE PerformReplaceAllUses
  BY <1>0, <1>1, PerformKeepsFacts, ReplaceAllUsesIsAnalysable DEF PerformReplaceAllUses
<1>2. CASE PerformRemoveOperations
  BY <1>0, <1>2, PerformKeepsFacts, RemoveOperationsIsAnalysable DEF PerformRemoveOperations
<1>3. CASE PerformReplaceWithConstant
  <2>1. Call.constant \in Constants
    <3>1. calls # <<>> /\ Call.call = "ReplaceWithConstant" /\ IsKnownBatch(calls)
      BY <1>3 DEF PerformReplaceWithConstant, Perform, Call, FactsInv, CallsInv
    <3> QED
      BY <3>1, RestOfBatch DEF Call, IsKnown
  <2> QED
    BY <1>0, <1>3, <2>1, PerformKeepsFacts, ReplaceWithConstantIsAnalysable
       DEF PerformReplaceWithConstant
<1>4. CASE PerformReplaceIfWithJump
  BY <1>0, <1>4, PerformKeepsFacts, ReplaceIfWithJumpIsAnalysable DEF PerformReplaceIfWithJump
<1>5. CASE PerformReplaceSuccessor
  <2>1. removal = NoRemoval
    BY <1>5 DEF PerformReplaceSuccessor, Perform
  <2> QED
    BY <1>0, <1>5, <2>1, PerformKeepsFacts, ReplaceSuccessorIsAnalysable DEF PerformReplaceSuccessor
<1>6. CASE PerformRemoveBlocks
  BY <1>0, <1>6, PerformKeepsFacts, RemoveBlocksIsAnalysable DEF PerformRemoveBlocks
<1>7. CASE PerformMergeBlock
  BY <1>0, <1>7, PerformKeepsFacts, MergeBlockIsAnalysable DEF PerformMergeBlock
<1>8. CASE BeginRemoval
  <2>1. UNCHANGED <<function, calls>> /\ calls # <<>>
    BY <1>8 DEF BeginRemoval
  <2> QED
    BY <2>1 DEF FactsInv, CallsInv
<1>9. CASE RemoveArgument
  <2> DEFINE o == Head(removal.edges)[1]
             i == Head(removal.edges)[2]
             g == RemoveSuccessorArgument(function, o, i, removal.index)
  <2>1. UNCHANGED calls /\ removal # NoRemoval
    BY <1>9 DEF RemoveArgument
  <2>2. \E Lost, k : IsWired(function, Lost, k)
    BY <2>1 DEF FactsInv, EdgeInv, WiredInv, HalfRemoved
  <2>3. CASE CanRemoveSuccessorArgument(function, o, i, removal.index)
    <3>1. IsAnalysable(g)
      BY <1>0, <2>2, <2>3, RemoveSuccessorArgumentIsAnalysable
    <3>2. function' = g
      BY <1>9, <2>3 DEF RemoveArgument
    <3> HIDE DEF g
    <3> QED
      BY <2>1, <3>1, <3>2 DEF FactsInv, CallsInv
  <2>4. CASE ~ CanRemoveSuccessorArgument(function, o, i, removal.index)
    <3>1. UNCHANGED function
      BY <1>9, <2>4 DEF RemoveArgument
    <3> QED
      BY <1>0, <2>1, <3>1 DEF FactsInv, CallsInv
  <2> QED
    BY <2>3, <2>4
<1>10. CASE EndRemoval
  <2> DEFINE g == RemoveParameter(function, removal.block, removal.position)
  <2>1. function' = g /\ removal' = NoRemoval /\ removal # NoRemoval /\ calls' = Tail(calls)
    BY <1>10 DEF EndRemoval
  <2>2. /\ removal.block \in DOMAIN function.blocks
        /\ removal.position \in DOMAIN function.blocks[removal.block].parameters
        /\ IsUnread(function, function.blocks[removal.block].parameters[removal.position].value)
    BY <2>1 DEF FactsInv, EdgeInv, OrderInv, RemovedIsParameter, EditorInv, RemovedIsUnread
  <2>3. IsAnalysable(g)
    BY <1>0, <2>2, RemoveParameterIsAnalysable
  <2>4. IsKnownBatch(Tail(calls))
    BY <2>1, RestOfBatch DEF FactsInv, CallsInv
  <2> HIDE DEF g
  <2> QED
    BY <2>1, <2>3, <2>4 DEF CallsInv
<1> QED
  BY <1>1, <1>2, <1>3, <1>4, <1>5, <1>6, <1>7, <1>8, <1>9, <1>10 DEF Edit

\* A pass that plans a batch leaves the function as it is, and knows what it
\* asks for.
LEMMA PlanKeepsFacts ==
  ASSUME FactsInv, [Next]_optimizeVars, ~ MakeCall
  PROVE  UNCHANGED <<function, removal>> /\ CallsInv'
<1>1. UNCHANGED <<function, removal>>
  BY DEF Next, optimizeVars, Rest, RunPass, PropagateConstants, FoldConstantIfs,
         PruneUnreachableBlocks, EliminateCommonSubexpressions, EliminateDeadCode,
         SimplifyControlFlow, StartSimplifyOperations, SimplifyOperation,
         StartSimplifyBlockParameters, SimplifyBlock, FinishWork
<1>2. CASE UNCHANGED calls
  BY <1>1, <1>2 DEF FactsInv, CallsInv
<1>3. CASE IsIdle /\ calls' # calls
  <2>1. IsInOrder(function) /\ removal = NoRemoval
    BY <1>3, IdleIsInOrder DEF IsIdle
  <2>2. Analyze(function) \in Analyses(function)
    BY <2>1, AnalyzeIsAnalysis
  <2>3. IsKnownBatch(calls')
    <3>1. CASE PropagateConstants
      BY <2>1, <2>2, <3>1, ConstantBatch DEF PropagateConstants, RunPass
    <3>2. CASE FoldConstantIfs
      BY <2>1, <3>2, IfBatch DEF FoldConstantIfs, RunPass
    <3>3. CASE PruneUnreachableBlocks
      BY <3>3, RemovalBatches DEF PruneUnreachableBlocks, RunPass
    <3>4. CASE EliminateCommonSubexpressions
      BY <2>1, <3>4, ExpressionBatch DEF EliminateCommonSubexpressions, RunPass
    <3>5. CASE EliminateDeadCode
      BY <3>5, RemovalBatches DEF EliminateDeadCode, RunPass
    <3>6. CASE SimplifyControlFlow
      BY <2>1, <3>6, RewriteBatch DEF SimplifyControlFlow
    <3>7. CASE SimplifyOperation
      BY <2>1, <3>7, SimplificationBatch DEF SimplifyOperation
    <3>8. CASE SimplifyBlock
      BY <1>3, <3>8, ParameterBatch DEF SimplifyBlock
    <3> QED
      BY <1>3, <3>1, <3>2, <3>3, <3>4, <3>5, <3>6, <3>7, <3>8
         DEF Next, optimizeVars, Rest, StartSimplifyOperations, StartSimplifyBlockParameters,
             FinishWork
  <2> QED
    BY <1>1, <2>1, <2>3 DEF CallsInv
<1> QED
  BY <1>2, <1>3 DEF Next, optimizeVars, Rest, RunPass, PropagateConstants, FoldConstantIfs,
         PruneUnreachableBlocks, EliminateCommonSubexpressions, EliminateDeadCode,
         SimplifyControlFlow, StartSimplifyOperations, SimplifyOperation,
         StartSimplifyBlockParameters, SimplifyBlock, FinishWork

\* Every step keeps the function such that it can be analysed.
LEMMA NextKeepsFacts == FactsInv /\ [Next]_optimizeVars => FactsInv'
<1> SUFFICES ASSUME FactsInv, [Next]_optimizeVars PROVE FactsInv'
  OBVIOUS
<1>0. EdgeInv'
  BY NextKeepsEdges DEF FactsInv
<1>1. CASE MakeCall
  BY <1>0, <1>1, EditKeepsFacts DEF MakeCall, FactsInv
<1>2. CASE ~ MakeCall
  <2>1. UNCHANGED function /\ CallsInv'
    BY <1>2, PlanKeepsFacts
  <2> QED
    BY <1>0, <2>1 DEF FactsInv
<1> QED
  BY <1>1, <1>2

\* A function comes to the passes such that it can be analysed.
LEMMA InitHasFacts == Init => FactsInv
<1> SUFFICES ASSUME Init PROVE FactsInv
  OBVIOUS
<1>1. EdgeInv
  BY InitIsWired
<1>2. IsAnalysable(function)
  BY SourcesAreInOrder DEF IsInOrder, Init
<1>3. CallsInv
  BY NoCalls DEF Init, CallsInv
<1> QED
  BY <1>1, <1>2, <1>3 DEF FactsInv
=============================================================================
