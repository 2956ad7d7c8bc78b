----------------------------- MODULE SumProofs -----------------------------
(***************************************************************************)
(* Facts about SumFunctionOnSet, the sum of a function over a finite set   *)
(* of arguments.                                                           *)
(*                                                                         *)
(* The fold picks the elements in an order of its own.  That the order is  *)
(* irrelevant is shown by way of Additive: a table g of one sum for each   *)
(* subset, in which taking any element out takes its value out.  A finite  *)
(* set has such a table, and what the fold computes is in it.              *)
(***************************************************************************)
EXTENDS Integers, FiniteSets, Functions, FiniteSetTheorems, WellFoundedInduction, TLAPS

Additive(g, f, S) ==
  /\ g \in [SUBSET S -> Int]
  /\ g[{}] = 0
  /\ \A T \in SUBSET S : \A x \in T : g[T] = f[x] + g[T \ {x}]

IntsOn(f, S) == \A x \in S : f[x] \in Int

(* Of the finite sets with a property there is none or a least one. *)
LEMMA LeastSubset ==
  ASSUME NEW S, IsFiniteSet(S), NEW Bad \in SUBSET (SUBSET S), Bad # {}
  PROVE  \E T \in Bad : \A U \in Bad : U \subseteq T => U = T
<1>1. IsWellFoundedOn(StrictSubsetOrdering(S), SUBSET S)
  BY FS_StrictSubsetOrderingWellFounded, FS_FiniteSubsetsOfFinite
<1>2. PICK T \in Bad : \A U \in Bad : ~(<<U, T>> \in StrictSubsetOrdering(S))
  BY <1>1, WFMin
<1>3. ASSUME NEW U \in Bad, U \subseteq T
      PROVE  U = T
  BY <1>2, <1>3 DEF StrictSubsetOrdering
<1> QED BY <1>3

LEMMA OneMoreAdditive ==
  ASSUME NEW T, NEW x \in T, NEW f, IntsOn(f, T), NEW g0,
         Additive(g0, f, T \ {x})
  PROVE  \E g : Additive(g, f, T)
<1> DEFINE V == T \ {x}
           g == [U \in SUBSET T |-> IF x \in U THEN f[x] + g0[U \ {x}] ELSE g0[U]]
<1>1. g0 \in [SUBSET V -> Int] /\ g0[{}] = 0 /\ f[x] \in Int
  BY DEF Additive, IntsOn
<1>2. ASSUME NEW U \in SUBSET T
      PROVE  /\ g[U] = IF x \in U THEN f[x] + g0[U \ {x}] ELSE g0[U]
             /\ U \ {x} \in SUBSET V
             /\ x \notin U => U \in SUBSET V
  OBVIOUS
<1>3. g \in [SUBSET T -> Int]
  <2>1. ASSUME NEW U \in SUBSET T
        PROVE  (IF x \in U THEN f[x] + g0[U \ {x}] ELSE g0[U]) \in Int
    BY <1>1, <1>2
  <2> QED BY <2>1
<1>4. g[{}] = 0
  BY <1>1, <1>2
<1>5. ASSUME NEW U \in SUBSET T, NEW y \in U
      PROVE  g[U] = f[y] + g[U \ {y}]
  <2>1. f[y] \in Int
    BY DEF IntsOn
  <2>2. CASE y = x
    BY <1>2, <2>2
  <2>3. CASE y # x /\ x \in U
    <3>1. U \ {x} \in SUBSET V /\ y \in U \ {x}
      BY <2>3
    <3>2. g0[U \ {x}] = f[y] + g0[(U \ {x}) \ {y}]
      BY <3>1 DEF Additive
    <3>3. (U \ {x}) \ {y} = (U \ {y}) \ {x} /\ (U \ {y}) \ {x} \in SUBSET V
      OBVIOUS
    <3>4. g0[(U \ {y}) \ {x}] \in Int
      BY <1>1, <3>3
    <3>5. g[U] = f[x] + g0[U \ {x}] /\ g[U \ {y}] = f[x] + g0[(U \ {y}) \ {x}]
      BY <1>2, <2>3
    <3>6. f[x] \in Int
      BY <1>1
    <3> HIDE DEF g, V
    <3> DEFINE rest == g0[(U \ {y}) \ {x}]
    <3>7. g[U] = f[x] + (f[y] + rest) /\ g[U \ {y}] = f[x] + rest
      BY <3>2, <3>3, <3>5
    <3>8. rest \in Int
      BY <3>4
    <3> HIDE DEF rest
    <3> QED BY <2>1, <3>6, <3>7, <3>8
  <2>4. CASE x \notin U
    <3>1. U \in SUBSET V /\ x \notin U \ {y}
      BY <2>4
    <3>2. g0[U] = f[y] + g0[U \ {y}]
      BY <3>1 DEF Additive
    <3>3. g[U] = g0[U] /\ g[U \ {y}] = g0[U \ {y}]
      BY <1>2, <3>1
    <3> HIDE DEF g
    <3> QED BY <3>2, <3>3
  <2> QED BY <2>2, <2>3, <2>4
<1> HIDE DEF g
<1>6. Additive(g, f, T)
  BY <1>3, <1>4, <1>5 DEF Additive
<1> QED BY <1>6

LEMMA AdditiveExists ==
  ASSUME NEW S, IsFiniteSet(S), NEW f, IntsOn(f, S)
  PROVE  \E g : Additive(g, f, S)
<1> DEFINE Bad == {T \in SUBSET S : ~\E g : Additive(g, f, T)}
<1> SUFFICES ASSUME Bad # {} PROVE FALSE
  OBVIOUS
<1>1. PICK T \in Bad : \A U \in Bad : U \subseteq T => U = T
  <2> HIDE DEF Bad
  <2>1. Bad \in SUBSET (SUBSET S)
    BY DEF Bad
  <2> QED BY <2>1, LeastSubset
<1>2. T # {}
  <2> SUFFICES ASSUME T = {} PROVE FALSE
    OBVIOUS
  <2> DEFINE g == [U \in SUBSET {} |-> 0]
  <2>1. Additive(g, f, {})
    <3>1. g \in [SUBSET {} -> Int] /\ g[{}] = 0
      OBVIOUS
    <3>2. \A U \in SUBSET {} : \A x \in U : FALSE
      OBVIOUS
    <3> HIDE DEF g
    <3> QED BY <3>1, <3>2 DEF Additive
  <2> QED BY <2>1
<1>3. PICK x \in T : TRUE
  BY <1>2
<1>4. PICK g0 : Additive(g0, f, T \ {x})
  BY <1>1, <1>3
<1>5. IntsOn(f, T)
  BY DEF IntsOn
<1>6. \E g : Additive(g, f, T)
  BY <1>3, <1>4, <1>5, OneMoreAdditive
<1> QED BY <1>6

(* The fold computes the entry of the whole set. *)
LEMMA SumIs ==
  ASSUME NEW S, IsFiniteSet(S), NEW f, NEW g, Additive(g, f, S)
  PROVE  SumFunctionOnSet(f, S) = g[S]
<1> DEFINE Any(s) == CHOOSE x \in s : TRUE
           Fold(h) == [s \in SUBSET S |->
                         IF s = {} THEN 0 ELSE f[Any(s)] + h[s \ {Any(s)}]]
           iter == CHOOSE h : h = Fold(h)
<1>1. SumFunctionOnSet(f, S) = iter[S]
  BY DEF SumFunctionOnSet, FoldFunctionOnSet, MapThenFoldSet
<1>2. g = Fold(g)
  <2>1. ASSUME NEW s \in SUBSET S
        PROVE  g[s] = IF s = {} THEN 0 ELSE f[Any(s)] + g[s \ {Any(s)}]
    <3>1. CASE s = {}
      BY <3>1 DEF Additive
    <3>2. CASE s # {}
      <4>1. Any(s) \in s
        BY <3>2
      <4> QED BY <3>2, <4>1 DEF Additive
    <3> QED BY <3>1, <3>2
  <2> QED BY <2>1 DEF Additive
<1>3. iter = Fold(iter)
  BY <1>2
<1> HIDE DEF iter
<1> DEFINE Bad == {s \in SUBSET S : iter[s] # g[s]}
<1>4. Bad = {}
  <2> SUFFICES ASSUME Bad # {} PROVE FALSE
    OBVIOUS
  <2>1. PICK s \in Bad : \A U \in Bad : U \subseteq s => U = s
    <3> HIDE DEF Bad
    <3>1. Bad \in SUBSET (SUBSET S)
      BY DEF Bad
    <3> QED BY <3>1, LeastSubset
  <2>2. \A h : h = Fold(h) =>
          h[s] = IF s = {} THEN 0 ELSE f[Any(s)] + h[s \ {Any(s)}]
    BY <2>1
  <2> HIDE DEF Fold
  <2>3. CASE s = {}
    BY <1>2, <1>3, <2>1, <2>2, <2>3
  <2>4. CASE s # {}
    <3>1. Any(s) \in s
      BY <2>4
    <3>2. iter[s \ {Any(s)}] = g[s \ {Any(s)}]
      BY <2>1, <3>1
    <3> HIDE DEF Any
    <3> QED BY <1>2, <1>3, <2>1, <2>2, <2>4, <3>2
  <2> QED BY <2>3, <2>4
<1> QED BY <1>1, <1>4

-----------------------------------------------------------------------------
(* What follows for sums.                                                   *)

(* The table of a set has the sums of all its subsets. *)
LEMMA SumInTable ==
  ASSUME NEW S, IsFiniteSet(S), NEW f, NEW g, Additive(g, f, S),
         NEW T \in SUBSET S
  PROVE  SumFunctionOnSet(f, T) = g[T]
<1> DEFINE h == [U \in SUBSET T |-> g[U]]
<1>1. Additive(h, f, T)
  <2>1. h \in [SUBSET T -> Int] /\ h[{}] = 0
    BY DEF Additive
  <2>2. \A U \in SUBSET T : \A y \in U : h[U] = f[y] + h[U \ {y}]
    BY DEF Additive
  <2> HIDE DEF h
  <2> QED BY <2>1, <2>2 DEF Additive
<1>2. IsFiniteSet(T) /\ h[T] = g[T]
  BY FS_Subset
<1> HIDE DEF h
<1> QED BY <1>1, <1>2, SumIs

LEMMA SumEmpty == ASSUME NEW f PROVE SumFunctionOnSet(f, {}) = 0
<1>1. IsFiniteSet({}) /\ IntsOn(f, {})
  BY FS_EmptySet DEF IntsOn
<1>2. PICK g : Additive(g, f, {})
  BY <1>1, AdditiveExists
<1> QED BY <1>1, <1>2, SumIs DEF Additive

LEMMA SumZero ==
  ASSUME NEW S, IsFiniteSet(S), NEW f, \A x \in S : f[x] = 0
  PROVE  SumFunctionOnSet(f, S) = 0
<1> DEFINE g == [T \in SUBSET S |-> 0]
<1>1. Additive(g, f, S)
  <2>1. ASSUME NEW T \in SUBSET S, NEW x \in T
        PROVE  g[T] = f[x] + g[T \ {x}]
    <3>1. f[x] = 0 /\ T \ {x} \in SUBSET S
      OBVIOUS
    <3> QED BY <3>1
  <2> QED BY <2>1 DEF Additive
<1>2. SumFunctionOnSet(f, S) = g[S]
  BY <1>1, SumIs
<1> QED BY <1>2

LEMMA SumInt ==
  ASSUME NEW S, IsFiniteSet(S), NEW f, IntsOn(f, S)
  PROVE  SumFunctionOnSet(f, S) \in Int
<1>1. PICK g : Additive(g, f, S)
  BY AdditiveExists
<1>2. g[S] \in Int
  BY <1>1 DEF Additive
<1>3. SumFunctionOnSet(f, S) = g[S]
  BY <1>1, SumIs
<1> QED BY <1>2, <1>3

(* An element is taken out with its value. *)
LEMMA SumRemove ==
  ASSUME NEW S, IsFiniteSet(S), NEW f, IntsOn(f, S), NEW x \in S
  PROVE  SumFunctionOnSet(f, S) = f[x] + SumFunctionOnSet(f, S \ {x})
<1>1. PICK g : Additive(g, f, S)
  BY AdditiveExists
<1>2. SumFunctionOnSet(f, S) = g[S] /\ SumFunctionOnSet(f, S \ {x}) = g[S \ {x}]
  BY <1>1, SumInTable
<1>3. g[S] = f[x] + g[S \ {x}]
  BY <1>1 DEF Additive
<1> QED BY <1>2, <1>3

LEMMA SumAdd ==
  ASSUME NEW S, IsFiniteSet(S), NEW f, NEW x, x \notin S, IntsOn(f, S \cup {x})
  PROVE  SumFunctionOnSet(f, S \cup {x}) = f[x] + SumFunctionOnSet(f, S)
<1>1. IsFiniteSet(S \cup {x}) /\ (S \cup {x}) \ {x} = S
  BY FS_AddElement
<1> QED BY <1>1, SumRemove

(* The values on the set are all that matters. *)
LEMMA SumSame ==
  ASSUME NEW S, IsFiniteSet(S), NEW f, IntsOn(f, S), NEW f2,
         \A x \in S : f2[x] = f[x]
  PROVE  SumFunctionOnSet(f2, S) = SumFunctionOnSet(f, S)
<1>1. PICK g : Additive(g, f, S)
  BY AdditiveExists
<1>2. Additive(g, f2, S)
  BY <1>1 DEF Additive
<1> QED BY <1>1, <1>2, SumIs

(* The sum changes by what one value changes. *)
LEMMA SumChange ==
  ASSUME NEW S, IsFiniteSet(S), NEW f, IntsOn(f, S), NEW x \in S,
         NEW f2, f2[x] \in Int, \A y \in S \ {x} : f2[y] = f[y]
  PROVE  SumFunctionOnSet(f2, S) = SumFunctionOnSet(f, S) + (f2[x] - f[x])
<1> DEFINE T == S \ {x}
<1>1. IsFiniteSet(T) /\ IntsOn(f, T) /\ IntsOn(f2, S) /\ f[x] \in Int
  BY FS_RemoveElement DEF IntsOn
<1>2. SumFunctionOnSet(f2, T) = SumFunctionOnSet(f, T) /\ SumFunctionOnSet(f, T) \in Int
  BY <1>1, SumSame, SumInt
<1>3. /\ SumFunctionOnSet(f, S) = f[x] + SumFunctionOnSet(f, T)
      /\ SumFunctionOnSet(f2, S) = f2[x] + SumFunctionOnSet(f2, T)
  BY <1>1, SumRemove
<1> HIDE DEF T
<1> QED BY <1>1, <1>2, <1>3

NatsOn(f, S) == \A x \in S : f[x] \in Nat

(* Sums of natural numbers grow with the set. *)
LEMMA SumGrows ==
  ASSUME NEW S, IsFiniteSet(S), NEW f, NatsOn(f, S), NEW T \in SUBSET S
  PROVE  SumFunctionOnSet(f, T) \in Nat /\ SumFunctionOnSet(f, T) <= SumFunctionOnSet(f, S)
<1>1. PICK g : Additive(g, f, S)
  BY AdditiveExists DEF IntsOn, NatsOn
<1> DEFINE Bad == {U \in SUBSET S : ~(g[U] \in Nat /\ g[U \cap T] \in Nat /\ g[U \cap T] <= g[U])}
<1>2. Bad = {}
  <2> SUFFICES ASSUME Bad # {} PROVE FALSE
    OBVIOUS
  <2>1. PICK U \in Bad : \A W \in Bad : W \subseteq U => W = U
    <3> HIDE DEF Bad
    <3>1. Bad \in SUBSET (SUBSET S)
      BY DEF Bad
    <3> QED BY <3>1, LeastSubset
  <2>2. CASE U = {}
    <3>1. U \cap T = {}
      BY <2>2
    <3> QED BY <1>1, <2>1, <2>2, <3>1 DEF Additive
  <2>3. ASSUME NEW x \in U
        PROVE  FALSE
    <3> DEFINE W == U \ {x}
    <3>1. /\ g[W] \in Nat /\ g[W \cap T] \in Nat /\ g[W \cap T] <= g[W]
          /\ f[x] \in Nat /\ U \in SUBSET S
      <4>1. U \in SUBSET S /\ W \in SUBSET S /\ W \subseteq U /\ W # U
        OBVIOUS
      <4>2. W \notin Bad
        BY <2>1, <4>1
      <4>3. g[W] \in Nat /\ g[W \cap T] \in Nat /\ g[W \cap T] <= g[W]
        BY <4>1, <4>2
      <4> QED BY <4>1, <4>3 DEF NatsOn
    <3>2. g[U] = f[x] + g[W]
      BY <1>1, <3>1 DEF Additive
    <3>3. g[U \cap T] = IF x \in T THEN f[x] + g[W \cap T] ELSE g[W \cap T]
      <4>1. CASE x \in T
        <5>1. x \in U \cap T /\ (U \cap T) \ {x} = W \cap T /\ U \cap T \in SUBSET S
          BY <3>1, <4>1
        <5> HIDE DEF W
        <5> QED BY <1>1, <4>1, <5>1 DEF Additive
      <4>2. CASE x \notin T
        <5>1. U \cap T = W \cap T
          BY <4>2
        <5> QED BY <4>2, <5>1
      <4> QED BY <4>1, <4>2
    <3> HIDE DEF W
    <3>4. g[U] \in Nat /\ g[U \cap T] \in Nat /\ g[U \cap T] <= g[U]
      BY <3>1, <3>2, <3>3
    <3> QED BY <2>1, <3>4
  <2> QED BY <2>2, <2>3
<1>3. g[T] \in Nat /\ g[T] <= g[S]
  <2>1. S \cap T = T /\ S \notin Bad /\ S \in SUBSET S
    BY <1>2
  <2> QED BY <2>1
<1>4. SumFunctionOnSet(f, T) = g[T] /\ SumFunctionOnSet(f, S) = g[S]
  BY <1>1, SumInTable
<1> QED BY <1>3, <1>4

(* The sum over a set is that over a part of it and that over the rest: what *)
(* a table of sums says above the rest is a table of the sums of the part.   *)
LEMMA SumSplit ==
  ASSUME NEW S, IsFiniteSet(S), NEW f, IntsOn(f, S), NEW T \in SUBSET S
  PROVE  SumFunctionOnSet(f, S) = SumFunctionOnSet(f, S \ T) + SumFunctionOnSet(f, T)
<1>1. PICK g : Additive(g, f, S)
  BY AdditiveExists
<1> DEFINE rest == S \ T
           g2 == [U \in SUBSET T |-> g[U \cup rest] - g[rest]]
<1>2. /\ rest \in SUBSET S /\ rest \cap T = {} /\ T \cup rest = S
      /\ \A U \in SUBSET T : U \cup rest \in SUBSET S
  OBVIOUS
<1>3. \A V \in SUBSET S : g[V] \in Int
  BY <1>1 DEF Additive
<1> HIDE DEF rest
<1>4. Additive(g2, f, T)
  <2>1. g2 \in [SUBSET T -> Int]
    BY <1>2, <1>3
  <2>2. g2[{}] = 0
    <3>1. {} \cup rest = rest
      OBVIOUS
    <3>2. g2[{}] = g[{} \cup rest] - g[rest] /\ g[rest] \in Int
      BY <1>2, <1>3
    <3> QED BY <3>1, <3>2
  <2>3. ASSUME NEW U \in SUBSET T, NEW x \in U
        PROVE  g2[U] = f[x] + g2[U \ {x}]
    <3>1. /\ U \cup rest \in SUBSET S /\ x \in U \cup rest
          /\ (U \cup rest) \ {x} = (U \ {x}) \cup rest
          /\ U \ {x} \in SUBSET T /\ x \in S
      BY <1>2
    <3>2. g[U \cup rest] = f[x] + g[(U \ {x}) \cup rest]
      BY <1>1, <3>1 DEF Additive
    <3>3. g[(U \ {x}) \cup rest] \in Int /\ g[rest] \in Int /\ f[x] \in Int
      BY <1>2, <1>3, <3>1 DEF IntsOn
    <3>4. g2[U] = g[U \cup rest] - g[rest]
          /\ g2[U \ {x}] = g[(U \ {x}) \cup rest] - g[rest]
      BY <3>1
    <3> QED BY <3>2, <3>3, <3>4
  <2> HIDE DEF g2
  <2> QED BY <2>1, <2>2, <2>3 DEF Additive
<1>5. SumFunctionOnSet(f, T) = g[S] - g[rest]
  <2>1. IsFiniteSet(T) /\ IntsOn(f, T)
    BY FS_Subset DEF IntsOn
  <2>2. SumFunctionOnSet(f, T) = g2[T]
    <3> HIDE DEF g2
    <3> QED BY <1>4, <2>1, SumIs
  <2> QED BY <1>2, <2>2
<1>6. SumFunctionOnSet(f, S) = g[S] /\ SumFunctionOnSet(f, rest) = g[rest]
      /\ g[S] \in Int /\ g[rest] \in Int
  BY <1>1, <1>2, <1>3, SumInTable
<1> QED BY <1>5, <1>6 DEF rest

(* Sums follow the order of the values. *)
LEMMA SumOrdered ==
  ASSUME NEW S, IsFiniteSet(S), NEW f, IntsOn(f, S), NEW f2, IntsOn(f2, S),
         \A x \in S : f2[x] <= f[x]
  PROVE  SumFunctionOnSet(f2, S) <= SumFunctionOnSet(f, S)
<1>1. PICK g : Additive(g, f, S)
  BY AdditiveExists
<1>2. PICK g2 : Additive(g2, f2, S)
  BY AdditiveExists
<1> DEFINE Bad == {U \in SUBSET S : ~(g2[U] <= g[U])}
<1>3. Bad = {}
  <2> SUFFICES ASSUME Bad # {} PROVE FALSE
    OBVIOUS
  <2>1. PICK U \in Bad : \A W \in Bad : W \subseteq U => W = U
    <3> HIDE DEF Bad
    <3>1. Bad \in SUBSET (SUBSET S)
      BY DEF Bad
    <3> QED BY <3>1, LeastSubset
  <2>2. CASE U = {}
    BY <1>1, <1>2, <2>1, <2>2 DEF Additive
  <2>3. ASSUME NEW x \in U
        PROVE  FALSE
    <3> DEFINE W == U \ {x}
    <3>1. U \in SUBSET S /\ W \in SUBSET S /\ W \subseteq U /\ W # U
      OBVIOUS
    <3>2. g2[W] <= g[W]
      BY <2>1, <3>1
    <3>3. /\ g[U] = f[x] + g[W] /\ g2[U] = f2[x] + g2[W]
          /\ g[W] \in Int /\ g2[W] \in Int
      BY <1>1, <1>2, <3>1 DEF Additive
    <3>4. f[x] \in Int /\ f2[x] \in Int /\ f2[x] <= f[x]
      BY <3>1 DEF IntsOn
    <3> HIDE DEF W
    <3>5. g2[U] <= g[U]
      BY <3>2, <3>3, <3>4
    <3> QED BY <2>1, <3>5
  <2> QED BY <2>2, <2>3
<1>4. g2[S] <= g[S]
  <2>1. S \in SUBSET S /\ S \notin Bad
    BY <1>3
  <2> QED BY <2>1
<1> QED BY <1>1, <1>2, <1>4, SumIs

LEMMA SumConstant ==
  ASSUME NEW S, IsFiniteSet(S), NEW n \in Nat, NEW f, \A x \in S : f[x] = n
  PROVE  SumFunctionOnSet(f, S) = Cardinality(S) * n
<1> DEFINE g == [T \in SUBSET S |-> Cardinality(T) * n]
<1>p. \A i, j \in Nat : i * j \in Nat /\ (i + 1) * j = i * j + j
  OBVIOUS
<1>1. \A T \in SUBSET S : IsFiniteSet(T) /\ Cardinality(T) \in Nat
  BY FS_Subset, FS_CardinalityType
<1>2. g \in [SUBSET S -> Int]
  BY <1>p, <1>1
<1>3. g[{}] = 0
  BY FS_EmptySet
<1>4. ASSUME NEW T \in SUBSET S, NEW x \in T
      PROVE  g[T] = f[x] + g[T \ {x}]
  <2>1. f[x] = n /\ T \ {x} \in SUBSET S
    OBVIOUS
  <2>2. Cardinality(T) = Cardinality(T \ {x}) + 1
    BY <1>1, <2>1, FS_RemoveElement
  <2>3. Cardinality(T \ {x}) \in Nat
    BY <1>1, <2>1
  <2>4. Cardinality(T) * n = Cardinality(T \ {x}) * n + n
    BY <1>p, <2>2, <2>3
  <2>5. Cardinality(T \ {x}) * n \in Nat
    BY <1>p, <2>3
  <2> QED BY <2>1, <2>4, <2>5
<1>5. Additive(g, f, S)
  <2> HIDE DEF g
  <2> QED BY <1>2, <1>3, <1>4 DEF Additive
<1> QED BY <1>5, SumIs

(* Values of at most n sum to at most n for each element. *)
LEMMA SumBounded ==
  ASSUME NEW S, IsFiniteSet(S), NEW n \in Nat, NEW f, IntsOn(f, S),
         \A x \in S : f[x] <= n
  PROVE  SumFunctionOnSet(f, S) <= Cardinality(S) * n
<1> DEFINE c == [x \in S |-> n]
<1>1. IntsOn(c, S) /\ \A x \in S : c[x] = n /\ f[x] <= c[x]
  BY DEF IntsOn
<1> HIDE DEF c
<1>2. SumFunctionOnSet(f, S) <= SumFunctionOnSet(c, S)
  BY <1>1, SumOrdered
<1> QED BY <1>1, <1>2, SumConstant
=============================================================================
