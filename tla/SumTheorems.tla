----------------------------- MODULE SumTheorems -----------------------------
(***************************************************************************)
(* Facts about sums over finite sets, for the models that add up points,   *)
(* ratings, attempts and days.                                             *)
(*                                                                         *)
(* The sum of a function over a set is a recursive function, and the       *)
(* induction theorems of the library take an operator as their parameter.  *)
(* So induction is stated here for sets: a set of numbers, or of subsets,  *)
(* that is closed under the step.  It follows from the well-founded        *)
(* ordering of the numbers.                                                *)
(***************************************************************************)
EXTENDS Integers, FiniteSets, FiniteSetsExt, FiniteSetTheorems, WellFoundedInduction, TLAPS

-----------------------------------------------------------------------------
(* Induction.                                                              *)

LEMMA SmallestOf ==
    ASSUME NEW T, T \subseteq Nat, T # {}
    PROVE  \E n \in T : \A m \in T : n <= m
<1>1. PICK n \in T : \A m \in T : <<m, n>> \notin OpToRel(<, Nat)
  BY NatLessThanWellFounded, WFMin
<1>2. \A m \in T : ~(m < n)
  BY <1>1 DEF OpToRel
<1> QED BY <1>2

LEMMA InductionNat ==
    ASSUME NEW F, 0 \in F, \A n \in Nat : n \in F => n + 1 \in F
    PROVE  Nat \subseteq F
<1> SUFFICES ASSUME Nat \ F # {} PROVE FALSE
  OBVIOUS
<1>1. PICK n \in Nat \ F : \A m \in Nat \ F : n <= m
  BY SmallestOf
<1>2. n # 0 /\ n - 1 \in Nat /\ (n - 1) + 1 = n
  BY <1>1
<1>3. n - 1 \in F
  BY <1>1, <1>2
<1> QED BY <1>1, <1>2, <1>3

\* A family that has every subset it has all of whose smaller subsets has the set itself.
LEMMA InductionSubsets ==
    ASSUME NEW S, IsFiniteSet(S), NEW F,
           \A T \in SUBSET S : (\A x \in T : T \ {x} \in F) => T \in F
    PROVE  \A T \in SUBSET S : T \in F
<1> DEFINE bad == {T \in SUBSET S : T \notin F}
           sizes == {Cardinality(T) : T \in bad}
<1> SUFFICES ASSUME bad # {} PROVE FALSE
  OBVIOUS
<1>1. \A T \in SUBSET S : IsFiniteSet(T) /\ Cardinality(T) \in Nat
  BY FS_Subset, FS_CardinalityType
<1>2. sizes \subseteq Nat /\ sizes # {}
  BY <1>1
<1>3. PICK T \in bad : \A U \in bad : Cardinality(T) <= Cardinality(U)
  <2>1. PICK n \in sizes : \A m \in sizes : n <= m
    <3> HIDE DEF sizes
    <3> QED BY <1>2, SmallestOf
  <2> QED BY <2>1
<1>4. \A x \in T : T \ {x} \in SUBSET S /\ Cardinality(T \ {x}) < Cardinality(T)
  <2> SUFFICES ASSUME NEW x \in T PROVE T \ {x} \in SUBSET S /\ Cardinality(T \ {x}) < Cardinality(T)
    OBVIOUS
  <2>1. Cardinality(T \ {x}) = Cardinality(T) - 1 /\ Cardinality(T) \in Nat
    BY <1>1, <1>3, FS_RemoveElement
  <2> QED BY <1>3, <2>1
<1>5. \A x \in T : T \ {x} \in F
  BY <1>1, <1>3, <1>4
<1> QED BY <1>5

-----------------------------------------------------------------------------
(* The sum satisfies its equation.                                         *)

Picked(s) == CHOOSE x \in s : TRUE

SumStep(g, f, s) == IF s = {} THEN 0 ELSE f[Picked(s)] + g[s \ {Picked(s)}]

IsSummation(g, f, S) == g = [s \in SUBSET S |-> SumStep(g, f, s)]

LEMMA SumIsChosen ==
    ASSUME NEW f, NEW S
    PROVE  SumFunctionOnSet(f, S) = (CHOOSE g : IsSummation(g, f, S))[S]
  BY DEF SumFunctionOnSet, FoldFunctionOnSet, MapThenFoldSet, IsSummation, SumStep, Picked

LEMMA SummationExists ==
    ASSUME NEW f, NEW S, IsFiniteSet(S)
    PROVE  \E g : IsSummation(g, f, S)
<1> DEFINE upTo(n) == {s \in SUBSET S : Cardinality(s) <= n}
           F == {n \in Nat : \E g : g = [s \in upTo(n) |-> SumStep(g, f, s)]}
<1>1. \A s \in SUBSET S : IsFiniteSet(s) /\ Cardinality(s) \in Nat /\ Cardinality(s) <= Cardinality(S)
  BY FS_Subset, FS_CardinalityType
<1>2. 0 \in F
  <2> DEFINE g == [s \in upTo(0) |-> 0]
  <2>1. \A s \in upTo(0) : s = {}
    BY <1>1, FS_EmptySet
  <2>2. g = [s \in upTo(0) |-> SumStep(g, f, s)]
    BY <2>1 DEF SumStep
  <2> QED BY <2>2
<1>3. ASSUME NEW n \in Nat, n \in F PROVE n + 1 \in F
  <2>1. PICK g : g = [s \in upTo(n) |-> SumStep(g, f, s)]
    BY <1>3
  <2> DEFINE h == [s \in upTo(n + 1) |-> SumStep(g, f, s)]
  <2>2. ASSUME NEW s \in upTo(n + 1), s # {} PROVE s \ {Picked(s)} \in upTo(n) /\ s \ {Picked(s)} \in upTo(n + 1)
    <3>1. Picked(s) \in s
      BY <2>2 DEF Picked
    <3>2. Cardinality(s \ {Picked(s)}) = Cardinality(s) - 1
      BY <1>1, <3>1, FS_RemoveElement
    <3> QED BY <1>1, <3>2
  <2>3. \A s \in upTo(n) : s \in upTo(n + 1)
    BY <1>1
  <2>4. \A s \in upTo(n) : h[s] = g[s]
    <3> HIDE DEF upTo
    <3> QED BY <2>1, <2>3
  <2>5. \A s \in upTo(n + 1) : SumStep(g, f, s) = SumStep(h, f, s)
    <3> HIDE DEF upTo, h
    <3> QED BY <2>2, <2>4 DEF SumStep
  <2>6. h = [s \in upTo(n + 1) |-> SumStep(h, f, s)]
    <3> HIDE DEF upTo
    <3> QED BY <2>5
  <2>7. \E k : k = [s \in upTo(n + 1) |-> SumStep(k, f, s)]
    BY <2>6
  <2> HIDE DEF upTo
  <2> QED BY <2>7
<1>4. Cardinality(S) \in F
  <2> HIDE DEF F
  <2> QED BY <1>1, <1>2, <1>3, InductionNat
<1>5. upTo(Cardinality(S)) = SUBSET S
  BY <1>1
<1>6. PICK g : g = [s \in upTo(Cardinality(S)) |-> SumStep(g, f, s)]
  BY <1>4
<1> QED BY <1>5, <1>6 DEF IsSummation

LEMMA SummationOf ==
    ASSUME NEW f, NEW S, IsFiniteSet(S), NEW g, IsSummation(g, f, S), NEW T \in SUBSET S
    PROVE  SumFunctionOnSet(f, T) = g[T]
<1> DEFINE h == CHOOSE k : IsSummation(k, f, T)
           F == {s \in SUBSET T : h[s] = g[s]}
<1>1. IsFiniteSet(T)
  BY FS_Subset
<1>2. IsSummation(h, f, T)
  BY <1>1, SummationExists
<1> HIDE DEF h
<1>3. ASSUME NEW s \in SUBSET T, \A x \in s : s \ {x} \in F PROVE s \in F
  <2>1. s # {} => Picked(s) \in s
    BY DEF Picked
  <2>2. h[s] = SumStep(h, f, s) /\ g[s] = SumStep(g, f, s)
    BY <1>2 DEF IsSummation
  <2> QED BY <1>3, <2>1, <2>2 DEF SumStep
<1>4. T \in F
  <2> HIDE DEF F
  <2> QED BY <1>1, <1>3, InductionSubsets
<1>5. SumFunctionOnSet(f, T) = h[T]
  BY SumIsChosen DEF h
<1> QED BY <1>4, <1>5

LEMMA SumOfEmpty == \A f : SumFunctionOnSet(f, {}) = 0
<1> SUFFICES ASSUME NEW f PROVE SumFunctionOnSet(f, {}) = 0
  OBVIOUS
<1>1. PICK g : IsSummation(g, f, {})
  BY SummationExists, FS_EmptySet
<1>2. SumFunctionOnSet(f, {}) = g[{}]
  BY <1>1, SummationOf, FS_EmptySet
<1>3. g[{}] = SumStep(g, f, {})
  BY <1>1 DEF IsSummation
<1> QED BY <1>2, <1>3 DEF SumStep

LEMMA SumPicked ==
    ASSUME NEW f, NEW S, IsFiniteSet(S), S # {}
    PROVE  /\ Picked(S) \in S
           /\ SumFunctionOnSet(f, S) = f[Picked(S)] + SumFunctionOnSet(f, S \ {Picked(S)})
<1>1. PICK g : IsSummation(g, f, S)
  BY SummationExists
<1>2. SumFunctionOnSet(f, S) = g[S] /\ SumFunctionOnSet(f, S \ {Picked(S)}) = g[S \ {Picked(S)}]
  <2>1. S \in SUBSET S /\ S \ {Picked(S)} \in SUBSET S
    OBVIOUS
  <2> QED BY <1>1, <2>1, SummationOf
<1>3. g[S] = SumStep(g, f, S)
  BY <1>1 DEF IsSummation
<1> QED BY <1>2, <1>3 DEF SumStep, Picked

-----------------------------------------------------------------------------
(* What a sum is of, and of how much.                                      *)

LEMMA SumIsInt ==
    ASSUME NEW S, IsFiniteSet(S), NEW f, \A x \in S : f[x] \in Int
    PROVE  \A T \in SUBSET S : SumFunctionOnSet(f, T) \in Int
<1> DEFINE F == {T \in SUBSET S : SumFunctionOnSet(f, T) \in Int}
<1>1. ASSUME NEW T \in SUBSET S, \A x \in T : T \ {x} \in F PROVE T \in F
  <2>1. CASE T = {}
    BY <2>1, SumOfEmpty
  <2>2. CASE T # {}
    <3>1. IsFiniteSet(T)
      BY FS_Subset
    <3>2. Picked(T) \in T /\ SumFunctionOnSet(f, T) = f[Picked(T)] + SumFunctionOnSet(f, T \ {Picked(T)})
      BY <2>2, <3>1, SumPicked
    <3>3. SumFunctionOnSet(f, T \ {Picked(T)}) \in Int
      BY <1>1, <3>2
    <3> QED BY <3>2, <3>3
  <2> QED BY <2>1, <2>2
<1>2. \A T \in SUBSET S : T \in F
  <2> HIDE DEF F
  <2> QED BY <1>1, InductionSubsets
<1> QED BY <1>2

\* Any element can be taken out first.
LEMMA SumTakeOut ==
    ASSUME NEW S, IsFiniteSet(S), NEW f, \A x \in S : f[x] \in Int, NEW x \in S
    PROVE  SumFunctionOnSet(f, S) = f[x] + SumFunctionOnSet(f, S \ {x})
<1> DEFINE F == {T \in SUBSET S : \A y \in T : SumFunctionOnSet(f, T) = f[y] + SumFunctionOnSet(f, T \ {y})}
<1>1. ASSUME NEW T \in SUBSET S, \A y \in T : T \ {y} \in F PROVE T \in F
  <2> SUFFICES ASSUME NEW y \in T PROVE SumFunctionOnSet(f, T) = f[y] + SumFunctionOnSet(f, T \ {y})
    OBVIOUS
  <2>1. PICK z : z = Picked(T)
    OBVIOUS
  <2>2. z \in T /\ SumFunctionOnSet(f, T) = f[z] + SumFunctionOnSet(f, T \ {z})
    BY <2>1, SumPicked, FS_Subset
  <2>3. CASE y = z
    BY <2>2, <2>3
  <2>4. CASE y # z
    <3>1. (T \ {z}) \ {y} = (T \ {y}) \ {z}
      OBVIOUS
    <3>2. SumFunctionOnSet(f, T \ {z}) = f[y] + SumFunctionOnSet(f, (T \ {y}) \ {z})
      BY <1>1, <2>2, <2>4, <3>1
    <3>3. SumFunctionOnSet(f, T \ {y}) = f[z] + SumFunctionOnSet(f, (T \ {y}) \ {z})
      BY <1>1, <2>2, <2>4
    <3>4. SumFunctionOnSet(f, (T \ {y}) \ {z}) \in Int /\ f[y] \in Int /\ f[z] \in Int
      BY <2>2, SumIsInt
    <3> QED BY <2>2, <3>2, <3>3, <3>4
  <2> QED BY <2>3, <2>4
<1>2. \A T \in SUBSET S : T \in F
  <2> HIDE DEF F
  <2> QED BY <1>1, InductionSubsets
<1> QED BY <1>2

\* Functions of which one is nowhere above the other.
LEMMA SumMonotone ==
    ASSUME NEW S, IsFiniteSet(S), NEW f, NEW g,
           \A x \in S : f[x] \in Int /\ g[x] \in Int /\ f[x] <= g[x]
    PROVE  SumFunctionOnSet(f, S) <= SumFunctionOnSet(g, S)
<1> DEFINE F == {T \in SUBSET S : SumFunctionOnSet(f, T) <= SumFunctionOnSet(g, T)}
<1>1. ASSUME NEW T \in SUBSET S, \A x \in T : T \ {x} \in F PROVE T \in F
  <2>1. CASE T = {}
    BY <2>1, SumOfEmpty
  <2>2. CASE T # {}
    <3>1. PICK x \in T : TRUE
      BY <2>2
    <3>2. IsFiniteSet(T)
      BY FS_Subset
    <3>3. /\ SumFunctionOnSet(f, T) = f[x] + SumFunctionOnSet(f, T \ {x})
          /\ SumFunctionOnSet(g, T) = g[x] + SumFunctionOnSet(g, T \ {x})
      BY <3>2, SumTakeOut
    <3>4. SumFunctionOnSet(f, T \ {x}) \in Int /\ SumFunctionOnSet(g, T \ {x}) \in Int
      BY SumIsInt
    <3>5. SumFunctionOnSet(f, T \ {x}) <= SumFunctionOnSet(g, T \ {x})
      BY <1>1
    <3> QED BY <3>3, <3>4, <3>5
  <2> QED BY <2>1, <2>2
<1>2. \A T \in SUBSET S : T \in F
  <2> HIDE DEF F
  <2> QED BY <1>1, InductionSubsets
<1> QED BY <1>2

\* A sum looks at nothing but the values.
LEMMA SumSame ==
    ASSUME NEW S, IsFiniteSet(S), NEW f, NEW g, \A x \in S : f[x] = g[x]
    PROVE  SumFunctionOnSet(f, S) = SumFunctionOnSet(g, S)
<1> DEFINE F == {T \in SUBSET S : SumFunctionOnSet(f, T) = SumFunctionOnSet(g, T)}
<1>1. ASSUME NEW T \in SUBSET S, \A x \in T : T \ {x} \in F PROVE T \in F
  <2>1. CASE T = {}
    BY <2>1, SumOfEmpty
  <2>2. CASE T # {}
    <3>1. IsFiniteSet(T)
      BY FS_Subset
    <3>2. Picked(T) \in T /\ SumFunctionOnSet(f, T) = f[Picked(T)] + SumFunctionOnSet(f, T \ {Picked(T)})
      BY <2>2, <3>1, SumPicked
    <3>3. SumFunctionOnSet(g, T) = g[Picked(T)] + SumFunctionOnSet(g, T \ {Picked(T)})
      BY <2>2, <3>1, SumPicked
    <3>4. SumFunctionOnSet(f, T \ {Picked(T)}) = SumFunctionOnSet(g, T \ {Picked(T)})
      BY <1>1, <3>2
    <3> QED BY <3>2, <3>3, <3>4
  <2> QED BY <2>1, <2>2
<1>2. \A T \in SUBSET S : T \in F
  <2> HIDE DEF F
  <2> QED BY <1>1, InductionSubsets
<1> QED BY <1>2

\* One value is changed.
LEMMA SumChanged ==
    ASSUME NEW S, IsFiniteSet(S), NEW f, NEW g, NEW x \in S,
           \A y \in S : f[y] \in Int /\ g[y] \in Int, \A y \in S \ {x} : f[y] = g[y]
    PROVE  SumFunctionOnSet(g, S) = SumFunctionOnSet(f, S) + (g[x] - f[x])
<1>1. /\ SumFunctionOnSet(f, S) = f[x] + SumFunctionOnSet(f, S \ {x})
      /\ SumFunctionOnSet(g, S) = g[x] + SumFunctionOnSet(g, S \ {x})
  BY SumTakeOut
<1>2. SumFunctionOnSet(f, S \ {x}) = SumFunctionOnSet(g, S \ {x})
  <2>1. IsFiniteSet(S \ {x})
    BY FS_Subset
  <2> QED BY <2>1, SumSame
<1>3. SumFunctionOnSet(f, S \ {x}) \in Int /\ SumFunctionOnSet(g, S \ {x}) \in Int
  BY SumIsInt
<1> QED BY <1>1, <1>2, <1>3

\* Sums of values that are sums of two.
LEMMA SumAdded ==
    ASSUME NEW S, IsFiniteSet(S), NEW f, NEW g, NEW h,
           \A x \in S : f[x] \in Int /\ g[x] \in Int /\ h[x] = f[x] + g[x]
    PROVE  SumFunctionOnSet(h, S) = SumFunctionOnSet(f, S) + SumFunctionOnSet(g, S)
<1> DEFINE F == {T \in SUBSET S : SumFunctionOnSet(h, T) = SumFunctionOnSet(f, T) + SumFunctionOnSet(g, T)}
<1>1. ASSUME NEW T \in SUBSET S, \A x \in T : T \ {x} \in F PROVE T \in F
  <2>1. CASE T = {}
    BY <2>1, SumOfEmpty
  <2>2. CASE T # {}
    <3>1. PICK x \in T : TRUE
      BY <2>2
    <3>2. IsFiniteSet(T) /\ \A y \in S : h[y] \in Int
      BY FS_Subset
    <3>3. /\ SumFunctionOnSet(f, T) = f[x] + SumFunctionOnSet(f, T \ {x})
          /\ SumFunctionOnSet(g, T) = g[x] + SumFunctionOnSet(g, T \ {x})
          /\ SumFunctionOnSet(h, T) = h[x] + SumFunctionOnSet(h, T \ {x})
      BY <3>2, SumTakeOut
    <3>4. /\ SumFunctionOnSet(f, T \ {x}) \in Int /\ SumFunctionOnSet(g, T \ {x}) \in Int
      BY SumIsInt
    <3>5. SumFunctionOnSet(h, T \ {x}) = SumFunctionOnSet(f, T \ {x}) + SumFunctionOnSet(g, T \ {x})
      BY <1>1
    <3> QED BY <3>3, <3>4, <3>5
  <2> QED BY <2>1, <2>2
<1>2. \A T \in SUBSET S : T \in F
  <2> HIDE DEF F
  <2> QED BY <1>1, InductionSubsets
<1> QED BY <1>2

\* A sum of one value everywhere.
LEMMA SumConstant ==
    ASSUME NEW S, IsFiniteSet(S), NEW f, NEW c \in Int, \A x \in S : f[x] = c
    PROVE  SumFunctionOnSet(f, S) = c * Cardinality(S)
<1> DEFINE F == {T \in SUBSET S : SumFunctionOnSet(f, T) = c * Cardinality(T)}
<1>1. ASSUME NEW T \in SUBSET S, \A x \in T : T \ {x} \in F PROVE T \in F
  <2>1. CASE T = {}
    BY <2>1, SumOfEmpty, FS_EmptySet
  <2>2. CASE T # {}
    <3>1. PICK x \in T : TRUE
      BY <2>2
    <3>2. IsFiniteSet(T) /\ Cardinality(T) \in Nat
      BY FS_Subset, FS_CardinalityType
    <3>3. SumFunctionOnSet(f, T) = c + SumFunctionOnSet(f, T \ {x})
      BY <3>2, SumTakeOut
    <3>4. Cardinality(T \ {x}) = Cardinality(T) - 1
      BY <3>1, <3>2, FS_RemoveElement
    <3>5. SumFunctionOnSet(f, T \ {x}) = c * Cardinality(T \ {x})
      BY <1>1
    <3>6. c + c * (Cardinality(T) - 1) = c * Cardinality(T)
      BY <3>2
    <3> QED BY <3>3, <3>4, <3>5, <3>6
  <2> QED BY <2>1, <2>2
<1>2. \A T \in SUBSET S : T \in F
  <2> HIDE DEF F
  <2> QED BY <1>1, InductionSubsets
<1> QED BY <1>2

\* A sum is the sum over a part and that over the rest.
LEMMA SumSplit ==
    ASSUME NEW S, IsFiniteSet(S), NEW f, \A x \in S : f[x] \in Int, NEW A \in SUBSET S
    PROVE  SumFunctionOnSet(f, S) = SumFunctionOnSet(f, A) + SumFunctionOnSet(f, S \ A)
<1> DEFINE rest == S \ A
           F == {T \in SUBSET rest : SumFunctionOnSet(f, A \union T) = SumFunctionOnSet(f, A) + SumFunctionOnSet(f, T)}
<1>0. IsFiniteSet(rest) /\ SumFunctionOnSet(f, A) \in Int
  BY FS_Subset, SumIsInt
<1>1. ASSUME NEW T \in SUBSET rest, \A x \in T : T \ {x} \in F PROVE T \in F
  <2>1. CASE T = {}
    <3>1. SumFunctionOnSet(f, T) = 0
      BY <2>1, SumOfEmpty
    <3>2. A \union T = A
      BY <2>1
    <3>3. SumFunctionOnSet(f, A \union T) = SumFunctionOnSet(f, A)
      BY <3>2
    <3>4. SumFunctionOnSet(f, A \union T) = SumFunctionOnSet(f, A) + SumFunctionOnSet(f, T)
      BY <1>0, <3>1, <3>3
    <3> QED BY <3>4
  <2>2. CASE T # {}
    <3>1. PICK x \in T : TRUE
      BY <2>2
    <3>2. /\ A \union T \in SUBSET S /\ T \in SUBSET S /\ x \in A \union T
          /\ (A \union T) \ {x} = A \union (T \ {x}) /\ T \ {x} \in SUBSET S
      OBVIOUS
    <3>3. IsFiniteSet(A \union T) /\ IsFiniteSet(T)
      BY <3>2, FS_Subset
    <3>4. SumFunctionOnSet(f, A \union T) = f[x] + SumFunctionOnSet(f, A \union (T \ {x}))
      BY <3>2, <3>3, SumTakeOut
    <3>5. SumFunctionOnSet(f, T) = f[x] + SumFunctionOnSet(f, T \ {x})
      BY <3>2, <3>3, SumTakeOut
    <3>6. SumFunctionOnSet(f, A \union (T \ {x})) = SumFunctionOnSet(f, A) + SumFunctionOnSet(f, T \ {x})
      BY <1>1, <3>1
    <3>7. SumFunctionOnSet(f, T \ {x}) \in Int /\ f[x] \in Int
      BY <3>2, SumIsInt
    <3> QED BY <1>0, <3>4, <3>5, <3>6, <3>7
  <2> QED BY <2>1, <2>2
<1> HIDE DEF F
<1>2. \A T \in SUBSET rest : T \in F
  BY <1>0, <1>1, InductionSubsets
<1>3. rest \in F /\ A \union rest = S
  BY <1>2
<1> QED BY <1>3 DEF F

\* A part of values that are not negative adds up to no more than all of them.
LEMMA SumOfPart ==
    ASSUME NEW S, IsFiniteSet(S), NEW f, \A x \in S : f[x] \in Nat, NEW A \in SUBSET S
    PROVE  /\ SumFunctionOnSet(f, A) \in Nat /\ SumFunctionOnSet(f, S) \in Nat
           /\ SumFunctionOnSet(f, A) <= SumFunctionOnSet(f, S)
<1>1. \A T \in SUBSET S : SumFunctionOnSet(f, T) \in Nat
  <2> SUFFICES ASSUME NEW T \in SUBSET S PROVE SumFunctionOnSet(f, T) \in Nat
    OBVIOUS
  <2> DEFINE z == [x \in S |-> 0]
  <2>1. IsFiniteSet(T) /\ Cardinality(T) \in Nat
    BY FS_Subset, FS_CardinalityType
  <2>2. SumFunctionOnSet(z, T) = 0 * Cardinality(T)
    <3>1. \A x \in T : z[x] = 0
      OBVIOUS
    <3> HIDE DEF z
    <3>2. 0 \in Int
      OBVIOUS
    <3> QED BY <2>1, <3>1, <3>2, SumConstant
  <2>3. SumFunctionOnSet(z, T) <= SumFunctionOnSet(f, T)
    <3>1. \A x \in T : z[x] \in Int /\ f[x] \in Int /\ z[x] <= f[x]
      OBVIOUS
    <3> HIDE DEF z
    <3> QED BY <2>1, <3>1, SumMonotone
  <2>4. SumFunctionOnSet(f, T) \in Int
    BY SumIsInt
  <2> QED BY <2>1, <2>2, <2>3, <2>4
<1>2. SumFunctionOnSet(f, S) = SumFunctionOnSet(f, A) + SumFunctionOnSet(f, S \ A)
  BY SumSplit
<1>3. S \ A \in SUBSET S /\ S \in SUBSET S
  OBVIOUS
<1> QED BY <1>1, <1>2, <1>3

\* A sum over the values a one-to-one function takes.
LEMMA SumImage ==
    ASSUME NEW S, IsFiniteSet(S), NEW f, NEW g, NEW p,
           \A x \in S : f[x] \in Int /\ g[p[x]] = f[x],
           \A x, y \in S : p[x] = p[y] => x = y
    PROVE  /\ IsFiniteSet({p[x] : x \in S})
           /\ SumFunctionOnSet(g, {p[x] : x \in S}) = SumFunctionOnSet(f, S)
<1> DEFINE image(T) == {p[x] : x \in T}
           F == {T \in SUBSET S : IsFiniteSet(image(T)) /\ SumFunctionOnSet(g, image(T)) = SumFunctionOnSet(f, T)}
<1>1. ASSUME NEW T \in SUBSET S, \A x \in T : T \ {x} \in F PROVE T \in F
  <2>1. CASE T = {}
    <3>1. image(T) = {}
      BY <2>1
    <3> QED BY <2>1, <3>1, FS_EmptySet, SumOfEmpty
  <2>2. CASE T # {}
    <3>1. PICK x \in T : TRUE
      BY <2>2
    <3>2. PICK whole, rest : whole = image(T) /\ rest = image(T \ {x})
      OBVIOUS
    <3>3. whole = rest \union {p[x]} /\ p[x] \in whole /\ whole \ {p[x]} = rest
      BY <3>1, <3>2
    <3>4. IsFiniteSet(rest) /\ SumFunctionOnSet(g, rest) = SumFunctionOnSet(f, T \ {x})
      BY <1>1, <3>1, <3>2
    <3>5. \A y \in whole : g[y] \in Int
      BY <3>2
    <3>6. IsFiniteSet(whole)
      BY <3>3, <3>4, FS_AddElement
    <3>7. SumFunctionOnSet(g, whole) = g[p[x]] + SumFunctionOnSet(g, rest)
      BY <3>3, <3>5, <3>6, SumTakeOut
    <3>8. IsFiniteSet(T)
      BY FS_Subset
    <3>9. SumFunctionOnSet(f, T) = f[x] + SumFunctionOnSet(f, T \ {x})
      BY <3>8, SumTakeOut
    <3>10. g[p[x]] = f[x]
      OBVIOUS
    <3>11. SumFunctionOnSet(g, whole) = SumFunctionOnSet(f, T)
      BY <3>4, <3>7, <3>9, <3>10
    <3> QED BY <3>2, <3>6, <3>11
  <2> QED BY <2>1, <2>2
<1> HIDE DEF F
<1>2. \A T \in SUBSET S : T \in F
  BY <1>1, InductionSubsets
<1>3. S \in F
  BY <1>2
<1> QED BY <1>3 DEF F

\* The family f of integers over S, moved to g over T by the one-to-one function p, with
\* nothing elsewhere.
IsMoved(f, S, g, T, p) ==
    /\ \A x \in S : p[x] \in T /\ f[x] \in Int /\ g[p[x]] = f[x]
    /\ \A x, y \in S : p[x] = p[y] => x = y
    /\ \A y \in T : (\A x \in S : p[x] # y) => g[y] = 0

\* Moving values keeps their sum.
LEMMA SumMoved ==
    ASSUME NEW S, IsFiniteSet(S), NEW T, IsFiniteSet(T), NEW f, NEW g, NEW p, IsMoved(f, S, g, T, p)
    PROVE  SumFunctionOnSet(g, T) = SumFunctionOnSet(f, S)
<1>0. /\ \A x \in S : p[x] \in T /\ f[x] \in Int /\ g[p[x]] = f[x]
      /\ \A x, y \in S : p[x] = p[y] => x = y
      /\ \A y \in T : (\A x \in S : p[x] # y) => g[y] = 0
  BY DEF IsMoved
<1> DEFINE image == {p[x] : x \in S}
<1>1. IsFiniteSet(image) /\ SumFunctionOnSet(g, image) = SumFunctionOnSet(f, S)
  BY <1>0, SumImage
<1>2. image \in SUBSET T /\ \A y \in T : g[y] \in Int
  BY <1>0
<1>3. \A y \in T \ image : g[y] = 0
  BY <1>0
<1> HIDE DEF image
<1>4. SumFunctionOnSet(g, T) = SumFunctionOnSet(g, image) + SumFunctionOnSet(g, T \ image)
  BY <1>2, SumSplit
<1>5. IsFiniteSet(T \ image) /\ Cardinality(T \ image) \in Nat
  BY FS_Subset, FS_CardinalityType
<1>6. SumFunctionOnSet(g, T \ image) = 0 * Cardinality(T \ image)
  BY <1>3, <1>5, SumConstant
<1>7. SumFunctionOnSet(f, S) \in Int
  BY <1>0, SumIsInt
<1> QED BY <1>1, <1>4, <1>5, <1>6, <1>7

\* Finitely many finite sets make a finite set.
LEMMA FiniteUnion ==
    ASSUME NEW S, IsFiniteSet(S), NEW f, \A x \in S : IsFiniteSet(f[x])
    PROVE  IsFiniteSet(UNION {f[x] : x \in S})
<1> DEFINE all(T) == UNION {f[x] : x \in T}
           F == {T \in SUBSET S : IsFiniteSet(all(T))}
<1>1. ASSUME NEW T \in SUBSET S, \A x \in T : T \ {x} \in F PROVE T \in F
  <2>1. CASE T = {}
    <3>1. all(T) = {}
      BY <2>1
    <3> QED BY <3>1, FS_EmptySet
  <2>2. CASE T # {}
    <3>1. PICK x \in T : TRUE
      BY <2>2
    <3>2. all(T) = all(T \ {x}) \union f[x]
      BY <3>1
    <3>3. IsFiniteSet(all(T \ {x})) /\ IsFiniteSet(f[x])
      BY <1>1, <3>1
    <3> HIDE DEF all
    <3>4. IsFiniteSet(all(T))
      BY <3>2, <3>3, FS_Union
    <3> QED BY <3>4
  <2> QED BY <2>1, <2>2
<1> HIDE DEF F
<1>2. \A T \in SUBSET S : T \in F
  BY <1>1, InductionSubsets
<1>3. S \in F
  BY <1>2
<1> QED BY <1>3 DEF F


-----------------------------------------------------------------------------
(* Numbers of elements.                                                    *)

LEMMA ImageSize ==
    ASSUME NEW S, IsFiniteSet(S), NEW f
    PROVE  /\ IsFiniteSet({f[x] : x \in S})
           /\ Cardinality({f[x] : x \in S}) <= Cardinality(S)
<1> DEFINE image == {f[x] : x \in S}
           g == [x \in S |-> f[x]]
<1>1. g \in Surjection(S, image)
  BY DEF Surjection
<1> HIDE DEF g, image
<1>2. IsFiniteSet(image) /\ Cardinality(image) <= Cardinality(S)
  BY <1>1, FS_Surjection
<1> QED BY <1>2 DEF image

\* The function f takes each of S to one of T of its own.
OneToOne(f, S, T) == (\A x \in S : f[x] \in T) /\ \A x, y \in S : f[x] = f[y] => x = y

LEMMA OneToOneSize ==
    ASSUME NEW S, NEW T, IsFiniteSet(T), NEW f, OneToOne(f, S, T)
    PROVE  /\ IsFiniteSet(S) /\ Cardinality(S) <= Cardinality(T)
           /\ Cardinality(S) = Cardinality(T) => \A y \in T : \E x \in S : f[x] = y
<1> DEFINE g == [x \in S |-> f[x]]
<1>1. g \in Injection(S, T)
  BY DEF Injection, IsInjective, OneToOne
<1>2. IsFiniteSet(S) /\ Cardinality(S) <= Cardinality(T) /\ (Cardinality(S) = Cardinality(T) => g \in Surjection(S, T))
  <2> HIDE DEF g
  <2> QED BY <1>1, FS_Injection
<1>3. g \in Surjection(S, T) => \A y \in T : \E x \in S : f[x] = y
  BY DEF Surjection
<1> QED BY <1>2, <1>3

\* Between sets of one size it leaves none of them out.
LEMMA OneToOneOnto ==
    ASSUME NEW S, NEW T, IsFiniteSet(T), NEW f, OneToOne(f, S, T), Cardinality(S) = Cardinality(T)
    PROVE  \A y \in T : \E x \in S : f[x] = y
BY OneToOneSize

\* Each element of S has a kind k[x] in D, and w[d] are the elements of kind d.
CountsKinds(w, S, k, D) ==
    /\ \A x \in S : k[x] \in D
    /\ \A d \in D : w[d] = Cardinality({x \in S : k[x] = d})

\* The elements of each kind add up to all elements.
LEMMA SumOfKinds ==
    ASSUME NEW S, IsFiniteSet(S), NEW D, IsFiniteSet(D), NEW k, NEW w, CountsKinds(w, S, k, D)
    PROVE  SumFunctionOnSet(w, D) = Cardinality(S)
<1>0. (\A x \in S : k[x] \in D) /\ \A d \in D : w[d] = Cardinality({x \in S : k[x] = d})
  BY DEF CountsKinds
<1> DEFINE of(T) == [d \in D |-> Cardinality({x \in T : k[x] = d})]
           F == {T \in SUBSET S : SumFunctionOnSet(of(T), D) = Cardinality(T)}
<1>1. ASSUME NEW T \in SUBSET S, \A x \in T : T \ {x} \in F PROVE T \in F
  <2>1. CASE T = {}
    <3>1. PICK z \in Int : z = 0
      OBVIOUS
    <3>2. \A d \in D : of(T)[d] = z
      <4>1. \A d : {x \in T : k[x] = d} = {}
        BY <2>1
      <4> QED BY <3>1, <4>1, FS_EmptySet
    <3>3. PICK g : g = of(T)
      OBVIOUS
    <3>4. SumFunctionOnSet(g, D) = z * Cardinality(D)
      BY <3>2, <3>3, SumConstant
    <3>5. Cardinality(T) = 0 /\ Cardinality(D) \in Nat
      BY <2>1, FS_EmptySet, FS_CardinalityType
    <3> QED BY <3>1, <3>3, <3>4, <3>5
  <2>2. CASE T # {}
    <3>1. PICK x \in T : TRUE
      BY <2>2
    <3>2. PICK f, g : f = of(T \ {x}) /\ g = of(T)
      OBVIOUS
    <3>3. SumFunctionOnSet(f, D) = Cardinality(T \ {x})
      BY <1>1, <3>1, <3>2
    <3>4. IsFiniteSet(T) /\ IsFiniteSet(T \ {x}) /\ Cardinality(T) \in Nat /\ Cardinality(T \ {x}) = Cardinality(T) - 1
      BY <3>1, FS_Subset, FS_CardinalityType, FS_RemoveElement
    <3>5. ASSUME NEW d \in D PROVE f[d] \in Int /\ g[d] = f[d] + IF d = k[x] THEN 1 ELSE 0
      <4> DEFINE A == {y \in T \ {x} : k[y] = d}
                 B == {y \in T : k[y] = d}
      <4>1. f[d] = Cardinality(A) /\ g[d] = Cardinality(B)
        BY <3>2
      <4>2. IsFiniteSet(A) /\ Cardinality(A) \in Nat
        BY <3>4, FS_Subset, FS_CardinalityType
      <4>3. B = IF d = k[x] THEN A \union {x} ELSE A
        BY <3>1
      <4>4. x \notin A
        OBVIOUS
      <4> HIDE DEF A, B
      <4>5. Cardinality(A \union {x}) = Cardinality(A) + 1
        BY <4>2, <4>4, FS_AddElement
      <4> QED BY <4>1, <4>2, <4>3, <4>5
    <3>6. PICK e : e = k[x]
      OBVIOUS
    <3>7. /\ e \in D /\ (\A d \in D : f[d] \in Int /\ g[d] \in Int)
          /\ (\A d \in D \ {e} : f[d] = g[d]) /\ g[e] - f[e] = 1
      <4>1. e \in D /\ \A d \in D : f[d] \in Int /\ g[d] = f[d] + IF d = e THEN 1 ELSE 0
        BY <1>0, <3>1, <3>5, <3>6
      <4> QED BY <4>1
    <3>8. SumFunctionOnSet(g, D) = SumFunctionOnSet(f, D) + (g[e] - f[e])
      <4>1. /\ IsFiniteSet(D) /\ e \in D /\ (\A d \in D : f[d] \in Int /\ g[d] \in Int)
            /\ \A d \in D \ {e} : f[d] = g[d]
        BY <3>7
      <4> HIDE DEF F, of
      <4> QED BY <4>1, SumChanged
    <3>9. SumFunctionOnSet(g, D) = Cardinality(T)
      BY <3>3, <3>4, <3>7, <3>8
    <3> QED BY <3>2, <3>9
  <2> QED BY <2>1, <2>2
<1>2. \A T \in SUBSET S : T \in F
  <2> HIDE DEF F
  <2> QED BY <1>1, InductionSubsets
<1>3. SumFunctionOnSet(of(S), D) = Cardinality(S)
  <2>1. S \in F
    <3> HIDE DEF F
    <3> QED BY <1>2
  <2> QED BY <2>1
<1>4. PICK g : g = of(S)
  OBVIOUS
<1>5. \A d \in D : w[d] = g[d]
  BY <1>0, <1>4
<1>6. SumFunctionOnSet(w, D) = SumFunctionOnSet(g, D)
  BY <1>5, SumSame
<1> QED BY <1>3, <1>4, <1>6
=============================================================================
