----------------------------- MODULE DataLemmas -----------------------------
(***************************************************************************)
(* Facts about the data the models are built from, for any numbers, sets    *)
(* and functions: induction over a finite set, the order of a finite set of *)
(* numbers, sums.                                                          *)
(***************************************************************************)
EXTENDS Order, Sequences, Functions, FiniteSetTheorems, WellFoundedInduction, TLAPS

-----------------------------------------------------------------------------
\* Induction, for a set that is named: over the natural numbers, and over the
\* subsets of a finite set.

LEMMA NatSet ==
  ASSUME NEW S, 0 \in S, \A n \in Nat : n \in S => n + 1 \in S
  PROVE  Nat \subseteq S
<1>1. PICK T : T = {n \in Nat : n \notin S}
  OBVIOUS
<1>2. SUFFICES ASSUME T # {} PROVE FALSE
  BY <1>1, <1>2
<1>3. PICK R : R = OpToRel(<, Nat)
  OBVIOUS
<1>4. IsWellFoundedOn(R, Nat)
  BY <1>3, NatLessThanWellFounded, Zenon
<1>5. T \subseteq Nat
  BY <1>1
<1>6. PICK x \in T : \A y \in T : ~ (<<y, x>> \in R)
  BY <1>2, <1>4, <1>5, WFMin
<1>7. \A y \in T : ~ (y < x)
  BY <1>3, <1>5, <1>6, Zenon DEF OpToRel
<1>8. x \in Nat /\ x # 0 /\ x - 1 \in Nat /\ x - 1 < x
  BY <1>1, <1>5
<1>9. x - 1 \in S
  BY <1>1, <1>7, <1>8
<1>10. (x - 1) + 1 \in S
  BY <1>8, <1>9
<1> QED
  BY <1>1, <1>8, <1>10

LEMMA Least ==
  ASSUME NEW T \in SUBSET Nat, T # {}
  PROVE  \E x \in T : \A y \in T : x <= y
<1>1. PICK R : R = OpToRel(<, Nat)
  OBVIOUS
<1>2. IsWellFoundedOn(R, Nat)
  BY <1>1, NatLessThanWellFounded, Zenon
<1>3. PICK x \in T : \A y \in T : ~ (<<y, x>> \in R)
  BY <1>2, WFMin
<1>4. \A y \in T : ~ (y < x)
  BY <1>1, <1>3, Zenon DEF OpToRel
<1>5. \A y \in T : x <= y
  BY <1>4
<1> QED
  BY <1>5

LEMMA Removed ==
  ASSUME NEW S, IsFiniteSet(S), NEW x \in S, NEW n \in Nat, Cardinality(S) = n + 1
  PROVE  IsFiniteSet(S \ {x}) /\ Cardinality(S \ {x}) = n
<1>1. IsFiniteSet(S \ {x}) /\ Cardinality(S \ {x}) = Cardinality(S) - 1
  BY FS_RemoveElement
<1>2. PICK m : m = Cardinality(S \ {x})
  OBVIOUS
<1>3. m = (n + 1) - 1
  BY <1>1, <1>2
<1> QED
  BY <1>1, <1>2, <1>3

LEMMA Subsets ==
  ASSUME NEW S, IsFiniteSet(S), NEW C,
         \A T \in SUBSET S : (\A x \in T : T \ {x} \in C) => T \in C
  PROVE  SUBSET S \subseteq C
<1>1. PICK N : N = {n \in Nat : \A T \in SUBSET S : Cardinality(T) = n => T \in C}
  OBVIOUS
<1>2. \A T \in SUBSET S : IsFiniteSet(T) /\ Cardinality(T) \in Nat
  BY FS_Subset, FS_CardinalityType
<1>3. 0 \in N
  <2>1. \A T \in SUBSET S : Cardinality(T) = 0 => T = {}
    BY <1>2, FS_EmptySet
  <2>2. {} \in C
    OBVIOUS
  <2> QED
    BY <1>1, <2>1, <2>2
<1>4. ASSUME NEW n \in Nat, n \in N PROVE n + 1 \in N
  <2>1. ASSUME NEW T \in SUBSET S, Cardinality(T) = n + 1 PROVE T \in C
    <3>1. ASSUME NEW x \in T PROVE T \ {x} \in C
      <4>1. Cardinality(T \ {x}) = n /\ T \ {x} \in SUBSET S
        BY <1>2, <2>1, Removed
      <4> QED
        BY <1>1, <1>4, <4>1
    <3> QED
      BY <3>1
  <2> QED
    BY <1>1, <2>1
<1>5. Nat \subseteq N
  BY <1>3, <1>4, NatSet
<1> QED
  BY <1>1, <1>2, <1>5

-----------------------------------------------------------------------------
\* Sums.  SumFunctionOnSet(f, S) is a fold: the function that is its definition
\* exists, for a finite set, and says the same of a subset of it.

Chosen(s) == CHOOSE x \in s : TRUE
Summed(f, s, g) == IF s = {} THEN 0 ELSE f[Chosen(s)] + g[s \ {Chosen(s)}]
Summing(f, S, g) == g = [s \in SUBSET S |-> Summed(f, s, g)]

LEMMA SumIs ==
  ASSUME NEW f, NEW S
  PROVE  SumFunctionOnSet(f, S) = (CHOOSE g : Summing(f, S, g))[S]
BY DEF SumFunctionOnSet, FoldFunctionOnSet, MapThenFoldSet, Summing, Summed, Chosen

LEMMA ChosenIn == ASSUME NEW s, s # {} PROVE Chosen(s) \in s
BY DEF Chosen

LEMMA SumExists ==
  ASSUME NEW f, NEW S, IsFiniteSet(S)
  PROVE  \E g : Summing(f, S, g)
<1> DEFINE Upto(g, n) == /\ g = [s \in SUBSET S |-> g[s]]
                         /\ \A s \in SUBSET S : Cardinality(s) <= n => g[s] = Summed(f, s, g)
<1>1. PICK N : N = {n \in Nat : \E g : Upto(g, n)}
  OBVIOUS
<1>2. \A s \in SUBSET S : IsFiniteSet(s) /\ Cardinality(s) \in Nat
  BY FS_Subset, FS_CardinalityType
<1>3. 0 \in N
  <2>1. PICK g : g = [s \in SUBSET S |-> 0]
    OBVIOUS
  <2>2. g = [s \in SUBSET S |-> g[s]]
    BY <2>1
  <2>3. ASSUME NEW s \in SUBSET S, Cardinality(s) <= 0 PROVE g[s] = Summed(f, s, g)
    <3>1. s = {}
      BY <1>2, <2>3, FS_EmptySet
    <3> QED
      BY <2>1, <3>1 DEF Summed
  <2> QED
    BY <1>1, <2>2, <2>3
<1>4. ASSUME NEW n \in Nat, n \in N PROVE n + 1 \in N
  <2>1. PICK g : /\ g = [s \in SUBSET S |-> g[s]]
                 /\ \A s \in SUBSET S : Cardinality(s) <= n => g[s] = Summed(f, s, g)
    BY <1>1, <1>4
  <2>2. PICK h : h = [s \in SUBSET S |-> Summed(f, s, g)]
    OBVIOUS
  <2>3. h = [s \in SUBSET S |-> h[s]] /\ \A s \in SUBSET S : h[s] = Summed(f, s, g)
    BY <2>2
  <2>4. ASSUME NEW s \in SUBSET S, Cardinality(s) <= n + 1 PROVE h[s] = Summed(f, s, h)
    <3>1. CASE s = {}
      BY <2>3, <3>1 DEF Summed
    <3>2. CASE s # {}
      <4>1. PICK t : t = s \ {Chosen(s)}
        OBVIOUS
      <4>2. Chosen(s) \in s /\ t \in SUBSET S
        BY <3>2, <4>1, ChosenIn
      <4>3. Cardinality(t) <= n
        <5>1. Cardinality(t) = Cardinality(s) - 1
          BY <1>2, <4>1, <4>2, FS_RemoveElement
        <5>2. PICK m \in Nat : m = Cardinality(s)
          BY <1>2
        <5>3. m <= n + 1
          BY <2>4, <5>2
        <5>4. m - 1 <= n
          BY <5>3
        <5> QED
          BY <5>1, <5>2, <5>4
      <4>4. h[t] = g[t]
        BY <2>1, <2>3, <4>2, <4>3
      <4>5. h[s] = Summed(f, s, g)
        BY <2>3
      <4> QED
        BY <3>2, <4>1, <4>4, <4>5 DEF Summed
    <3> QED
      BY <3>1, <3>2
  <2>5. Upto(h, n + 1)
    BY <2>3, <2>4
  <2> HIDE DEF Upto
  <2> QED
    BY <1>1, <2>5
<1>5. Nat \subseteq N
  BY <1>3, <1>4, NatSet
<1>6. PICK n \in Nat : n = Cardinality(S)
  BY FS_CardinalityType
<1>7. n \in N
  BY <1>5
<1>8. PICK g : /\ g = [s \in SUBSET S |-> g[s]]
               /\ \A s \in SUBSET S : Cardinality(s) <= n => g[s] = Summed(f, s, g)
  BY <1>1, <1>7
<1>9. \A s \in SUBSET S : g[s] = Summed(f, s, g)
  <2>1. \A s \in SUBSET S : Cardinality(s) <= n
    BY <1>6, FS_Subset
  <2> QED
    BY <1>8, <2>1
<1>10. g = [s \in SUBSET S |-> Summed(f, s, g)]
  BY <1>8, <1>9
<1> QED
  BY <1>10 DEF Summing

LEMMA SumUnique ==
  ASSUME NEW f, NEW S, NEW T, NEW g, NEW h, Summing(f, S, g), Summing(f, T, h),
         T \subseteq S, IsFiniteSet(T)
  PROVE  g[T] = h[T]
<1>1. PICK C : C = {U \in SUBSET T : g[U] = h[U]}
  OBVIOUS
<1>2. \A s \in SUBSET T : g[s] = Summed(f, s, g) /\ h[s] = Summed(f, s, h)
  BY DEF Summing
<1>3. ASSUME NEW U \in SUBSET T, \A x \in U : U \ {x} \in C PROVE U \in C
  <2>1. CASE U = {}
    BY <1>1, <1>2, <2>1 DEF Summed
  <2>2. CASE U # {}
    <3>1. PICK V : V = U \ {Chosen(U)}
      OBVIOUS
    <3>2. g[V] = h[V]
      BY <1>1, <1>3, <2>2, <3>1, ChosenIn
    <3> QED
      BY <1>1, <1>2, <2>2, <3>1, <3>2 DEF Summed
  <2> QED
    BY <2>1, <2>2
<1>4. SUBSET T \subseteq C
  BY <1>3, Subsets
<1> QED
  BY <1>1, <1>4

\* The equation of the sum.
LEMMA SumStep ==
  ASSUME NEW f, NEW S, IsFiniteSet(S)
  PROVE  SumFunctionOnSet(f, S) =
           IF S = {} THEN 0 ELSE f[Chosen(S)] + SumFunctionOnSet(f, S \ {Chosen(S)})
<1>1. \A T : IsFiniteSet(T) => Summing(f, T, CHOOSE g : Summing(f, T, g))
  <2> SUFFICES ASSUME NEW T, IsFiniteSet(T) PROVE Summing(f, T, CHOOSE g : Summing(f, T, g))
    OBVIOUS
  <2>1. \E g : Summing(f, T, g)
    BY SumExists
  <2> QED
    BY <2>1
<1>2. PICK g : g = (CHOOSE h : Summing(f, S, h))
  OBVIOUS
<1>3. Summing(f, S, g) /\ SumFunctionOnSet(f, S) = g[S]
  BY <1>1, <1>2, SumIs
<1>4. g[S] = Summed(f, S, g)
  BY <1>3 DEF Summing
<1>5. CASE S = {}
  BY <1>3, <1>4, <1>5 DEF Summed
<1>6. CASE S # {}
  <2>1. PICK T : T = S \ {Chosen(S)}
    OBVIOUS
  <2>2. T \subseteq S /\ IsFiniteSet(T)
    BY <2>1, FS_Subset
  <2>3. PICK h : h = (CHOOSE k : Summing(f, T, k))
    OBVIOUS
  <2>4. Summing(f, T, h) /\ SumFunctionOnSet(f, T) = h[T]
    BY <1>1, <2>2, <2>3, SumIs
  <2>5. g[T] = h[T]
    BY <1>3, <2>2, <2>4, SumUnique
  <2> QED
    BY <1>3, <1>4, <1>6, <2>1, <2>4, <2>5 DEF Summed
<1> QED
  BY <1>5, <1>6

IntOn(f, S) == \A x \in S : f[x] \in Int

LEMMA SumEmpty == ASSUME NEW f PROVE SumFunctionOnSet(f, {}) = 0
BY SumStep, FS_EmptySet

LEMMA SumInt ==
  ASSUME NEW f, NEW S, IsFiniteSet(S), IntOn(f, S)
  PROVE  \A U \in SUBSET S : SumFunctionOnSet(f, U) \in Int
<1>1. PICK C : C = {U \in SUBSET S : SumFunctionOnSet(f, U) \in Int}
  OBVIOUS
<1>2. ASSUME NEW U \in SUBSET S, \A x \in U : U \ {x} \in C PROVE U \in C
  <2>1. CASE U = {}
    BY <1>1, <2>1, SumEmpty
  <2>2. CASE U # {}
    <3>1. Chosen(U) \in U /\ IsFiniteSet(U)
      BY <2>2, ChosenIn, FS_Subset
    <3>2. f[Chosen(U)] \in Int /\ SumFunctionOnSet(f, U \ {Chosen(U)}) \in Int
      BY <1>1, <1>2, <3>1 DEF IntOn
    <3>3. SumFunctionOnSet(f, U) = f[Chosen(U)] + SumFunctionOnSet(f, U \ {Chosen(U)})
      BY <2>2, <3>1, SumStep
    <3> QED
      BY <1>1, <3>2, <3>3
  <2> QED
    BY <2>1, <2>2
<1>3. SUBSET S \subseteq C
  BY <1>2, Subsets
<1> QED
  BY <1>1, <1>3

\* Any element may be taken out first.
LEMMA SumAny ==
  ASSUME NEW f, NEW S, IsFiniteSet(S), IntOn(f, S)
  PROVE  \A x \in S : SumFunctionOnSet(f, S) = f[x] + SumFunctionOnSet(f, S \ {x})
<1> DEFINE Right(U) == \A x \in U : SumFunctionOnSet(f, U) = f[x] + SumFunctionOnSet(f, U \ {x})
<1>1. PICK C : C = {U \in SUBSET S : Right(U)}
  OBVIOUS
<1>2. ASSUME NEW U \in SUBSET S, \A x \in U : U \ {x} \in C, NEW x \in U
      PROVE  SumFunctionOnSet(f, U) = f[x] + SumFunctionOnSet(f, U \ {x})
  <2>1. PICK c : c = Chosen(U)
    OBVIOUS
  <2>2. c \in U /\ IsFiniteSet(U)
    BY <2>1, ChosenIn, FS_Subset
  <2>3. SumFunctionOnSet(f, U) = f[c] + SumFunctionOnSet(f, U \ {c})
    BY <2>1, <2>2, SumStep
  <2>4. CASE x = c
    BY <2>3, <2>4
  <2>5. CASE x # c
    <3>1. PICK V : V = (U \ {c}) \ {x}
      OBVIOUS
    <3>2. V = (U \ {x}) \ {c}
      BY <3>1
    <3>3. PICK a : a = SumFunctionOnSet(f, V)
      OBVIOUS
    <3>4. SumFunctionOnSet(f, U \ {c}) = f[x] + a
      BY <1>1, <1>2, <2>2, <2>5, <3>1, <3>3
    <3>5. SumFunctionOnSet(f, U \ {x}) = f[c] + a
      BY <1>1, <1>2, <2>2, <2>5, <3>2, <3>3
    <3>6. a \in Int /\ f[x] \in Int /\ f[c] \in Int
      <4>1. V \in SUBSET S
        BY <3>1
      <4> QED
        BY <2>2, <3>3, <4>1, SumInt DEF IntOn
    <3> QED
      BY <2>3, <3>4, <3>5, <3>6
  <2> QED
    BY <2>4, <2>5
<1>3. \A U \in SUBSET S : (\A x \in U : U \ {x} \in C) => U \in C
  BY <1>1, <1>2
<1>4. SUBSET S \subseteq C
  BY <1>3, Subsets
<1> QED
  BY <1>1, <1>4

\* Only the values count.
LEMMA SumSame ==
  ASSUME NEW f, NEW g, NEW S, IsFiniteSet(S), \A x \in S : f[x] = g[x]
  PROVE  SumFunctionOnSet(f, S) = SumFunctionOnSet(g, S)
<1>1. PICK C : C = {U \in SUBSET S : SumFunctionOnSet(f, U) = SumFunctionOnSet(g, U)}
  OBVIOUS
<1>2. ASSUME NEW U \in SUBSET S, \A x \in U : U \ {x} \in C PROVE U \in C
  <2>1. IsFiniteSet(U)
    BY FS_Subset
  <2>2. CASE U = {}
    BY <1>1, <2>2, SumEmpty
  <2>3. CASE U # {}
    <3>1. Chosen(U) \in U
      BY <2>3, ChosenIn
    <3>2. SumFunctionOnSet(f, U) = f[Chosen(U)] + SumFunctionOnSet(f, U \ {Chosen(U)})
      BY <2>1, <2>3, SumStep
    <3>3. SumFunctionOnSet(g, U) = g[Chosen(U)] + SumFunctionOnSet(g, U \ {Chosen(U)})
      BY <2>1, <2>3, SumStep
    <3> QED
      BY <1>1, <1>2, <3>1, <3>2, <3>3
  <2> QED
    BY <2>2, <2>3
<1>3. SUBSET S \subseteq C
  BY <1>2, Subsets
<1> QED
  BY <1>1, <1>3

\* The parts of a division add up to it.
LEMMA SumParts ==
  ASSUME NEW f, NEW S, NEW T, IsFiniteSet(S), IsFiniteSet(T), S \cap T = {}, IntOn(f, S), IntOn(f, T)
  PROVE  SumFunctionOnSet(f, S \cup T) = SumFunctionOnSet(f, S) + SumFunctionOnSet(f, T)
<1>1. PICK C : C = {U \in SUBSET T :
        SumFunctionOnSet(f, S \cup U) = SumFunctionOnSet(f, S) + SumFunctionOnSet(f, U)}
  OBVIOUS
<1>2. ASSUME NEW U \in SUBSET T, \A x \in U : U \ {x} \in C PROVE U \in C
  <2>1. IsFiniteSet(U) /\ IsFiniteSet(S \cup U) /\ IntOn(f, U) /\ IntOn(f, S \cup U)
    BY FS_Subset, FS_Union DEF IntOn
  <2>2. CASE U = {}
    <3>1. S \cup U = S
      BY <2>2
    <3>2. SumFunctionOnSet(f, S) \in Int
      BY SumInt
    <3> QED
      BY <1>1, <2>2, <3>1, <3>2, SumEmpty
  <2>3. CASE U # {}
    <3>1. PICK x \in U : TRUE
      BY <2>3
    <3>2. (S \cup U) \ {x} = S \cup (U \ {x})
      BY <3>1
    <3>3. PICK a : a = SumFunctionOnSet(f, S \cup (U \ {x}))
      OBVIOUS
    <3>4. PICK b : b = SumFunctionOnSet(f, U \ {x})
      OBVIOUS
    <3>5. PICK c : c = SumFunctionOnSet(f, S)
      OBVIOUS
    <3>6. a = c + b
      BY <1>1, <1>2, <3>3, <3>4, <3>5
    <3>7. SumFunctionOnSet(f, S \cup U) = f[x] + a
      BY <2>1, <3>1, <3>2, <3>3, SumAny
    <3>8. SumFunctionOnSet(f, U) = f[x] + b
      BY <2>1, <3>1, <3>4, SumAny
    <3>9. f[x] \in Int /\ b \in Int /\ c \in Int
      BY <2>1, <3>4, <3>5, SumInt DEF IntOn
    <3>10. SumFunctionOnSet(f, S \cup U) = c + SumFunctionOnSet(f, U)
      BY <3>6, <3>7, <3>8, <3>9
    <3> QED
      BY <1>1, <3>5, <3>10
  <2> QED
    BY <2>2, <2>3
<1>3. SUBSET T \subseteq C
  BY <1>2, Subsets
<1> QED
  BY <1>1, <1>3

NatOn(f, S) == \A x \in S : f[x] \in Nat

\* No part is more than the whole.
LEMMA SumNat ==
  ASSUME NEW f, NEW S, IsFiniteSet(S), NatOn(f, S)
  PROVE  /\ SumFunctionOnSet(f, S) \in Nat
         /\ \A x \in S : f[x] <= SumFunctionOnSet(f, S)
<1>1. PICK C : C = {U \in SUBSET S : SumFunctionOnSet(f, U) \in Nat}
  OBVIOUS
<1>2. IntOn(f, S) /\ \A U \in SUBSET S : IsFiniteSet(U) /\ IntOn(f, U)
  BY FS_Subset DEF IntOn, NatOn
<1>3. ASSUME NEW U \in SUBSET S, \A x \in U : U \ {x} \in C PROVE U \in C
  <2>1. CASE U = {}
    BY <1>1, <2>1, SumEmpty
  <2>2. CASE U # {}
    <3>1. PICK x \in U : TRUE
      BY <2>2
    <3>2. SumFunctionOnSet(f, U) = f[x] + SumFunctionOnSet(f, U \ {x})
      BY <1>2, <3>1, SumAny
    <3>3. f[x] \in Nat /\ SumFunctionOnSet(f, U \ {x}) \in Nat
      BY <1>1, <1>3, <3>1 DEF NatOn
    <3> QED
      BY <1>1, <3>2, <3>3
  <2> QED
    BY <2>1, <2>2
<1>4. SUBSET S \subseteq C
  BY <1>3, Subsets
<1>5. \A U \in SUBSET S : SumFunctionOnSet(f, U) \in Nat
  BY <1>1, <1>4
<1>6. ASSUME NEW x \in S PROVE f[x] <= SumFunctionOnSet(f, S)
  <2>1. SumFunctionOnSet(f, S) = f[x] + SumFunctionOnSet(f, S \ {x})
    BY <1>2, SumAny
  <2>2. f[x] \in Nat /\ SumFunctionOnSet(f, S \ {x}) \in Nat
    BY <1>5 DEF NatOn
  <2> QED
    BY <2>1, <2>2
<1> QED
  BY <1>5, <1>6

\* What is nothing adds nothing.
LEMMA SumZero ==
  ASSUME NEW f, NEW S, IsFiniteSet(S), \A x \in S : f[x] = 0
  PROVE  SumFunctionOnSet(f, S) = 0
<1>1. CASE S = {}
  BY <1>1, SumEmpty
<1>2. PICK C : C = {U \in SUBSET S : SumFunctionOnSet(f, U) = 0}
  OBVIOUS
<1>3. ASSUME NEW U \in SUBSET S, \A x \in U : U \ {x} \in C PROVE U \in C
  <2>1. CASE U = {}
    BY <1>2, <2>1, SumEmpty
  <2>2. CASE U # {}
    <3>1. Chosen(U) \in U /\ IsFiniteSet(U)
      BY <2>2, ChosenIn, FS_Subset
    <3>2. SumFunctionOnSet(f, U) = f[Chosen(U)] + SumFunctionOnSet(f, U \ {Chosen(U)})
      BY <2>2, <3>1, SumStep
    <3> QED
      BY <1>2, <1>3, <3>1, <3>2
  <2> QED
    BY <2>1, <2>2
<1>4. SUBSET S \subseteq C
  BY <1>3, Subsets
<1> QED
  BY <1>2, <1>4

-----------------------------------------------------------------------------
\* The elements of a finite set of numbers in ascending order.
Finite(S) == S \in SUBSET Nat /\ IsFiniteSet(S)

LEMMA RankIn ==
  ASSUME NEW S, Finite(S)
  PROVE  /\ Cardinality(S) \in Nat
         /\ \A n \in S : Rank(S, n) \in 1 .. Cardinality(S)
         /\ \A m, n \in S : m < n => Rank(S, m) < Rank(S, n)
<1>1. IsFiniteSet(S) /\ Cardinality(S) \in Nat /\ S \subseteq Nat
  BY FS_CardinalityType DEF Finite
<1>2. ASSUME NEW n \in S
      PROVE  /\ IsFiniteSet({m \in S : m <= n}) /\ Rank(S, n) \in Nat
             /\ Rank(S, n) <= Cardinality(S) /\ Rank(S, n) # 0
  <2>1. PICK P : P = {m \in S : m <= n}
    OBVIOUS
  <2>2. P \in SUBSET S /\ P # {}
    BY <1>1, <1>2, <2>1
  <2>3. IsFiniteSet(P) /\ Cardinality(P) \in Nat /\ Cardinality(P) <= Cardinality(S)
    BY <1>1, <2>2, FS_Subset, FS_CardinalityType
  <2>4. Cardinality(P) # 0
    BY <2>2, <2>3, FS_EmptySet
  <2> QED
    BY <2>1, <2>3, <2>4 DEF Rank
<1>3. ASSUME NEW m \in S, NEW n \in S, m < n
      PROVE  Rank(S, m) < Rank(S, n)
  <2>1. PICK P, Q : P = {x \in S : x <= m} /\ Q = {x \in S : x <= n}
    OBVIOUS
  <2>2. m \in Nat /\ n \in Nat
    BY <1>1
  <2>3. P \in SUBSET Q /\ n \in Q /\ n \notin P
    <3>1. \A x \in Nat : x <= m => x <= n
      BY <1>3, <2>2
    <3>2. n <= n /\ ~ n <= m
      BY <1>3, <2>2
    <3> QED
      BY <1>1, <2>1, <3>1, <3>2
  <2>4. IsFiniteSet(Q) /\ Cardinality(P) \in Nat /\ Cardinality(Q) \in Nat
    BY <1>2, <2>1 DEF Rank
  <2>5. Cardinality(P) <= Cardinality(Q) /\ Cardinality(Q) # Cardinality(P)
    BY <2>3, <2>4, FS_Subset
  <2> QED
    BY <2>1, <2>4, <2>5 DEF Rank
<1>4. ASSUME NEW n \in S PROVE Rank(S, n) \in 1 .. Cardinality(S)
  <2>1. PICK k, C : k = Rank(S, n) /\ C = Cardinality(S)
    OBVIOUS
  <2>2. k \in Nat /\ C \in Nat /\ k <= C /\ k # 0
    BY <1>1, <1>2, <2>1
  <2> QED
    BY <2>1, <2>2
<1> QED
  BY <1>1, <1>3, <1>4

LEMMA Ranked ==
  ASSUME NEW S, Finite(S)
  PROVE  /\ \A k \in 1 .. Cardinality(S) : \E n \in S : Rank(S, n) = k
         /\ \A m, n \in S : Rank(S, m) = Rank(S, n) => m = n
<1>1. PICK f, C : f = [n \in S |-> Rank(S, n)] /\ C = 1 .. Cardinality(S)
  OBVIOUS
<1>2. /\ Cardinality(S) \in Nat /\ IsFiniteSet(S) /\ S \subseteq Nat /\ f \in [S -> C]
      /\ \A m, n \in S : m < n => Rank(S, m) < Rank(S, n)
      /\ \A n \in S : Rank(S, n) \in Nat
  <2>1. /\ Cardinality(S) \in Nat /\ \A n \in S : Rank(S, n) \in 1 .. Cardinality(S)
        /\ \A m, n \in S : m < n => Rank(S, m) < Rank(S, n)
    BY RankIn
  <2>2. C \subseteq Nat
    BY <1>1, <2>1
  <2>3. f \in [S -> C] /\ \A n \in S : Rank(S, n) \in Nat
    BY <1>1, <2>1, <2>2
  <2> QED
    BY <2>1, <2>3 DEF Finite
<1>3. ASSUME NEW m \in S, NEW n \in S, Rank(S, m) = Rank(S, n) PROVE m = n
  <2>1. m \in Nat /\ n \in Nat /\ ~ m < n /\ ~ n < m
    BY <1>2, <1>3
  <2> QED
    BY <2>1
<1>4. f \in Injection(S, C)
  BY <1>1, <1>2, <1>3 DEF Injection, IsInjective
<1>5. IsFiniteSet(C) /\ Cardinality(C) = Cardinality(S)
  BY <1>1, <1>2, FS_Interval
<1>6. f \in Surjection(S, C)
  BY <1>4, <1>5, FS_Injection
<1>7. \A k \in C : \E n \in S : f[n] = k
  BY <1>6 DEF Surjection
<1> QED
  BY <1>1, <1>3, <1>7

LEMMA SortedIs ==
  ASSUME NEW S, Finite(S)
  PROVE  /\ Sorted(S) \in Seq(Nat) /\ Len(Sorted(S)) = Cardinality(S) /\ Cardinality(S) \in Nat
         /\ \A k \in 1 .. Cardinality(S) : Sorted(S)[k] \in S /\ Rank(S, Sorted(S)[k]) = k
         /\ \A n \in S : Rank(S, n) \in 1 .. Cardinality(S) /\ Sorted(S)[Rank(S, n)] = n
<1>1. /\ Cardinality(S) \in Nat /\ S \subseteq Nat
      /\ \A n \in S : Rank(S, n) \in 1 .. Cardinality(S)
      /\ \A k \in 1 .. Cardinality(S) : \E n \in S : Rank(S, n) = k
      /\ \A m, n \in S : Rank(S, m) = Rank(S, n) => m = n
  BY RankIn, Ranked DEF Finite
<1>2. ASSUME NEW k \in 1 .. Cardinality(S)
      PROVE  Sorted(S)[k] \in S /\ Rank(S, Sorted(S)[k]) = k
  <2>1. Sorted(S)[k] = CHOOSE n \in S : Rank(S, n) = k
    BY DEF Sorted
  <2>2. \E n \in S : Rank(S, n) = k
    BY <1>1
  <2> QED
    BY <2>1, <2>2
<1>3. Sorted(S) \in [1 .. Cardinality(S) -> Nat]
  <2>1. PICK f : f = Sorted(S)
    OBVIOUS
  <2>2. f = [k \in 1 .. Cardinality(S) |-> f[k]]
    BY <2>1 DEF Sorted
  <2>3. \A k \in 1 .. Cardinality(S) : f[k] \in Nat
    BY <1>1, <1>2, <2>1
  <2> QED
    BY <2>1, <2>2, <2>3
<1>4. Sorted(S) \in Seq(Nat) /\ Len(Sorted(S)) = Cardinality(S)
  BY <1>1, <1>3
<1> QED
  BY <1>1, <1>2, <1>4
=============================================================================
