-------------------------- MODULE CollectionProofs --------------------------
(***************************************************************************)
(* Lemmas about Collections: what a filter keeps and what a sum adds up to. *)
(* They need induction over data, which is done here for sets of numbers    *)
(* and sets of subsets, from the well-foundedness of < on the naturals.     *)
(***************************************************************************)
EXTENDS Collections, FiniteSets, FiniteSetsExt, TLAPS, FiniteSetTheorems,
        SequenceTheorems, WellFoundedInduction

-----------------------------------------------------------------------------
(* Induction.                                                              *)

\* Induction over the natural numbers for a set of numbers.
LEMMA NatSetInduction ==
  ASSUME NEW T, 0 \in T, \A n \in Nat : n \in T => n + 1 \in T
  PROVE  \A n \in Nat : n \in T
<1> DEFINE Bad == Nat \ T
<1> SUFFICES ASSUME Bad # {} PROVE FALSE
  OBVIOUS
<1>1. PICK x \in Bad : \A y \in Bad : ~ (<<y, x>> \in OpToRel(<, Nat))
  BY NatLessThanWellFounded, WFMin
<1>2. \A y \in Bad : ~ (y < x)
  BY <1>1 DEF OpToRel
<1>3. x \in Nat /\ x \notin T /\ x # 0
  OBVIOUS
<1>4. x - 1 \in Nat /\ x - 1 < x /\ (x - 1) + 1 = x
  BY <1>3
<1>5. x - 1 \in T
  BY <1>2, <1>4
<1> QED
  BY <1>3, <1>4, <1>5

\* Induction over the subsets of a finite set: it is enough to go up by one element.
LEMMA SubsetInduction ==
  ASSUME NEW S, IsFiniteSet(S), NEW Good,
         \A s \in SUBSET S : (\A x \in s : s \ {x} \in Good) => s \in Good
  PROVE  \A s \in SUBSET S : s \in Good
<1> DEFINE T == {n \in Nat : \A s \in SUBSET S : Cardinality(s) = n => s \in Good}
<1>0. \A s \in SUBSET S : IsFiniteSet(s) /\ Cardinality(s) \in Nat
  BY FS_Subset, FS_CardinalityType
<1>1. 0 \in T
  <2>1. \A s \in SUBSET S : Cardinality(s) = 0 => s = {}
    BY <1>0, FS_EmptySet
  <2> QED
    BY <2>1
<1>2. ASSUME NEW n \in Nat, n \in T PROVE n + 1 \in T
  <2> SUFFICES ASSUME NEW s \in SUBSET S, Cardinality(s) = n + 1 PROVE s \in Good
    OBVIOUS
  <2>1. \A x \in s : Cardinality(s \ {x}) = n
    BY <1>0, FS_RemoveElement
  <2>2. \A x \in s : s \ {x} \in Good
    BY <1>2, <2>1
  <2> QED
    BY <2>2
<1> HIDE DEF T
<1>3. \A n \in Nat : n \in T
  BY <1>1, <1>2, NatSetInduction
<1> QED
  BY <1>0, <1>3 DEF T

-----------------------------------------------------------------------------
(* Minima and maxima.                                                      *)

\* A non-empty set of numbers has its minimum.
LEMMA MinExists ==
  ASSUME NEW S, S \subseteq Nat, S # {}
  PROVE  Min(S) \in S /\ \A y \in S : Min(S) <= y
<1>1. PICK x \in S : \A y \in S : ~ (<<y, x>> \in OpToRel(<, Nat))
  BY NatLessThanWellFounded, WFMin
<1>a. \A y \in S : ~ (y < x)
  BY <1>1 DEF OpToRel
<1>2. \A y \in S : x <= y
  BY <1>a
<1>3. \E z \in S : \A y \in S : z <= y
  BY <1>2
<1> QED
  BY <1>3 DEF Min

\* A non-empty bounded set of numbers has its maximum.
LEMMA MaxExists ==
  ASSUME NEW n \in Nat, NEW S, S \subseteq 0 .. n, S # {}
  PROVE  Max(S) \in S /\ \A y \in S : Max(S) >= y
<1> DEFINE T == {n - x : x \in S}
<1>a. \A x \in S : x \in Nat /\ n - x \in Nat
  OBVIOUS
<1>1. T \subseteq Nat /\ T # {}
  BY <1>a
<1>2. Min(T) \in T /\ \A y \in T : Min(T) <= y
  BY <1>1, MinExists
<1>3. PICK x \in S : Min(T) = n - x
  BY <1>2
<1>4. \A y \in S : n - x <= n - y
  BY <1>2, <1>3
<1>5. \A y \in S : x >= y
  BY <1>4
<1>6. \E z \in S : \A y \in S : z >= y
  BY <1>5
<1> QED
  BY <1>6 DEF Max

\* A non-empty finite set of integers has its maximum.
LEMMA FiniteMax ==
  ASSUME NEW S, IsFiniteSet(S), S \subseteq Int, S # {}
  PROVE  Max(S) \in S /\ \A y \in S : Max(S) >= y
<1> DEFINE Good == {s \in SUBSET S : s = {} \/ \E x \in s : \A y \in s : x >= y}
<1>1. ASSUME NEW s \in SUBSET S, \A x \in s : s \ {x} \in Good PROVE s \in Good
  <2>1. CASE s = {}
    BY <2>1
  <2>2. CASE s # {}
    <3>1. PICK x \in s : TRUE
      BY <2>2
    <3>2. CASE s \ {x} = {}
      <4>1. \A y \in s : x >= y
        BY <3>2
      <4> QED
        BY <4>1
    <3>3. CASE s \ {x} # {}
      <4>1. PICK z \in s \ {x} : \A y \in s \ {x} : z >= y
        BY <1>1, <3>1, <3>3
      <4>2. x \in Int /\ z \in Int
        OBVIOUS
      <4>3. CASE z >= x
        <5>1. \A y \in s : z >= y
          BY <4>1, <4>3
        <5> QED
          BY <5>1
      <4>4. CASE x > z
        <5>1. \A y \in s : x >= y
          BY <4>1, <4>2, <4>4
        <5> QED
          BY <5>1
      <4> QED
        BY <4>2, <4>3, <4>4
    <3> QED
      BY <3>2, <3>3
  <2> QED
    BY <2>1, <2>2
<1> HIDE DEF Good
<1>2. S \in Good
  BY <1>1, SubsetInduction
<1>3. \E x \in S : \A y \in S : x >= y
  BY <1>2 DEF Good
<1> QED
  BY <1>3 DEF Max

\* The minimum and the maximum of two numbers.
LEMMA MinMaxPair ==
  ASSUME NEW a \in Int, NEW b \in Int
  PROVE  /\ Min({a, b}) = IF a <= b THEN a ELSE b
         /\ Max({a, b}) = IF a <= b THEN b ELSE a
<1>1. \E z \in {a, b} : \A y \in {a, b} : z <= y
  OBVIOUS
<1>2. \E z \in {a, b} : \A y \in {a, b} : z >= y
  OBVIOUS
<1>3. Min({a, b}) \in {a, b} /\ \A y \in {a, b} : Min({a, b}) <= y
  BY <1>1 DEF Min
<1>4. Max({a, b}) \in {a, b} /\ \A y \in {a, b} : Max({a, b}) >= y
  BY <1>2 DEF Max
<1> QED
  BY <1>3, <1>4

-----------------------------------------------------------------------------
(* Sums: the fold takes the elements in the order of a CHOOSE; no order     *)
(* matters.                                                                *)

\* The element the fold takes first.
Pick(s) == CHOOSE x \in s : TRUE

\* The value at s of a fold whose values at smaller sets are in g.
Unfold(f, g, s) == IF s = {} THEN 0 ELSE f[Pick(s)] + g[s \ {Pick(s)}]

\* The recursive function of the fold over the subsets of S.
Fold(f, S) == CHOOSE g : g = [s \in SUBSET S |-> Unfold(f, g, s)]

\* The fold over a finite set satisfies its recursion equation.
LEMMA FoldEquation ==
  ASSUME NEW f, NEW S, IsFiniteSet(S)
  PROVE  \A s \in SUBSET S : Fold(f, S)[s] = Unfold(f, Fold(f, S), s)
<1> DEFINE Upto(g, n) == \A s \in SUBSET S : Cardinality(s) <= n => g[s] = Unfold(f, g, s)
           T == {n \in Nat : \E g : Upto(g, n)}
<1>0. \A s \in SUBSET S : IsFiniteSet(s) /\ Cardinality(s) \in Nat
  BY FS_Subset, FS_CardinalityType
<1>p. \A s \in SUBSET S : s # {} =>
         /\ Pick(s) \in s /\ s \ {Pick(s)} \in SUBSET S
         /\ Cardinality(s \ {Pick(s)}) = Cardinality(s) - 1
  <2> SUFFICES ASSUME NEW s \in SUBSET S, s # {}
               PROVE  /\ Pick(s) \in s /\ s \ {Pick(s)} \in SUBSET S
                      /\ Cardinality(s \ {Pick(s)}) = Cardinality(s) - 1
    OBVIOUS
  <2>1. Pick(s) \in s
    BY DEF Pick
  <2>2. Cardinality(s \ {Pick(s)}) = Cardinality(s) - 1
    BY <1>0, <2>1, FS_RemoveElement
  <2> QED
    BY <2>1, <2>2
<1>1. 0 \in T
  <2>1. \A s \in SUBSET S : Cardinality(s) <= 0 => s = {}
    BY <1>0, FS_EmptySet
  <2>2. Upto([s \in SUBSET S |-> 0], 0)
    BY <2>1 DEF Unfold
  <2> QED
    BY <2>2
<1>2. ASSUME NEW n \in Nat, n \in T PROVE n + 1 \in T
  <2>1. PICK g : Upto(g, n)
    BY <1>2
  <2> DEFINE h == [s \in SUBSET S |-> IF Cardinality(s) = n + 1 THEN Unfold(f, g, s) ELSE g[s]]
  <2>2. ASSUME NEW s \in SUBSET S, Cardinality(s) <= n + 1 PROVE h[s] = Unfold(f, h, s)
    <3>1. s # {} => h[s \ {Pick(s)}] = g[s \ {Pick(s)}]
      <4> SUFFICES ASSUME s # {} PROVE h[s \ {Pick(s)}] = g[s \ {Pick(s)}]
        OBVIOUS
      <4>1. Cardinality(s \ {Pick(s)}) # n + 1
        BY <1>0, <1>p, <2>2
      <4> QED
        BY <4>1, <1>p
    <3>2. Unfold(f, h, s) = Unfold(f, g, s)
      BY <3>1 DEF Unfold
    <3>3. CASE Cardinality(s) = n + 1
      BY <3>2, <3>3
    <3>4. CASE Cardinality(s) # n + 1
      <4>1. Cardinality(s) <= n
        BY <1>0, <2>2, <3>4
      <4>2. g[s] = Unfold(f, g, s)
        BY <2>1, <4>1
      <4> QED
        BY <3>2, <3>4, <4>2
    <3> QED
      BY <3>3, <3>4
  <2>3. \E k : Upto(k, n + 1)
    <3>1. Upto(h, n + 1)
      BY <2>2
    <3> HIDE DEF h
    <3> QED
      BY <3>1
  <2> QED
    BY <2>3
<1> HIDE DEF T
<1>3. \A n \in Nat : n \in T
  BY <1>1, <1>2, NatSetInduction
<1>4. PICK g : Upto(g, Cardinality(S))
  BY <1>0, <1>3 DEF T
<1>5. \A s \in SUBSET S : g[s] = Unfold(f, g, s)
  BY <1>0, <1>4, FS_Subset
<1> DEFINE h == [s \in SUBSET S |-> g[s]]
<1>6. h = [s \in SUBSET S |-> Unfold(f, h, s)]
  <2> SUFFICES ASSUME NEW s \in SUBSET S PROVE g[s] = Unfold(f, h, s)
    OBVIOUS
  <2>1. s # {} => h[s \ {Pick(s)}] = g[s \ {Pick(s)}]
    BY <1>p
  <2>2. Unfold(f, h, s) = Unfold(f, g, s)
    BY <2>1 DEF Unfold
  <2> QED
    BY <1>5, <2>2
<1>7. \E k : k = [s \in SUBSET S |-> Unfold(f, k, s)]
  <2> HIDE DEF h
  <2> QED
    BY <1>6
<1>8. Fold(f, S) = [s \in SUBSET S |-> Unfold(f, Fold(f, S), s)]
  BY <1>7 DEF Fold
<1> QED
  BY <1>8

\* Folds over two sets agree on their common subsets, if the functions do.
LEMMA FoldsAgree ==
  ASSUME NEW f, NEW g, NEW S, NEW T, IsFiniteSet(S), T \subseteq S,
         \A x \in T : f[x] = g[x]
  PROVE  \A s \in SUBSET T : Fold(f, S)[s] = Fold(g, T)[s]
<1>0. IsFiniteSet(T)
  BY FS_Subset
<1> DEFINE Good == {s \in SUBSET T : Fold(f, S)[s] = Fold(g, T)[s]}
<1>1. ASSUME NEW s \in SUBSET T, \A x \in s : s \ {x} \in Good PROVE s \in Good
  <2>1. Fold(f, S)[s] = Unfold(f, Fold(f, S), s)
    BY FoldEquation
  <2>2. Fold(g, T)[s] = Unfold(g, Fold(g, T), s)
    BY <1>0, FoldEquation
  <2>3. CASE s = {}
    BY <2>1, <2>2, <2>3 DEF Unfold
  <2>4. CASE s # {}
    <3>1. Pick(s) \in s
      BY <2>4 DEF Pick
    <3>2. Fold(f, S)[s \ {Pick(s)}] = Fold(g, T)[s \ {Pick(s)}]
      BY <1>1, <3>1
    <3>3. f[Pick(s)] = g[Pick(s)]
      BY <3>1
    <3> QED
      BY <2>1, <2>2, <2>4, <3>2, <3>3 DEF Unfold
  <2> QED
    BY <2>3, <2>4
<1> HIDE DEF Good
<1>2. \A s \in SUBSET T : s \in Good
  BY <1>0, <1>1, SubsetInduction
<1> QED
  BY <1>2 DEF Good

LEMMA SumIsFold ==
  ASSUME NEW f, NEW S
  PROVE  Total(f, S) = Fold(f, S)[S]
BY DEF Total, Fold, Unfold, Pick, FoldFunctionOnSet, MapThenFoldSet

\* The sum over no elements.
LEMMA SumEmpty ==
  ASSUME NEW f
  PROVE  Total(f, {}) = 0
BY SumIsFold, FoldEquation, FS_EmptySet DEF Unfold

\* A sum depends only on the values at the elements of the set.
LEMMA SumAgree ==
  ASSUME NEW f, NEW g, NEW S, IsFiniteSet(S), \A x \in S : f[x] = g[x]
  PROVE  Total(f, S) = Total(g, S)
BY SumIsFold, FoldsAgree

\* The sum takes out the element picked first.
LEMMA SumPick ==
  ASSUME NEW f, NEW S, IsFiniteSet(S), S # {}
  PROVE  /\ Pick(S) \in S
         /\ Total(f, S) = f[Pick(S)] + Total(f, S \ {Pick(S)})
<1>1. Pick(S) \in S
  BY DEF Pick
<1>2. Fold(f, S)[S] = f[Pick(S)] + Fold(f, S)[S \ {Pick(S)}]
  BY FoldEquation DEF Unfold
<1>3. Fold(f, S)[S \ {Pick(S)}] = Fold(f, S \ {Pick(S)})[S \ {Pick(S)}]
  BY FoldsAgree
<1> QED
  BY <1>1, <1>2, <1>3, SumIsFold

\* A sum of integers is an integer, between 0 and n elements of at most m.
LEMMA SumInt ==
  ASSUME NEW S, IsFiniteSet(S), NEW f, \A x \in S : f[x] \in Int
  PROVE  Total(f, S) \in Int
<1> DEFINE Good == {s \in SUBSET S : Total(f, s) \in Int}
<1>1. ASSUME NEW s \in SUBSET S, \A x \in s : s \ {x} \in Good PROVE s \in Good
  <2>1. CASE s = {}
    BY <2>1, SumEmpty
  <2>2. CASE s # {}
    <3>1. IsFiniteSet(s)
      BY FS_Subset
    <3>2. Pick(s) \in s /\ Total(f, s) = f[Pick(s)] + Total(f, s \ {Pick(s)})
      BY <2>2, <3>1, SumPick
    <3> QED
      BY <1>1, <3>2
  <2> QED
    BY <2>1, <2>2
<1> HIDE DEF Good
<1>2. \A s \in SUBSET S : s \in Good
  BY <1>1, SubsetInduction
<1> QED
  BY <1>2 DEF Good

\* No order matters: any element may be taken out.
LEMMA SumRemove ==
  ASSUME NEW S, IsFiniteSet(S), NEW f, \A x \in S : f[x] \in Int, NEW y \in S
  PROVE  Total(f, S) = f[y] + Total(f, S \ {y})
<1> DEFINE Good == {s \in SUBSET S : \A x \in s : Total(f, s) = f[x] + Total(f, s \ {x})}
<1>1. ASSUME NEW s \in SUBSET S, \A x \in s : s \ {x} \in Good PROVE s \in Good
  <2> SUFFICES ASSUME NEW x \in s PROVE Total(f, s) = f[x] + Total(f, s \ {x})
    OBVIOUS
  <2> DEFINE c == Pick(s)
  <2>1. IsFiniteSet(s) /\ s # {}
    BY FS_Subset
  <2>2. c \in s /\ Total(f, s) = f[c] + Total(f, s \ {c})
    BY <2>1, SumPick
  <2> HIDE DEF c
  <2>3. CASE x = c
    BY <2>2, <2>3
  <2>4. CASE x # c
    <3>1. Total(f, s \ {c}) = f[x] + Total(f, (s \ {c}) \ {x})
      BY <1>1, <2>2, <2>4
    <3>2. Total(f, s \ {x}) = f[c] + Total(f, (s \ {x}) \ {c})
      BY <1>1, <2>2, <2>4
    <3>3. (s \ {c}) \ {x} = (s \ {x}) \ {c}
      OBVIOUS
    <3>4. Total(f, (s \ {x}) \ {c}) \in Int
      <4>1. IsFiniteSet((s \ {x}) \ {c})
        BY <2>1, FS_RemoveElement
      <4>2. \A z \in (s \ {x}) \ {c} : f[z] \in Int
        OBVIOUS
      <4> QED
        BY <4>1, <4>2, SumInt
    <3>5. f[x] \in Int /\ f[c] \in Int
      BY <2>2
    <3> DEFINE u == Total(f, (s \ {x}) \ {c})
               a == f[x]
               b == f[c]
    <3>6. Total(f, s) = b + (a + u) /\ Total(f, s \ {x}) = b + u
      BY <2>2, <3>1, <3>2, <3>3
    <3>7. a \in Int /\ b \in Int /\ u \in Int
      BY <3>4, <3>5
    <3> HIDE DEF u, a, b
    <3>8. Total(f, s) = a + Total(f, s \ {x})
      BY <3>6, <3>7
    <3> QED
      BY <3>8 DEF a
  <2> QED
    BY <2>3, <2>4
<1> HIDE DEF Good
<1>2. \A s \in SUBSET S : s \in Good
  BY <1>1, SubsetInduction
<1> QED
  BY <1>2 DEF Good

\* A sum over a set with one more element.
LEMMA SumAdd ==
  ASSUME NEW S, IsFiniteSet(S), NEW f, NEW y, y \notin S, \A x \in S \cup {y} : f[x] \in Int
  PROVE  Total(f, S \cup {y}) = f[y] + Total(f, S)
<1>1. IsFiniteSet(S \cup {y})
  BY FS_AddElement
<1>2. Total(f, S \cup {y}) = f[y] + Total(f, (S \cup {y}) \ {y})
  BY <1>1, SumRemove
<1>3. (S \cup {y}) \ {y} = S
  OBVIOUS
<1> QED
  BY <1>2, <1>3

\* Larger terms give a larger sum.
LEMMA SumMonotone ==
  ASSUME NEW S, IsFiniteSet(S), NEW f, NEW g,
         \A x \in S : f[x] \in Int /\ g[x] \in Int /\ f[x] <= g[x]
  PROVE  Total(f, S) <= Total(g, S)
<1> DEFINE Good == {s \in SUBSET S : Total(f, s) <= Total(g, s)}
<1>1. ASSUME NEW s \in SUBSET S, \A x \in s : s \ {x} \in Good PROVE s \in Good
  <2>1. CASE s = {}
    BY <2>1, SumEmpty
  <2>2. CASE s # {}
    <3>1. PICK x \in s : TRUE
      BY <2>2
    <3>2. IsFiniteSet(s) /\ IsFiniteSet(s \ {x})
      BY FS_Subset, FS_RemoveElement
    <3>3. Total(f, s) = f[x] + Total(f, s \ {x})
      BY <3>1, <3>2, SumRemove
    <3>4. Total(g, s) = g[x] + Total(g, s \ {x})
      BY <3>1, <3>2, SumRemove
    <3>5. Total(f, s \ {x}) \in Int
      BY <3>2, SumInt
    <3>6. Total(g, s \ {x}) \in Int
      BY <3>2, SumInt
    <3>7. Total(f, s \ {x}) <= Total(g, s \ {x})
      BY <1>1, <3>1
    <3>8. f[x] \in Int /\ g[x] \in Int /\ f[x] <= g[x]
      BY <3>1
    <3> QED
      BY <3>3, <3>4, <3>5, <3>6, <3>7, <3>8
  <2> QED
    BY <2>1, <2>2
<1> HIDE DEF Good
<1>2. \A s \in SUBSET S : s \in Good
  BY <1>1, SubsetInduction
<1> QED
  BY <1>2 DEF Good

\* A sum of differences is the difference of the sums.
LEMMA SumMinus ==
  ASSUME NEW S, IsFiniteSet(S), NEW f, NEW g, NEW h,
         \A x \in S : f[x] \in Int /\ g[x] \in Int /\ h[x] = f[x] - g[x]
  PROVE  Total(h, S) = Total(f, S) - Total(g, S)
<1> DEFINE Good == {s \in SUBSET S : Total(h, s) = Total(f, s) - Total(g, s)}
<1>1. ASSUME NEW s \in SUBSET S, \A x \in s : s \ {x} \in Good PROVE s \in Good
  <2>1. CASE s = {}
    BY <2>1, SumEmpty
  <2>2. CASE s # {}
    <3>1. PICK x \in s : TRUE
      BY <2>2
    <3>2. IsFiniteSet(s) /\ IsFiniteSet(s \ {x})
      BY FS_Subset, FS_RemoveElement
    <3>3. Total(f, s) = f[x] + Total(f, s \ {x})
      BY <3>1, <3>2, SumRemove
    <3>4. Total(g, s) = g[x] + Total(g, s \ {x})
      BY <3>1, <3>2, SumRemove
    <3>5. Total(h, s) = h[x] + Total(h, s \ {x})
      <4>1. \A y \in s : h[y] \in Int
        OBVIOUS
      <4> QED
        BY <3>1, <3>2, <4>1, SumRemove
    <3>6. Total(f, s \ {x}) \in Int
      BY <3>2, SumInt
    <3>7. Total(g, s \ {x}) \in Int
      BY <3>2, SumInt
    <3>8. Total(h, s \ {x}) = Total(f, s \ {x}) - Total(g, s \ {x})
      BY <1>1, <3>1
    <3>9. f[x] \in Int /\ g[x] \in Int /\ h[x] = f[x] - g[x]
      BY <3>1
    <3> QED
      BY <3>3, <3>4, <3>5, <3>6, <3>7, <3>8, <3>9
  <2> QED
    BY <2>1, <2>2
<1> HIDE DEF Good
<1>2. \A s \in SUBSET S : s \in Good
  BY <1>1, SubsetInduction
<1> QED
  BY <1>2 DEF Good

\* Numbers of at most m add up to at most m for each element.
LEMMA SumBound ==
  ASSUME NEW S, IsFiniteSet(S), NEW f, NEW m \in Nat, \A x \in S : f[x] \in 0 .. m
  PROVE  Total(f, S) \in 0 .. m * Cardinality(S)
<1> DEFINE Good == {s \in SUBSET S : Total(f, s) \in 0 .. m * Cardinality(s)}
<1>1. ASSUME NEW s \in SUBSET S, \A x \in s : s \ {x} \in Good PROVE s \in Good
  <2>1. CASE s = {}
    BY <2>1, SumEmpty, FS_EmptySet
  <2>2. CASE s # {}
    <3>1. PICK x \in s : TRUE
      BY <2>2
    <3>2. IsFiniteSet(s) /\ IsFiniteSet(s \ {x})
      BY FS_Subset, FS_RemoveElement
    <3> DEFINE n == Cardinality(s)
               u == Total(f, s \ {x})
    <3>3. Total(f, s) = f[x] + u
      BY <3>1, <3>2, SumRemove
    <3>4. n \in Nat /\ n - 1 \in Nat /\ Cardinality(s \ {x}) = n - 1
      BY <3>1, <3>2, FS_RemoveElement, FS_CardinalityType
    <3>5. u \in 0 .. m * (n - 1)
      BY <1>1, <3>1, <3>4
    <3>6. f[x] \in 0 .. m
      BY <3>1
    <3> HIDE DEF n, u
    <3>7. m * (n - 1) = m * n - m /\ m * n \in Int
      BY <3>4
    <3>8. Total(f, s) \in 0 .. m * n
      BY <3>3, <3>5, <3>6, <3>7
    <3> QED
      BY <3>8 DEF n
  <2> QED
    BY <2>1, <2>2
<1> HIDE DEF Good
<1>2. \A s \in SUBSET S : s \in Good
  BY <1>1, SubsetInduction
<1> QED
  BY <1>2 DEF Good

\* Sums over two disjoint sets add up.
LEMMA SumUnion ==
  ASSUME NEW S, IsFiniteSet(S), NEW T, IsFiniteSet(T), S \cap T = {}, NEW f,
         \A x \in S \cup T : f[x] \in Int
  PROVE  Total(f, S \cup T) = Total(f, S) + Total(f, T)
<1> DEFINE Good == {s \in SUBSET S : Total(f, s \cup T) = Total(f, s) + Total(f, T)}
<1>0. Total(f, T) \in Int
  BY SumInt
<1>1. ASSUME NEW s \in SUBSET S, \A x \in s : s \ {x} \in Good PROVE s \in Good
  <2>1. CASE s = {}
    <3>1. s \cup T = T
      BY <2>1
    <3> QED
      BY <1>0, <2>1, <3>1, SumEmpty
  <2>2. CASE s # {}
    <3>1. PICK x \in s : TRUE
      BY <2>2
    <3>2. IsFiniteSet(s) /\ IsFiniteSet(s \ {x}) /\ IsFiniteSet(s \cup T)
      BY FS_Subset, FS_RemoveElement, FS_Union
    <3>3. Total(f, s) = f[x] + Total(f, s \ {x})
      BY <3>1, <3>2, SumRemove
    <3>4. Total(f, s \cup T) = f[x] + Total(f, (s \cup T) \ {x})
      BY <3>1, <3>2, SumRemove
    <3>5. (s \cup T) \ {x} = (s \ {x}) \cup T
      BY <3>1
    <3>6. Total(f, (s \ {x}) \cup T) = Total(f, s \ {x}) + Total(f, T)
      BY <1>1, <3>1
    <3>7. Total(f, s \ {x}) \in Int
      BY <3>2, SumInt
    <3> DEFINE u == Total(f, s \ {x})
               v == Total(f, T)
               a == f[x]
    <3>8. Total(f, s \cup T) = a + (u + v) /\ Total(f, s) = a + u
      BY <3>3, <3>4, <3>5, <3>6
    <3>9. a \in Int /\ u \in Int /\ v \in Int
      BY <1>0, <3>1, <3>7
    <3> HIDE DEF u, v, a
    <3>10. Total(f, s \cup T) = Total(f, s) + v
      BY <3>8, <3>9
    <3> QED
      BY <3>10 DEF v
  <2> QED
    BY <2>1, <2>2
<1> HIDE DEF Good
<1>2. \A s \in SUBSET S : s \in Good
  BY <1>1, SubsetInduction
<1> QED
  BY <1>2 DEF Good

\* A factor comes out of a sum.
LEMMA SumScale ==
  ASSUME NEW S, IsFiniteSet(S), NEW f, NEW g, NEW m \in Int,
         \A x \in S : f[x] \in Int /\ g[x] = m * f[x]
  PROVE  Total(g, S) = m * Total(f, S)
<1> DEFINE Good == {s \in SUBSET S : Total(g, s) = m * Total(f, s)}
<1>1. ASSUME NEW s \in SUBSET S, \A x \in s : s \ {x} \in Good PROVE s \in Good
  <2>1. CASE s = {}
    BY <2>1, SumEmpty
  <2>2. CASE s # {}
    <3>1. PICK x \in s : TRUE
      BY <2>2
    <3>2. IsFiniteSet(s) /\ IsFiniteSet(s \ {x})
      BY FS_Subset, FS_RemoveElement
    <3>g. \A y \in s : g[y] \in Int
      OBVIOUS
    <3> DEFINE u == Total(f, s \ {x})
    <3>3. Total(f, s) = f[x] + u
      BY <3>1, <3>2, SumRemove
    <3>4. Total(g, s) = g[x] + Total(g, s \ {x})
      BY <3>1, <3>2, <3>g, SumRemove
    <3>5. u \in Int
      BY <3>2, SumInt
    <3>6. Total(g, s \ {x}) = m * u
      BY <1>1, <3>1
    <3>7. f[x] \in Int /\ g[x] = m * f[x]
      BY <3>1
    <3> HIDE DEF u
    <3>8. m * (f[x] + u) = m * f[x] + m * u
      BY <3>5, <3>7
    <3> QED
      BY <3>3, <3>4, <3>6, <3>7, <3>8
  <2> QED
    BY <2>1, <2>2
<1> HIDE DEF Good
<1>2. \A s \in SUBSET S : s \in Good
  BY <1>1, SubsetInduction
<1> QED
  BY <1>2 DEF Good

LEMMA SumZero ==
  ASSUME NEW S, IsFiniteSet(S), NEW f, \A x \in S : f[x] = 0
  PROVE  Total(f, S) = 0
<1>1. \A x \in S : f[x] \in 0 .. 0
  OBVIOUS
<1>2. Total(f, S) \in 0 .. 0 * Cardinality(S)
  BY <1>1, SumBound
<1>3. Cardinality(S) \in Nat
  BY FS_CardinalityType
<1> QED
  BY <1>2, <1>3

\* When only the terms of T change, so does the sum.
LEMMA SumChange ==
  ASSUME NEW S, IsFiniteSet(S), NEW T, T \subseteq S, NEW f, NEW g,
         \A x \in S : f[x] \in Int /\ g[x] \in Int,
         \A x \in S \ T : g[x] = f[x]
  PROVE  /\ Total(f, S) \in Int /\ Total(f, T) \in Int /\ Total(g, T) \in Int
         /\ Total(g, S) = Total(f, S) - Total(f, T) + Total(g, T)
<1>1. IsFiniteSet(T) /\ IsFiniteSet(S \ T)
  BY FS_Subset
<1>2. (S \ T) \cup T = S /\ (S \ T) \cap T = {}
  OBVIOUS
<1>3. Total(f, (S \ T) \cup T) = Total(f, S \ T) + Total(f, T)
  BY <1>1, <1>2, SumUnion
<1>4. Total(g, (S \ T) \cup T) = Total(g, S \ T) + Total(g, T)
  BY <1>1, <1>2, SumUnion
<1>5. Total(g, S \ T) = Total(f, S \ T)
  BY <1>1, SumAgree
<1>6. Total(f, S \ T) \in Int
  BY <1>1, SumInt
<1>7. Total(f, T) \in Int
  BY <1>1, SumInt
<1>8. Total(g, T) \in Int
  BY <1>1, SumInt
<1>9. Total(f, S) \in Int
  BY SumInt
<1> QED
  BY <1>2, <1>3, <1>4, <1>5, <1>6, <1>7, <1>8, <1>9

\* One more for each element of K.
LEMMA SumCount ==
  ASSUME NEW S, IsFiniteSet(S), NEW K, NEW f, NEW g,
         \A x \in S : f[x] \in Int /\ g[x] = f[x] + (IF x \in K THEN 1 ELSE 0)
  PROVE  Total(g, S) = Total(f, S) + Cardinality(S \cap K)
<1> DEFINE Good == {s \in SUBSET S : Total(g, s) = Total(f, s) + Cardinality(s \cap K)}
<1>1. ASSUME NEW s \in SUBSET S, \A x \in s : s \ {x} \in Good PROVE s \in Good
  <2>1. CASE s = {}
    <3>1. s \cap K = {}
      BY <2>1
    <3> QED
      BY <2>1, <3>1, SumEmpty, FS_EmptySet
  <2>2. CASE s # {}
    <3>1. PICK x \in s : TRUE
      BY <2>2
    <3>2. IsFiniteSet(s) /\ IsFiniteSet(s \ {x}) /\ IsFiniteSet(s \cap K)
      BY FS_Subset, FS_RemoveElement
    <3>g. \A y \in s : g[y] \in Int
      OBVIOUS
    <3> DEFINE u == Total(f, s \ {x})
               c == Cardinality((s \ {x}) \cap K)
    <3>3. Total(f, s) = f[x] + u
      BY <3>1, <3>2, SumRemove
    <3>4. Total(g, s) = g[x] + Total(g, s \ {x})
      BY <3>1, <3>2, <3>g, SumRemove
    <3>5. u \in Int
      BY <3>2, SumInt
    <3>6. Total(g, s \ {x}) = u + c
      BY <1>1, <3>1
    <3>7. c \in Nat /\ Cardinality(s \cap K) = c + (IF x \in K THEN 1 ELSE 0)
      <4>1. (s \ {x}) \cap K = (s \cap K) \ {x}
        OBVIOUS
      <4>2. Cardinality(s \cap K) \in Nat
        BY <3>2, FS_CardinalityType
      <4>3. /\ IsFiniteSet((s \cap K) \ {x})
            /\ Cardinality((s \cap K) \ {x}) =
                 IF x \in s \cap K THEN Cardinality(s \cap K) - 1 ELSE Cardinality(s \cap K)
        BY <3>2, FS_RemoveElement
      <4>4. Cardinality((s \cap K) \ {x}) \in Nat
        BY <4>3, FS_CardinalityType
      <4>5. x \in K <=> x \in s \cap K
        BY <3>1
      <4> DEFINE k == Cardinality(s \cap K)
      <4>6. c = IF x \in K THEN k - 1 ELSE k
        BY <4>1, <4>3, <4>5
      <4>7. c \in Nat /\ k \in Nat
        BY <4>1, <4>2, <4>4
      <4> HIDE DEF c, k
      <4>8. k = c + (IF x \in K THEN 1 ELSE 0)
        BY <4>6, <4>7
      <4> QED
        BY <4>7, <4>8 DEF k
    <3>8. f[x] \in Int /\ g[x] = f[x] + (IF x \in K THEN 1 ELSE 0)
      BY <3>1
    <3> HIDE DEF u, c
    <3>9. Total(g, s) = Total(f, s) + Cardinality(s \cap K)
      BY <3>3, <3>4, <3>5, <3>6, <3>7, <3>8
    <3> QED
      BY <3>9
  <2> QED
    BY <2>1, <2>2
<1> HIDE DEF Good
<1>2. \A s \in SUBSET S : s \in Good
  BY <1>1, SubsetInduction
<1> QED
  BY <1>2 DEF Good

\* A sum of numbers is a number, and at least every part of it.
LEMMA SumNat ==
  ASSUME NEW S, IsFiniteSet(S), NEW f, \A x \in S : f[x] \in Nat
  PROVE  Total(f, S) \in Nat /\ \A T \in SUBSET S : Total(f, T) <= Total(f, S)
<1>1. ASSUME NEW T \in SUBSET S PROVE Total(f, T) \in Nat
  <2> DEFINE z == [x \in T |-> 0]
  <2>0. IsFiniteSet(T)
    BY FS_Subset
  <2>1. Total(z, T) <= Total(f, T)
    BY <2>0, SumMonotone
  <2>2. Total(z, T) \in 0 .. 0 * Cardinality(T)
    BY <2>0, SumBound
  <2>3. Total(f, T) \in Int
    BY <2>0, SumInt
  <2>4. Cardinality(T) \in Nat
    BY <2>0, FS_CardinalityType
  <2> HIDE DEF z
  <2> QED
    BY <2>1, <2>2, <2>3, <2>4
<1>2. ASSUME NEW T \in SUBSET S PROVE Total(f, T) <= Total(f, S)
  <2>1. IsFiniteSet(T) /\ IsFiniteSet(S \ T)
    BY FS_Subset
  <2>2. (S \ T) \cup T = S /\ (S \ T) \cap T = {}
    OBVIOUS
  <2>3. Total(f, (S \ T) \cup T) = Total(f, S \ T) + Total(f, T)
    BY <2>1, <2>2, SumUnion
  <2>4. Total(f, S \ T) \in Nat /\ Total(f, T) \in Nat
    BY <1>1
  <2>5. Total(f, S) = Total(f, S \ T) + Total(f, T)
    BY <2>2, <2>3
  <2> DEFINE a == Total(f, S \ T)
             b == Total(f, T)
  <2> HIDE DEF a, b
  <2>6. Total(f, S) = a + b /\ a \in Nat /\ b \in Nat
    BY <2>4, <2>5 DEF a, b
  <2>7. b <= Total(f, S)
    BY <2>6
  <2> QED
    BY <2>7 DEF b
<1>3. Total(f, S) \in Nat
  BY <1>1
<1> QED
  BY <1>2, <1>3

-----------------------------------------------------------------------------
(* Filters.                                                                *)

\* What is kept of the first i elements, from what is kept of the i - 1 before.
FilteredNext(s, S, k, i) ==
  IF i = 0 THEN <<>> ELSE IF s[i] \in S THEN Append(k[i - 1], s[i]) ELSE k[i - 1]

Filtered(s, S) == CHOOSE k : k = [i \in 0 .. Len(s) |-> FilteredNext(s, S, k, i)]

LEMMA FilteredEquation ==
  ASSUME NEW A, NEW s \in Seq(A), NEW S
  PROVE  \A i \in 0 .. Len(s) : Filtered(s, S)[i] = FilteredNext(s, S, Filtered(s, S), i)
<1> DEFINE N == Len(s)
           Upto(k, n) == \A i \in 0 .. N : i <= n => k[i] = FilteredNext(s, S, k, i)
           T == {n \in Nat : \E k : Upto(k, n)}
<1>0. N \in Nat
  OBVIOUS
<1> HIDE DEF N
<1>1. 0 \in T
  <2>1. Upto([i \in 0 .. N |-> <<>>], 0)
    BY <1>0 DEF FilteredNext
  <2> QED
    BY <2>1
<1>2. ASSUME NEW n \in Nat, n \in T PROVE n + 1 \in T
  <2>1. PICK k : Upto(k, n)
    BY <1>2
  <2> DEFINE h == [i \in 0 .. N |-> IF i = n + 1 THEN FilteredNext(s, S, k, i) ELSE k[i]]
  <2>2. ASSUME NEW i \in 0 .. N, i <= n + 1 PROVE h[i] = FilteredNext(s, S, h, i)
    <3>1. i # 0 => h[i - 1] = k[i - 1]
      BY <1>0, <2>2
    <3>2. FilteredNext(s, S, h, i) = FilteredNext(s, S, k, i)
      BY <3>1 DEF FilteredNext
    <3>3. i # n + 1 => i <= n
      BY <2>2
    <3> QED
      BY <2>1, <3>2, <3>3
  <2>3. \E g : Upto(g, n + 1)
    <3>1. Upto(h, n + 1)
      BY <2>2
    <3> HIDE DEF h
    <3> QED
      BY <3>1
  <2> QED
    BY <2>3
<1> HIDE DEF T
<1>3. \A n \in Nat : n \in T
  BY <1>1, <1>2, NatSetInduction
<1>4. PICK k : Upto(k, N)
  BY <1>0, <1>3 DEF T
<1> DEFINE h == [i \in 0 .. N |-> k[i]]
<1>5. h = [i \in 0 .. N |-> FilteredNext(s, S, h, i)]
  <2> SUFFICES ASSUME NEW i \in 0 .. N PROVE k[i] = FilteredNext(s, S, h, i)
    OBVIOUS
  <2>1. i # 0 => h[i - 1] = k[i - 1]
    BY <1>0
  <2>2. FilteredNext(s, S, h, i) = FilteredNext(s, S, k, i)
    BY <2>1 DEF FilteredNext
  <2> QED
    BY <1>0, <1>4, <2>2
<1>6. \E g : g = [i \in 0 .. N |-> FilteredNext(s, S, g, i)]
  <2> HIDE DEF h
  <2> QED
    BY <1>5
<1>7. Filtered(s, S) = [i \in 0 .. N |-> FilteredNext(s, S, Filtered(s, S), i)]
  BY <1>6 DEF Filtered, N
<1> QED
  BY <1>7 DEF N

LEMMA OnlyIsFiltered ==
  ASSUME NEW s, NEW S
  PROVE  Only(s, S) = Filtered(s, S)[Len(s)]
BY DEF Only, Filtered, FilteredNext

\* t consists of the elements of s at the positions of g, which are those of the
\* first n that are in S, in their order.
Selects(t, g, s, S, n) ==
  /\ g \in [1 .. Len(t) -> 1 .. n]
  /\ \A k \in 1 .. Len(t) : t[k] = s[g[k]] /\ s[g[k]] \in S
  /\ \A j, k \in 1 .. Len(t) : j < k => g[j] < g[k]
  /\ \A i \in 1 .. n : s[i] \in S => \E k \in 1 .. Len(t) : g[k] = i

\* A filter keeps exactly the elements of S, in their order.
LEMMA OnlySelects ==
  ASSUME NEW A, NEW s \in Seq(A), NEW S
  PROVE  Only(s, S) \in Seq(A) /\ \E g : Selects(Only(s, S), g, s, S, Len(s))
<1> DEFINE N == Len(s)
           kept == Filtered(s, S)
           T == {n \in Nat : n <= N => kept[n] \in Seq(A) /\ \E g : Selects(kept[n], g, s, S, n)}
<1>0. N \in Nat
  OBVIOUS
<1>e. \A i \in 0 .. N : kept[i] = FilteredNext(s, S, kept, i)
  BY FilteredEquation
<1>a. \A i \in 1 .. N : s[i] \in A
  OBVIOUS
<1> HIDE DEF N, kept
<1>1. 0 \in T
  <2>1. kept[0] = <<>>
    BY <1>0, <1>e DEF FilteredNext
  <2>2. Selects(<<>>, <<>>, s, S, 0)
    BY DEF Selects
  <2>3. \E g : Selects(kept[0], g, s, S, 0)
    BY <2>1, <2>2
  <2>4. kept[0] \in Seq(A)
    BY <2>1
  <2> QED
    BY <2>3, <2>4
<1>2. ASSUME NEW n \in Nat, n \in T PROVE n + 1 \in T
  <2> SUFFICES ASSUME n + 1 <= N
               PROVE  kept[n + 1] \in Seq(A) /\ \E g : Selects(kept[n + 1], g, s, S, n + 1)
    OBVIOUS
  <2> DEFINE t == kept[n]
             x == s[n + 1]
  <2>1. t \in Seq(A) /\ \E g : Selects(t, g, s, S, n)
    BY <1>0, <1>2
  <2>2. PICK g : Selects(t, g, s, S, n)
    BY <2>1
  <2>3. kept[n + 1] = IF x \in S THEN Append(t, x) ELSE t
    <3>1. n + 1 \in 0 .. N /\ n + 1 # 0 /\ (n + 1) - 1 = n
      BY <1>0
    <3> QED
      BY <1>e, <3>1 DEF FilteredNext
  <2>4. x \in A
    BY <1>0, <1>a
  <2> HIDE DEF t
  <2>n. Len(t) \in Nat
    BY <2>1
  <2>5. CASE x \in S
    <3> DEFINE u == Append(t, x)
               h == [k \in 1 .. Len(t) + 1 |-> IF k = Len(t) + 1 THEN n + 1 ELSE g[k]]
    <3>1. u \in Seq(A) /\ Len(u) = Len(t) + 1 /\ u[Len(t) + 1] = x
          /\ \A k \in 1 .. Len(t) : u[k] = t[k]
      BY <2>1, <2>4
    <3> HIDE DEF u
    <3>2. h \in [1 .. Len(u) -> 1 .. n + 1]
      BY <2>2, <2>n, <3>1 DEF Selects
    <3>3. \A k \in 1 .. Len(u) : u[k] = s[h[k]] /\ s[h[k]] \in S
      BY <2>2, <2>n, <2>5, <3>1 DEF Selects
    <3>4. ASSUME NEW j \in 1 .. Len(u), NEW k \in 1 .. Len(u), j < k PROVE h[j] < h[k]
      <4>1. j \in 1 .. Len(t) /\ g[j] \in 1 .. n /\ h[j] = g[j]
        BY <2>2, <2>n, <3>1, <3>4 DEF Selects
      <4>2. CASE k = Len(t) + 1
        <5>1. h[k] = n + 1
          BY <3>1, <4>2
        <5> QED
          BY <4>1, <5>1
      <4>3. CASE k # Len(t) + 1
        <5>1. k \in 1 .. Len(t) /\ h[k] = g[k]
          BY <2>n, <3>1, <4>3
        <5> QED
          BY <2>2, <3>4, <4>1, <5>1 DEF Selects
      <4> QED
        BY <4>2, <4>3
    <3>5. ASSUME NEW i \in 1 .. n + 1, s[i] \in S PROVE \E k \in 1 .. Len(u) : h[k] = i
      <4>1. CASE i = n + 1
        <5>1. Len(t) + 1 \in 1 .. Len(u) /\ h[Len(t) + 1] = i
          BY <2>n, <3>1, <4>1
        <5> QED
          BY <5>1
      <4>2. CASE i # n + 1
        <5>1. i \in 1 .. n
          BY <4>2
        <5>2. PICK k \in 1 .. Len(t) : g[k] = i
          BY <2>2, <3>5, <5>1 DEF Selects
        <5>3. k \in 1 .. Len(u) /\ h[k] = i
          BY <2>n, <3>1, <5>2
        <5> QED
          BY <5>3
      <4> QED
        BY <4>1, <4>2
    <3> HIDE DEF h
    <3>6. Selects(u, h, s, S, n + 1)
      BY <3>2, <3>3, <3>4, <3>5 DEF Selects
    <3>7. kept[n + 1] = u
      BY <2>3, <2>5 DEF u
    <3> QED
      BY <3>1, <3>6, <3>7
  <2>6. CASE x \notin S
    <3>1. Selects(t, g, s, S, n + 1)
      <4>1. g \in [1 .. Len(t) -> 1 .. n + 1]
        BY <2>2 DEF Selects
      <4>2. \A i \in 1 .. n + 1 : i = n + 1 \/ i \in 1 .. n
        OBVIOUS
      <4> QED
        BY <2>2, <2>6, <4>1, <4>2 DEF Selects
    <3> QED
      BY <2>1, <2>3, <2>6, <3>1
  <2> QED
    BY <2>5, <2>6
<1> HIDE DEF T
<1>3. \A n \in Nat : n \in T
  BY <1>1, <1>2, NatSetInduction
<1>4. kept[N] \in Seq(A) /\ \E g : Selects(kept[N], g, s, S, N)
  BY <1>0, <1>3 DEF T
<1> QED
  BY <1>4, OnlyIsFiltered DEF N, kept

LEMMA CardUpto ==
  ASSUME NEW n \in Nat
  PROVE  IsFiniteSet(1 .. n) /\ Cardinality(1 .. n) = n
<1>1. IsFiniteSet(1 .. n) /\ Cardinality(1 .. n) = IF 1 > n THEN 0 ELSE n - 1 + 1
  BY FS_Interval
<1> QED
  BY <1>1

LEMMA SetType ==
  ASSUME NEW A, NEW s \in Seq(A)
  PROVE  /\ Set(s) \subseteq A /\ IsFiniteSet(Set(s))
         /\ DOMAIN s = 1 .. Len(s) /\ Len(s) \in Nat
         /\ Cardinality(Set(s)) <= Len(s)
<1>1. DOMAIN s = 1 .. Len(s) /\ Len(s) \in Nat /\ \A i \in 1 .. Len(s) : s[i] \in A
  OBVIOUS
<1>2. Set(s) = {s[i] : i \in 1 .. Len(s)}
  BY <1>1 DEF Set
<1>3. s \in Surjection(1 .. Len(s), Set(s))
  <2>1. s \in [1 .. Len(s) -> Set(s)]
    BY <1>1, <1>2
  <2> QED
    BY <1>2, <2>1 DEF Surjection
<1>4. IsFiniteSet(1 .. Len(s)) /\ Cardinality(1 .. Len(s)) = Len(s)
  BY <1>1, CardUpto
<1>5. IsFiniteSet(Set(s)) /\ Cardinality(Set(s)) <= Cardinality(1 .. Len(s))
  BY <1>3, <1>4, FS_Surjection
<1> QED
  BY <1>1, <1>2, <1>4, <1>5

\* A function on 1 .. n is a queue of length n.
LEMMA SeqOfMap ==
  ASSUME NEW n \in Nat, NEW A, NEW u \in [1 .. n -> A]
  PROVE  u \in Seq(A) /\ DOMAIN u = 1 .. n /\ Len(u) = n
<1>1. u \in UNION {[1 .. m -> A] : m \in Nat}
  OBVIOUS
<1>2. u \in Seq(A)
  BY <1>1, SeqDef, Zenon
<1>3. DOMAIN u = 1 .. n /\ DOMAIN u = 1 .. Len(u) /\ Len(u) \in Nat
  BY <1>2
<1> QED
  BY <1>2, <1>3

\* A queue without repetitions has as many elements as positions.
LEMMA InjectiveCard ==
  ASSUME NEW A, NEW s \in Seq(A), IsInjective(s)
  PROVE  Cardinality(Set(s)) = Len(s)
<1>1. DOMAIN s = 1 .. Len(s) /\ Len(s) \in Nat /\ IsFiniteSet(Set(s))
  BY SetType
<1>2. s \in [1 .. Len(s) -> Set(s)]
  BY <1>1 DEF Set
<1>3. s \in Surjection(1 .. Len(s), Set(s)) /\ s \in Injection(1 .. Len(s), Set(s))
  BY <1>1, <1>2 DEF Surjection, Injection, Set
<1>4. IsFiniteSet(1 .. Len(s)) /\ Cardinality(1 .. Len(s)) = Len(s)
  BY <1>1, CardUpto
<1> QED
  BY <1>3, <1>4, FS_Surjection

\* A filter keeps the elements of S and no position twice.
LEMMA OnlyFacts ==
  ASSUME NEW A, NEW s \in Seq(A), NEW S
  PROVE  /\ Only(s, S) \in Seq(A)
         /\ Set(Only(s, S)) = Set(s) \cap S
         /\ Len(Only(s, S)) <= Len(s)
         /\ IsInjective(s) => IsInjective(Only(s, S))
<1> DEFINE t == Only(s, S)
<1>1. t \in Seq(A) /\ \E g : Selects(t, g, s, S, Len(s))
  BY OnlySelects
<1>2. PICK g : Selects(t, g, s, S, Len(s))
  BY <1>1
<1> HIDE DEF t
<1>3. DOMAIN t = 1 .. Len(t) /\ Len(t) \in Nat /\ DOMAIN s = 1 .. Len(s) /\ Len(s) \in Nat
  BY <1>1
<1>4. Set(t) = Set(s) \cap S
  BY <1>2, <1>3 DEF Selects, Set
<1>5. \A j, k \in 1 .. Len(t) : j # k => g[j] # g[k]
  BY <1>2, <1>3 DEF Selects
<1>6. Len(t) <= Len(s)
  <2>1. g \in Injection(1 .. Len(t), 1 .. Len(s))
    BY <1>2, <1>5 DEF Selects, Injection, IsInjective
  <2>2. /\ IsFiniteSet(1 .. Len(s)) /\ Cardinality(1 .. Len(s)) = Len(s)
        /\ Cardinality(1 .. Len(t)) = Len(t)
    BY <1>3, CardUpto
  <2>3. Cardinality(1 .. Len(t)) <= Cardinality(1 .. Len(s))
    BY <2>1, <2>2, FS_Injection
  <2> QED
    BY <2>2, <2>3
<1>7. ASSUME IsInjective(s), NEW j \in DOMAIN t, NEW k \in DOMAIN t, t[j] = t[k] PROVE j = k
  <2>1. s[g[j]] = s[g[k]] /\ g[j] \in DOMAIN s /\ g[k] \in DOMAIN s
    BY <1>2, <1>3, <1>7 DEF Selects
  <2>2. g[j] = g[k]
    BY <1>7, <2>1 DEF IsInjective
  <2> QED
    BY <1>3, <1>5, <2>2
<1> QED
  BY <1>1, <1>4, <1>6, <1>7 DEF t, IsInjective

LEMMA WithoutFacts ==
  ASSUME NEW A, NEW s \in Seq(A), NEW S
  PROVE  /\ Without(s, S) \in Seq(A)
         /\ Set(Without(s, S)) = Set(s) \ S
         /\ Len(Without(s, S)) <= Len(s)
         /\ IsInjective(s) => IsInjective(Without(s, S))
<1> DEFINE T == Set(s) \ S
<1>1. Without(s, S) = Only(s, T)
  BY DEF Without
<1>2. Set(s) \cap T = Set(s) \ S
  OBVIOUS
<1> HIDE DEF T
<1> QED
  BY <1>1, <1>2, OnlyFacts

LEMMA SetAppend ==
  ASSUME NEW A, NEW s \in Seq(A), NEW x \in A
  PROVE  /\ Append(s, x) \in Seq(A)
         /\ Set(Append(s, x)) = Set(s) \cup {x}
         /\ IsInjective(s) /\ x \notin Set(s) => IsInjective(Append(s, x))
<1> DEFINE t == Append(s, x)
<1>1. /\ t \in Seq(A) /\ Len(t) = Len(s) + 1 /\ Len(s) \in Nat /\ t[Len(s) + 1] = x
      /\ \A i \in 1 .. Len(s) : t[i] = s[i]
      /\ DOMAIN t = 1 .. Len(s) + 1 /\ DOMAIN s = 1 .. Len(s)
  OBVIOUS
<1> HIDE DEF t
<1>2. \A i \in 1 .. Len(s) + 1 : i = Len(s) + 1 \/ i \in 1 .. Len(s)
  BY <1>1
<1>3. Set(t) = Set(s) \cup {x}
  <2>1. Len(s) + 1 \in 1 .. Len(s) + 1 /\ 1 .. Len(s) \subseteq 1 .. Len(s) + 1
    BY <1>1
  <2> QED
    BY <1>1, <1>2, <2>1 DEF Set
<1>4. ASSUME IsInjective(s), x \notin Set(s), NEW j \in DOMAIN t, NEW k \in DOMAIN t, t[j] = t[k]
      PROVE  j = k
  BY <1>1, <1>2, <1>4 DEF Set, IsInjective
<1> QED
  BY <1>1, <1>3, <1>4 DEF t, IsInjective

LEMMA SetConcat ==
  ASSUME NEW A, NEW s \in Seq(A), NEW t \in Seq(A)
  PROVE  /\ s \o t \in Seq(A)
         /\ Set(s \o t) = Set(s) \cup Set(t)
         /\ IsInjective(s) /\ IsInjective(t) /\ Set(s) \cap Set(t) = {} => IsInjective(s \o t)
<1> DEFINE u == s \o t
           n == Len(s)
           m == Len(t)
<1>1. /\ n \in Nat /\ m \in Nat /\ u \in Seq(A) /\ Len(u) = n + m
      /\ DOMAIN u = 1 .. n + m /\ DOMAIN s = 1 .. n /\ DOMAIN t = 1 .. m
      /\ \A i \in 1 .. n : u[i] = s[i]
      /\ \A i \in 1 .. m : u[n + i] = t[i]
  OBVIOUS
<1> HIDE DEF u, n, m
<1>2. \A i \in 1 .. n + m : i \in 1 .. n \/ (i - n \in 1 .. m /\ n + (i - n) = i)
  BY <1>1
<1>2a. \A i \in 1 .. n + m : ~ (i \in 1 .. n) => u[i] = t[i - n]
  BY <1>1, <1>2
<1>3. Set(u) = Set(s) \cup Set(t)
  <2>1. 1 .. n \subseteq 1 .. n + m /\ \A i \in 1 .. m : n + i \in 1 .. n + m
    BY <1>1
  <2>2. ASSUME NEW i \in DOMAIN u PROVE u[i] \in Set(s) \cup Set(t)
    <3>1. CASE i \in 1 .. n
      BY <1>1, <3>1 DEF Set
    <3>2. CASE ~ (i \in 1 .. n)
      BY <1>1, <1>2, <1>2a, <3>2 DEF Set
    <3> QED
      BY <3>1, <3>2
  <2>3. ASSUME NEW i \in DOMAIN s PROVE s[i] \in Set(u)
    BY <1>1, <2>1 DEF Set
  <2>4. ASSUME NEW i \in DOMAIN t PROVE t[i] \in Set(u)
    BY <1>1, <2>1 DEF Set
  <2> QED
    BY <2>2, <2>3, <2>4 DEF Set
<1>4. ASSUME IsInjective(s), IsInjective(t), Set(s) \cap Set(t) = {},
             NEW j \in DOMAIN u, NEW k \in DOMAIN u, u[j] = u[k]
      PROVE  j = k
  <2>1. CASE j \in 1 .. n /\ k \in 1 .. n
    BY <1>1, <1>4, <2>1 DEF IsInjective
  <2>2. CASE ~ (j \in 1 .. n) /\ ~ (k \in 1 .. n)
    <3>1. j - n \in DOMAIN t /\ k - n \in DOMAIN t /\ t[j - n] = t[k - n]
      BY <1>1, <1>2, <1>2a, <1>4, <2>2
    <3>2. j - n = k - n
      BY <1>4, <3>1 DEF IsInjective
    <3> QED
      BY <1>1, <3>2
  <2>3. CASE j \in 1 .. n /\ ~ (k \in 1 .. n)
    <3>1. s[j] \in Set(s) /\ k - n \in DOMAIN t /\ t[k - n] = s[j]
      BY <1>1, <1>2, <1>2a, <1>4, <2>3 DEF Set
    <3> QED
      BY <1>4, <3>1 DEF Set
  <2>4. CASE ~ (j \in 1 .. n) /\ k \in 1 .. n
    <3>1. s[k] \in Set(s) /\ j - n \in DOMAIN t /\ t[j - n] = s[k]
      BY <1>1, <1>2, <1>2a, <1>4, <2>4 DEF Set
    <3> QED
      BY <1>4, <3>1 DEF Set
  <2> QED
    BY <2>1, <2>2, <2>3, <2>4
<1> QED
  BY <1>1, <1>3, <1>4 DEF u, IsInjective

\* A queue falls into its first n elements and the rest.
LEMMA SetSplit ==
  ASSUME NEW A, NEW s \in Seq(A), NEW n \in 0 .. Len(s)
  PROVE  LET a == SubSeq(s, 1, n)
             b == SubSeq(s, n + 1, Len(s))
         IN  /\ a \in Seq(A) /\ Len(a) = n
             /\ b \in Seq(A) /\ Len(b) = Len(s) - n
             /\ Set(s) = Set(a) \cup Set(b)
             /\ IsInjective(s) => IsInjective(a) /\ IsInjective(b) /\ Set(a) \cap Set(b) = {}
<1> DEFINE a == SubSeq(s, 1, n)
           b == SubSeq(s, n + 1, Len(s))
           N == Len(s)
<1>1. N \in Nat /\ n \in Nat /\ n <= N /\ DOMAIN s = 1 .. N
  OBVIOUS
<1>2. /\ a \in Seq(A) /\ Len(a) = n /\ DOMAIN a = 1 .. n
      /\ \A i \in 1 .. n : a[i] = s[i]
  OBVIOUS
<1>3. /\ b \in Seq(A) /\ Len(b) = N - n /\ DOMAIN b = 1 .. N - n
      /\ \A i \in 1 .. N - n : b[i] = s[n + i]
  OBVIOUS
<1> HIDE DEF a, b, N
<1>4. \A i \in 1 .. N : i \in 1 .. n \/ (i - n \in 1 .. N - n /\ n + (i - n) = i)
  BY <1>1
<1>5. 1 .. n \subseteq 1 .. N /\ \A i \in 1 .. N - n : n + i \in 1 .. N /\ n + i > n
  BY <1>1
<1>6. Set(s) = Set(a) \cup Set(b)
  <2>1. ASSUME NEW i \in DOMAIN s PROVE s[i] \in Set(a) \cup Set(b)
    <3>1. CASE i \in 1 .. n
      BY <1>2, <3>1 DEF Set
    <3>2. CASE ~ (i \in 1 .. n)
      <4>1. i - n \in DOMAIN b /\ b[i - n] = s[i]
        BY <1>1, <1>3, <1>4, <3>2
      <4> QED
        BY <4>1 DEF Set
    <3> QED
      BY <3>1, <3>2
  <2>2. ASSUME NEW i \in DOMAIN a PROVE a[i] \in Set(s)
    BY <1>1, <1>2, <1>5 DEF Set
  <2>3. ASSUME NEW i \in DOMAIN b PROVE b[i] \in Set(s)
    BY <1>1, <1>3, <1>5 DEF Set
  <2> QED
    BY <2>1, <2>2, <2>3 DEF Set
<1>7. ASSUME IsInjective(s) PROVE IsInjective(a) /\ IsInjective(b) /\ Set(a) \cap Set(b) = {}
  <2>1. IsInjective(a)
    BY <1>1, <1>2, <1>5, <1>7 DEF IsInjective
  <2>2. IsInjective(b)
    <3> SUFFICES ASSUME NEW i \in DOMAIN b, NEW j \in DOMAIN b, b[i] = b[j] PROVE i = j
      BY DEF IsInjective
    <3>1. s[n + i] = s[n + j] /\ n + i \in DOMAIN s /\ n + j \in DOMAIN s
      BY <1>1, <1>3, <1>5
    <3>2. n + i = n + j
      BY <1>7, <3>1 DEF IsInjective
    <3> QED
      BY <1>1, <1>3, <3>2
  <2>3. Set(a) \cap Set(b) = {}
    <3> SUFFICES ASSUME NEW i \in DOMAIN a, NEW j \in DOMAIN b, a[i] = b[j] PROVE FALSE
      BY DEF Set
    <3>1. s[i] = s[n + j] /\ i \in DOMAIN s /\ n + j \in DOMAIN s
      BY <1>1, <1>2, <1>3, <1>5
    <3>2. i = n + j
      BY <1>7, <3>1 DEF IsInjective
    <3> QED
      BY <1>1, <1>2, <1>3, <3>2
  <2> QED
    BY <2>1, <2>2, <2>3
<1> QED
  BY <1>2, <1>3, <1>6, <1>7 DEF a, b, N

\* The first k elements are the first k - 1 and the k-th.
LEMMA PrefixStep ==
  ASSUME NEW A, NEW s \in Seq(A), NEW k \in 1 .. Len(s)
  PROVE  /\ Set(SubSeq(s, 1, k)) = Set(SubSeq(s, 1, k - 1)) \cup {s[k]}
         /\ IsInjective(s) => s[k] \notin Set(SubSeq(s, 1, k - 1))
<1> DEFINE a == SubSeq(s, 1, k)
           b == SubSeq(s, 1, k - 1)
<1>1. k \in Nat /\ k >= 1 /\ k \in DOMAIN s /\ 1 .. k - 1 \subseteq DOMAIN s
  OBVIOUS
<1>2. DOMAIN a = 1 .. k /\ \A i \in 1 .. k : a[i] = s[i]
  OBVIOUS
<1>3. DOMAIN b = 1 .. k - 1 /\ \A i \in 1 .. k - 1 : b[i] = s[i]
  OBVIOUS
<1>4. 1 .. k = (1 .. k - 1) \cup {k} /\ k \notin 1 .. k - 1
  BY <1>1
<1> HIDE DEF a, b
<1>5. Set(a) = Set(b) \cup {s[k]}
  BY <1>2, <1>3, <1>4 DEF Set
<1>6. ASSUME IsInjective(s) PROVE s[k] \notin Set(b)
  BY <1>1, <1>3, <1>4, <1>6 DEF Set, IsInjective
<1> QED
  BY <1>5, <1>6 DEF a, b
-----------------------------------------------------------------------------
(* Whole pages.                                                            *)

\* The pages of size p that n tokens fill or begin.
RoundUp(n, p) == (n + p - 1) \div p

\* They are enough for the tokens, and not a page more.
LEMMA RoundUpBounds ==
  ASSUME NEW p \in Nat \ {0}, NEW n \in Nat
  PROVE  /\ RoundUp(n, p) \in Nat
         /\ n <= p * RoundUp(n, p) /\ p * RoundUp(n, p) <= n + p - 1
         /\ n = 0 => RoundUp(n, p) = 0
         /\ RoundUp(n + 1, p) = RoundUp(n, p) + (IF n % p = 0 THEN 1 ELSE 0)
<1> DEFINE a == RoundUp(n, p)
           b == RoundUp(n + 1, p)
           d == n \div p
           m == n % p
<1>0. p \in Nat /\ p > 0
  OBVIOUS
<1>1. a \in Int /\ p * a <= n + p - 1 /\ n + p - 1 < p * a + p
  BY <1>0 DEF RoundUp
<1>2. b \in Int /\ p * b <= n + 1 + p - 1 /\ n + 1 + p - 1 < p * b + p
  BY <1>0 DEF RoundUp
<1>3. d \in Int /\ m \in 0 .. p - 1 /\ n = p * d + m
  BY <1>0
<1> HIDE DEF a, b, d, m
<1>4. a >= 0
  <2> SUFFICES ASSUME a <= -1 PROVE FALSE
    BY <1>1
  <2>1. p * a <= p * (-1)
    BY <1>0, <1>1
  <2> QED
    BY <1>0, <1>1, <2>1
<1>5. n = 0 => a = 0
  <2> SUFFICES ASSUME n = 0, a >= 1 PROVE FALSE
    BY <1>1, <1>4
  <2>1. p * a >= p * 1
    BY <1>0, <1>1
  <2> QED
    BY <1>0, <1>1, <2>1
<1>6. CASE m = 0
  <2>1. b = d + 1 /\ a = d
    <3>1. ASSUME a >= d + 1 PROVE FALSE
      <4>1. p * a >= p * (d + 1) /\ p * (d + 1) = p * d + p
        BY <1>0, <1>1, <1>3, <3>1
      <4> QED
        BY <1>0, <1>1, <1>3, <1>6, <4>1
    <3>2. ASSUME a <= d - 1 PROVE FALSE
      <4>1. p * a <= p * (d - 1) /\ p * (d - 1) = p * d - p
        BY <1>0, <1>1, <1>3, <3>2
      <4> QED
        BY <1>0, <1>1, <1>3, <1>6, <4>1
    <3>3. ASSUME b >= d + 2 PROVE FALSE
      <4>1. p * b >= p * (d + 2) /\ p * (d + 2) = p * d + 2 * p
        BY <1>0, <1>2, <1>3, <3>3
      <4> QED
        BY <1>0, <1>2, <1>3, <1>6, <4>1
    <3>4. ASSUME b <= d PROVE FALSE
      <4>1. p * b <= p * d
        BY <1>0, <1>2, <1>3, <3>4
      <4> QED
        BY <1>0, <1>2, <1>3, <1>6, <4>1
    <3> QED
      BY <1>1, <1>2, <1>3, <3>1, <3>2, <3>3, <3>4
  <2> QED
    BY <1>0, <1>1, <1>3, <1>4, <1>5, <1>6, <2>1 DEF a, b, m
<1>7. CASE m # 0
  <2>1. b = d + 1 /\ a = d + 1
    <3>1. ASSUME a >= d + 2 PROVE FALSE
      <4>1. p * a >= p * (d + 2) /\ p * (d + 2) = p * d + 2 * p
        BY <1>0, <1>1, <1>3, <3>1
      <4> QED
        BY <1>0, <1>1, <1>3, <1>7, <4>1
    <3>2. ASSUME a <= d PROVE FALSE
      <4>1. p * a <= p * d
        BY <1>0, <1>1, <1>3, <3>2
      <4> QED
        BY <1>0, <1>1, <1>3, <1>7, <4>1
    <3>3. ASSUME b >= d + 2 PROVE FALSE
      <4>1. p * b >= p * (d + 2) /\ p * (d + 2) = p * d + 2 * p
        BY <1>0, <1>2, <1>3, <3>3
      <4> QED
        BY <1>0, <1>2, <1>3, <1>7, <4>1
    <3>4. ASSUME b <= d PROVE FALSE
      <4>1. p * b <= p * d
        BY <1>0, <1>2, <1>3, <3>4
      <4> QED
        BY <1>0, <1>2, <1>3, <1>7, <4>1
    <3> QED
      BY <1>1, <1>2, <1>3, <3>1, <3>2, <3>3, <3>4
  <2> QED
    BY <1>0, <1>1, <1>3, <1>4, <1>5, <1>7, <2>1 DEF a, b, m
<1> QED
  BY <1>6, <1>7

\* More tokens do not take fewer pages.
LEMMA RoundUpMonotone ==
  ASSUME NEW p \in Nat \ {0}, NEW n \in Nat, NEW m \in Nat, n <= m
  PROVE  RoundUp(n, p) <= RoundUp(m, p)
<1> DEFINE a == RoundUp(n, p)
           b == RoundUp(m, p)
<1>1. /\ a \in Nat /\ b \in Nat
      /\ n <= p * a /\ p * a <= n + p - 1 /\ m <= p * b /\ p * b <= m + p - 1
  BY RoundUpBounds
<1> HIDE DEF a, b
<1> SUFFICES ASSUME a >= b + 1 PROVE FALSE
  BY <1>1 DEF a, b
<1>2. p * a >= p * (b + 1) /\ p * (b + 1) = p * b + p
  BY <1>1
<1> QED
  BY <1>1, <1>2

\* The image of a finite set.
LEMMA ImageCard ==
  ASSUME NEW I, IsFiniteSet(I), NEW f
  PROVE  LET T == {f[i] : i \in I}
         IN  /\ IsFiniteSet(T) /\ Cardinality(T) \in Nat /\ Cardinality(I) \in Nat
             /\ Cardinality(T) <= Cardinality(I)
             /\ (\A i, j \in I : f[i] = f[j] => i = j) => Cardinality(T) = Cardinality(I)
<1> DEFINE T == {f[i] : i \in I}
           g == [i \in I |-> f[i]]
<1>1. g \in [I -> T] /\ \A t \in T : \E i \in I : g[i] = t
  OBVIOUS
<1>2. (\A i, j \in I : f[i] = f[j] => i = j) => (\A i, j \in I : g[i] = g[j] => i = j)
  OBVIOUS
<1> HIDE DEF g, T
<1>3. g \in Surjection(I, T)
  BY <1>1 DEF Surjection
<1>4. IsFiniteSet(T) /\ Cardinality(T) <= Cardinality(I)
      /\ (g \in Injection(I, T) => Cardinality(T) = Cardinality(I))
  BY <1>3, FS_Surjection
<1>5. ASSUME \A i, j \in I : f[i] = f[j] => i = j PROVE g \in Injection(I, T)
  BY <1>1, <1>2, <1>5 DEF Injection, IsInjective
<1> QED
  BY <1>4, <1>5, FS_CardinalityType DEF T

\* Disjoint sets are counted apart.
LEMMA DisjointCard ==
  ASSUME NEW A, NEW B, IsFiniteSet(A), IsFiniteSet(B), A \cap B = {}
  PROVE  /\ IsFiniteSet(A \cup B) /\ Cardinality(A \cup B) = Cardinality(A) + Cardinality(B)
         /\ Cardinality(A) \in Nat /\ Cardinality(B) \in Nat
<1>1. IsFiniteSet(A \cup B)
      /\ Cardinality(A \cup B) = Cardinality(A) + Cardinality(B) - Cardinality(A \cap B)
  BY FS_Union
<1>2. Cardinality(A \cap B) = 0
  BY FS_EmptySet
<1>3. Cardinality(A) \in Nat /\ Cardinality(B) \in Nat
  BY FS_CardinalityType
<1> QED
  BY <1>1, <1>2, <1>3

\* A set without some elements has at most that many less.
LEMMA LessCard ==
  ASSUME NEW A, NEW B, NEW C, IsFiniteSet(A), IsFiniteSet(B), IsFiniteSet(C), A \ B \subseteq C
  PROVE  /\ Cardinality(A) <= Cardinality(B) + Cardinality(C)
         /\ Cardinality(A) \in Nat /\ Cardinality(B) \in Nat /\ Cardinality(C) \in Nat
<1> DEFINE D == C \ B
<1>1. IsFiniteSet(D) /\ Cardinality(D) <= Cardinality(C)
  BY FS_Subset
<1>2. IsFiniteSet(B \cup D) /\ Cardinality(B \cup D) = Cardinality(B) + Cardinality(D)
      /\ Cardinality(D) \in Nat
  BY <1>1, DisjointCard
<1>3. Cardinality(A) <= Cardinality(B \cup D)
  <2>1. A \subseteq B \cup D
    OBVIOUS
  <2> QED
    BY <1>2, <2>1, FS_Subset
<1>4. Cardinality(A) \in Nat /\ Cardinality(B) \in Nat /\ Cardinality(C) \in Nat
  BY FS_CardinalityType
<1> HIDE DEF D
<1> QED
  BY <1>1, <1>2, <1>3, <1>4

\* Two finite sets together.
LEMMA JoinCard ==
  ASSUME NEW A, NEW B, IsFiniteSet(A), IsFiniteSet(B)
  PROVE  /\ IsFiniteSet(A \cup B) /\ Cardinality(A \cup B) \in Nat
         /\ Cardinality(A) \in Nat /\ Cardinality(B) \in Nat
         /\ Cardinality(A \cup B) <= Cardinality(A) + Cardinality(B)
<1>1. IsFiniteSet(A \cup B) /\ (A \cup B) \ A \subseteq B
  BY FS_Union
<1> QED
  BY <1>1, LessCard, FS_CardinalityType

\* The sum over one element.
LEMMA SumOne ==
  ASSUME NEW f, NEW r, f[r] \in Int
  PROVE  Total(f, {r}) = f[r]
<1>1. Total(f, {} \cup {r}) = f[r] + Total(f, {})
  <2>1. IsFiniteSet({}) /\ r \notin {} /\ \A x \in {} \cup {r} : f[x] \in Int
    BY FS_EmptySet
  <2> QED
    BY <2>1, SumAdd
<1>2. {} \cup {r} = {r}
  OBVIOUS
<1> QED
  BY <1>1, <1>2, SumEmpty

\* A list with no entries.
LEMMA EmptySet ==
  Set(<<>>) = {} /\ IsInjective(<<>>) /\ Len(<<>>) = 0 /\ DOMAIN <<>> = {}
BY DEF Set, IsInjective

\* A list without its last entry.
LEMMA FrontFacts ==
  ASSUME NEW A, NEW s \in Seq(A), Len(s) > 1, IsInjective(s)
  PROVE  LET t == SubSeq(s, 1, Len(s) - 1)
         IN  /\ t \in Seq(A) /\ Len(t) = Len(s) - 1 /\ t # <<>>
             /\ IsInjective(t) /\ Set(t) = Set(s) \ {s[Len(s)]}
             /\ s[Len(s)] \in A /\ s[Len(s)] \in Set(s)
<1> DEFINE t == SubSeq(s, 1, Len(s) - 1)
           n == Len(s)
<1>1. n \in Nat /\ DOMAIN s = 1 .. n /\ s[n] \in A /\ s[n] \in Set(s)
  BY DEF Set
<1>2. t \in Seq(A) /\ Len(t) = n - 1 /\ t # <<>> /\ DOMAIN t = 1 .. n - 1
      /\ \A i \in 1 .. n - 1 : t[i] = s[i]
  <2>1. n - 1 \in 0 .. Len(s)
    BY <1>1
  <2>2. t \in Seq(A) /\ Len(t) = n - 1
    BY <2>1, SetSplit
  <2>3. \A i \in 1 .. n - 1 : t[i] = s[i]
    BY <1>1
  <2> HIDE DEF t
  <2> QED
    BY <1>1, <2>2, <2>3, EmptySet
<1>6. n > 1
  OBVIOUS
<1> HIDE DEF t, n
<1>3. IsInjective(t)
  <2>1. \A i \in 1 .. n - 1 : i \in DOMAIN s
    BY <1>1
  <2> QED
    BY <1>2, <2>1 DEF IsInjective
<1>4. ASSUME NEW x \in Set(s), x # s[n] PROVE x \in Set(t)
  <2>1. PICK i \in 1 .. n : s[i] = x
    BY <1>1 DEF Set
  <2>2. i \in 1 .. n - 1
    BY <1>1, <1>4, <2>1
  <2> QED
    BY <1>2, <2>1, <2>2 DEF Set
<1>5. ASSUME NEW x \in Set(t) PROVE x \in Set(s) /\ x # s[n]
  <2>1. PICK i \in 1 .. n - 1 : t[i] = x
    BY <1>2, <1>5 DEF Set
  <2>2. i \in DOMAIN s /\ n \in DOMAIN s /\ i # n /\ s[i] = x
    BY <1>1, <1>2, <1>6, <2>1
  <2> QED
    BY <2>2 DEF Set, IsInjective
<1> QED
  BY <1>1, <1>2, <1>3, <1>4, <1>5 DEF t, n

-----------------------------------------------------------------------------
(* Pages and tokens.                                                       *)

\* More pages, more tokens.
LEMMA Scale ==
  ASSUME NEW p \in Nat, NEW i \in Int, NEW j \in Int, i <= j
  PROVE  i * p <= j * p /\ i * p \in Int /\ j * p \in Int
<1>1. PICK d \in Nat : j = i + d
  <2>1. j - i \in Nat /\ j = i + (j - i)
    OBVIOUS
  <2> QED
    BY <2>1
<1>2. j * p = i * p + d * p /\ d * p \in Nat /\ i * p \in Int
  BY <1>1
<1> QED
  BY <1>2

\* Strictly more pages, strictly more tokens.
LEMMA ScaleStrictly ==
  ASSUME NEW p \in Nat \ {0}, NEW i \in Nat, NEW j \in Nat, i < j
  PROVE  i * p < j * p
<1>1. (i + 1) * p <= j * p
  BY Scale
<1>2. (i + 1) * p = i * p + p
  OBVIOUS
<1>3. i * p \in Nat /\ j * p \in Nat
  OBVIOUS
<1> QED
  BY <1>1, <1>2, <1>3

\* Quotient and remainder are what multiplies and adds up to n.
LEMMA Division ==
  ASSUME NEW p \in Nat \ {0}, NEW n \in Nat
  PROVE  /\ n \div p \in Nat /\ n % p \in 0 .. p - 1
         /\ n = (n \div p) * p + (n % p)
         /\ \A q \in Int, m \in 0 .. p - 1 : n = q * p + m => n \div p = q /\ n % p = m
<1> DEFINE d == n \div p
           e == n % p
<1>1. d \in Nat /\ e \in 0 .. p - 1 /\ n = d * p + e
  OBVIOUS
<1> HIDE DEF d, e
<1>2. ASSUME NEW q \in Int, NEW m \in 0 .. p - 1, n = q * p + m
      PROVE  d = q /\ e = m
  <2>1. ~ (d < q)
    <3>1. SUFFICES ASSUME d + 1 <= q PROVE FALSE
      BY <1>1
    <3>2. (d + 1) * p <= q * p /\ q * p \in Int /\ (d + 1) * p \in Int
      BY <1>1, <3>1, Scale
    <3>3. (d + 1) * p = d * p + p /\ d * p \in Int
      BY <1>1
    <3> QED
      BY <1>1, <1>2, <3>2, <3>3
  <2>2. ~ (q < d)
    <3>1. SUFFICES ASSUME q + 1 <= d PROVE FALSE
      BY <1>1
    <3>2. (q + 1) * p <= d * p /\ d * p \in Int /\ (q + 1) * p \in Int
      BY <1>1, <3>1, Scale
    <3>3. (q + 1) * p = q * p + p /\ q * p \in Int
      OBVIOUS
    <3> QED
      BY <1>1, <1>2, <3>2, <3>3
  <2>3. d = q
    BY <1>1, <2>1, <2>2
  <2>4. q * p \in Int
    OBVIOUS
  <2> QED
    BY <1>1, <1>2, <2>3, <2>4
<1>3. \A q \in Int, m \in 0 .. p - 1 : n = q * p + m => d = q /\ e = m
  BY <1>2
<1>4. d = n \div p /\ e = n % p
  BY DEF d, e
<1> HIDE DEF d, e
<1> QED
  BY Zenon, <1>1, <1>3, <1>4

\* Division by any positive number.
LEMMA DivFacts ==
  ASSUME NEW p \in Nat, p > 0, NEW n \in Nat
  PROVE  n \div p \in Nat /\ p * (n \div p) <= n /\ n < p * (n \div p) + p
OBVIOUS

LEMMA IntDivFacts ==
  ASSUME NEW p \in Nat, p > 0, NEW n \in Int
  PROVE  n \div p \in Int /\ p * (n \div p) <= n /\ n < p * (n \div p) + p
OBVIOUS

LEMMA DivMod ==
  ASSUME NEW p \in Nat, p > 0, NEW n \in Nat
  PROVE  \E d \in Nat : n = p * d + (n % p)
<1>1. n \div p \in Nat /\ n = p * (n \div p) + (n % p)
  OBVIOUS
<1> QED
  BY <1>1

\* The pages for n tokens are just enough.
LEMMA WholeBounds ==
  ASSUME NEW p \in Nat \ {0}, NEW n \in Nat
  PROVE  /\ RoundUp(n, p) \in Nat /\ RoundUp(n, p) * p \in Nat
         /\ n <= RoundUp(n, p) * p /\ RoundUp(n, p) * p < n + p
<1> DEFINE a == RoundUp(n, p)
<1>1. a \in Nat /\ n <= p * a /\ p * a <= n + p - 1
  BY RoundUpBounds
<1> HIDE DEF a
<1>2. p * a = a * p /\ a * p \in Nat
  BY <1>1
<1> QED
  BY <1>1, <1>2 DEF a

\* The least number of pages that holds n tokens.
LEMMA WholeLeast ==
  ASSUME NEW p \in Nat \ {0}, NEW n \in Nat, NEW k \in Nat
  PROVE  RoundUp(n, p) <= k <=> n <= k * p
<1> DEFINE a == RoundUp(n, p)
<1>0. k * p \in Nat
  OBVIOUS
<1>1. a \in Nat /\ a * p \in Nat /\ n <= a * p /\ a * p < n + p
  BY Zenon, WholeBounds
<1> HIDE DEF a
<1>2. ASSUME a <= k PROVE n <= k * p
  BY <1>1, <1>2, Scale
<1>3. ASSUME n <= k * p, k < a PROVE FALSE
  <2>1. k + 1 \in Nat /\ k + 1 <= a
    BY <1>1, <1>3
  <2>2. (k + 1) * p <= a * p
    BY <1>1, <2>1, Scale
  <2>3. (k + 1) * p = k * p + p
    OBVIOUS
  <2> QED
    BY <1>0, <1>1, <1>3, <2>2, <2>3
<1> QED
  BY <1>1, <1>2, <1>3 DEF a

\* Whole pages need no page more.
LEMMA WholeExact ==
  ASSUME NEW p \in Nat \ {0}, NEW k \in Nat
  PROVE  RoundUp(k * p, p) = k
<1>1. k * p \in Nat
  OBVIOUS
<1> DEFINE a == RoundUp(k * p, p)
<1>2. a \in Nat /\ a <= k
  BY <1>1, WholeBounds, WholeLeast
<1>3. ASSUME a < k PROVE FALSE
  <2>1. a * p < k * p
    BY <1>2, <1>3, ScaleStrictly
  <2>2. k * p <= a * p /\ a * p \in Nat
    BY Zenon, <1>1, WholeBounds
  <2> QED
    BY <1>1, <2>1, <2>2
<1> QED
  BY <1>2, <1>3

\* The first token needs a page.
LEMMA WholePositive ==
  ASSUME NEW p \in Nat \ {0}, NEW n \in Nat
  PROVE  RoundUp(n, p) = 0 <=> n = 0
<1>1. RoundUp(n, p) \in Nat /\ (RoundUp(n, p) <= 0 <=> n <= 0 * p)
  BY WholeBounds, WholeLeast
<1>2. 0 * p = 0
  OBVIOUS
<1> QED
  BY <1>1, <1>2

\* Two lists of tokens need at most a page more apart than together.
LEMMA WholeSum ==
  ASSUME NEW p \in Nat \ {0}, NEW n \in Nat, NEW m \in Nat
  PROVE  RoundUp(n + m, p) <= RoundUp(n, p) + RoundUp(m, p)
<1> DEFINE a == RoundUp(n, p)
           b == RoundUp(m, p)
<1>1. a \in Nat /\ b \in Nat /\ n <= a * p /\ m <= b * p
      /\ a * p \in Nat /\ b * p \in Nat
  BY Zenon, WholeBounds
<1> HIDE DEF a, b
<1>2. (a + b) * p = a * p + b * p
  BY <1>1
<1>3. n + m <= (a + b) * p /\ a + b \in Nat /\ n + m \in Nat
  BY <1>1, <1>2
<1> QED
  BY <1>3, WholeLeast DEF a, b

\* Tokens behind whole pages need their own pages.
LEMMA WholeBehind ==
  ASSUME NEW p \in Nat \ {0}, NEW k \in Nat, NEW n \in Nat
  PROVE  RoundUp(k * p + n, p) = k + RoundUp(n, p)
<1> DEFINE a == RoundUp(n, p)
           b == RoundUp(k * p + n, p)
<1>0. k * p \in Nat /\ k * p + n \in Nat
  OBVIOUS
<1>1. a \in Nat /\ b \in Nat /\ n <= a * p /\ a * p \in Nat
      /\ k * p + n <= b * p /\ b * p \in Nat
  BY Zenon, <1>0, WholeBounds
<1>2. b <= k + a
  <2>1. RoundUp(k * p, p) = k
    BY WholeExact
  <2> QED
    BY <1>0, <2>1, WholeSum
<1>3. k <= b
  <2>1. RoundUp(k * p, p) <= b
    BY <1>0, RoundUpMonotone
  <2> QED
    BY <2>1, WholeExact
<1>4. a <= b - k
  <2>1. b - k \in Nat
    BY <1>1, <1>3
  <2>2. (b - k) * p = b * p - k * p
    BY <1>1
  <2>3. n <= (b - k) * p
    BY <1>0, <1>1, <2>2
  <2> QED
    BY <2>1, <2>3, WholeLeast
<1> HIDE DEF a, b
<1> QED
  BY <1>1, <1>2, <1>3, <1>4 DEF a, b

\* The whole pages of n tokens.
LEMMA WholeDiv ==
  ASSUME NEW p \in Nat \ {0}, NEW n \in Nat
  PROVE  /\ n \div p \in Nat
         /\ (n \div p) * p <= n
         /\ n < (n \div p) * p + p
<1> DEFINE d == n \div p
<1>1. d \in Nat /\ p * d <= n /\ n < p * d + p
  BY DivFacts
<1> HIDE DEF d
<1>2. d * p = p * d
  BY <1>1
<1> QED
  BY <1>1, <1>2 DEF d

LEMMA WholeDivLeast ==
  ASSUME NEW p \in Nat \ {0}, NEW n \in Nat, NEW k \in Nat
  PROVE  /\ k * p <= n => k <= n \div p
         /\ n \div p <= RoundUp(n, p)
         /\ n <= k * p => n \div p <= k
<1> DEFINE d == n \div p
           a == RoundUp(n, p)
<1>0. a \in Nat /\ a * p \in Nat /\ n <= a * p
  BY Zenon, WholeBounds
<1>1. d \in Nat /\ d * p <= n /\ n < d * p + p
  BY Zenon, WholeDiv
<1> HIDE DEF d, a
<1>5. d * p \in Nat /\ k * p \in Nat
  BY <1>1
<1>2. ASSUME k * p <= n, d < k PROVE FALSE
  <2>1. (d + 1) * p <= k * p /\ (d + 1) * p = d * p + p
    BY <1>1, <1>2, Scale
  <2> QED
    BY <1>1, <1>5, <1>2, <2>1
<1>3. ASSUME NEW j \in Nat, n <= j * p, j < d PROVE FALSE
  <2>1. j * p < d * p /\ j * p \in Nat
    BY <1>1, <1>3, ScaleStrictly
  <2> QED
    BY <1>1, <1>5, <1>3, <2>1
<1>4. d <= a
  BY <1>0, <1>1, <1>3
<1> QED
  BY <1>1, <1>2, <1>3, <1>4 DEF d, a
=============================================================================
