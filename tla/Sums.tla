-------------------------------- MODULE Sums --------------------------------
(* Sums of whole numbers over finite sets, as MapThenSumSet of the community *)
(* modules computes them, element by element: they do not depend on the      *)
(* order, and change by what is added, taken away or rewritten.  Induction   *)
(* is on sets of numbers, or of subsets, that are shown to be all of them.   *)
EXTENDS Integers, FiniteSetsExt, FiniteSetTheorems, WellFoundedInduction, TLAPS

(* The sum of f over S. *)
Sum(f, S) == MapThenSumSet(LAMBDA x : f[x], S)

-----------------------------------------------------------------------------
(* Induction *)

(* A set of numbers with 0 and, with any number, the next has all of them. *)
LEMMA AllNaturals ==
  ASSUME NEW T, 0 \in T, \A n \in Nat : n \in T => n + 1 \in T
  PROVE  Nat \subseteq T
<1> DEFINE Missing == Nat \ T
<1> SUFFICES ASSUME Missing # {} PROVE FALSE
  OBVIOUS
<1>1. PICK n \in Missing : \A m \in Missing : ~(<<m, n>> \in OpToRel(<, Nat))
  BY NatLessThanWellFounded, WFMin
<1>2. n \in Nat /\ n \notin T /\ n # 0
  BY <1>1
<1>3. \A m \in Missing : ~(m < n)
  BY <1>1 DEF OpToRel
<1>4. n - 1 \in Nat /\ n - 1 < n /\ (n - 1) + 1 = n
  BY <1>2
<1>5. n - 1 \in T
  BY <1>3, <1>4
<1>6. QED
  BY <1>2, <1>4, <1>5

(* A set of finite sets with {} and, with any of them, those of one element  *)
(* more of S, has every finite subset of S.                                  *)
LEMMA AllSubsets ==
  ASSUME NEW S, IsFiniteSet(S), NEW T,
         {} \in T, \A R \in SUBSET S : \A x \in S \ R : R \in T => R \cup {x} \in T
  PROVE  S \in T
<1> DEFINE Sizes == {n \in Nat : \A R \in SUBSET S : Cardinality(R) = n => R \in T}
<1>1. 0 \in Sizes
  <2>1. \A R \in SUBSET S : Cardinality(R) = 0 => R = {}
    BY FS_Subset, FS_EmptySet
  <2>2. QED
    BY <2>1
<1>2. ASSUME NEW n \in Nat, n \in Sizes PROVE n + 1 \in Sizes
  <2> SUFFICES ASSUME NEW R \in SUBSET S, Cardinality(R) = n + 1 PROVE R \in T
    OBVIOUS
  <2>1. IsFiniteSet(R) /\ R # {}
    BY FS_Subset, FS_EmptySet
  <2>2. PICK x \in R : TRUE
    BY <2>1
  <2>3. Cardinality(R \ {x}) = n
    <3>1. Cardinality(R \ {x}) = Cardinality(R) - 1
      BY <2>1, <2>2, FS_RemoveElement
    <3>2. QED
      BY <3>1
  <2>4. R \ {x} \in T
    BY <2>3, <1>2
  <2>5. R = (R \ {x}) \cup {x}
    BY <2>2
  <2>6. QED
    BY <2>2, <2>4, <2>5
<1>3. Cardinality(S) \in Sizes
  <2> HIDE DEF Sizes
  <2>1. QED
    BY <1>1, <1>2, AllNaturals, FS_CardinalityType
<1>4. QED
  BY <1>3

-----------------------------------------------------------------------------
(* The recursive function behind MapThenSumSet *)

Pick(s) == CHOOSE x \in s : TRUE
Totals(f, D) == CHOOSE iter : iter = [s \in D |-> IF s = {} THEN 0 ELSE f[Pick(s)] + iter[s \ {Pick(s)}]]

LEMMA PickIn == \A s : s # {} => Pick(s) \in s
  BY DEF Pick

LEMMA SumIsTotal == ASSUME NEW f, NEW S PROVE Sum(f, S) = Totals(f, SUBSET S)[S]
  BY DEF Sum, MapThenSumSet, MapThenFoldSet, Totals, Pick

(* There is such a function of the subsets of a finite set: one of those of  *)
(* up to n elements gives one of those of up to n + 1.                       *)
LEMMA TotalsExist ==
  ASSUME NEW S, IsFiniteSet(S), NEW f
  PROVE  \A s \in SUBSET S : Totals(f, SUBSET S)[s] =
           IF s = {} THEN 0 ELSE f[Pick(s)] + Totals(f, SUBSET S)[s \ {Pick(s)}]
<1> DEFINE UpTo(n) == {s \in SUBSET S : Cardinality(s) <= n}
           Fits(iter, D) == iter = [s \in D |-> IF s = {} THEN 0
                                                ELSE f[Pick(s)] + iter[s \ {Pick(s)}]]
           N == {n \in Nat : \E iter : Fits(iter, UpTo(n))}
<1>1. \A s \in SUBSET S : IsFiniteSet(s) /\ Cardinality(s) \in Nat
  BY FS_Subset, FS_CardinalityType
<1>2. 0 \in N
  <2>1. \A s \in UpTo(0) : s = {}
    BY <1>1, FS_EmptySet
  <2>2. Fits([s \in UpTo(0) |-> 0], UpTo(0))
    BY <2>1
  <2>3. QED
    BY <2>2
<1>3. ASSUME NEW n \in Nat, n \in N PROVE n + 1 \in N
  <2>1. PICK g : Fits(g, UpTo(n))
    BY <1>3
  <2> DEFINE h == [s \in UpTo(n + 1) |-> IF s = {} THEN 0 ELSE f[Pick(s)] + g[s \ {Pick(s)}]]
  <2>2. UpTo(n) \subseteq UpTo(n + 1)
    BY <1>1
  <2>3. \A s \in UpTo(n) : h[s] = g[s]
    BY <2>1, <2>2
  <2>4. ASSUME NEW s \in UpTo(n + 1), s # {} PROVE s \ {Pick(s)} \in UpTo(n)
    BY <1>1, <2>4, PickIn, FS_RemoveElement
  <2>5. Fits(h, UpTo(n + 1))
    BY <2>3, <2>4
  <2> HIDE DEF h, Fits
  <2>6. \E iter : Fits(iter, UpTo(n + 1))
    BY <2>5
  <2>7. QED
    BY <2>6
<1>4. Cardinality(S) \in N
  <2> HIDE DEF N
  <2>1. QED
    BY <1>2, <1>3, AllNaturals, FS_CardinalityType
<1>5. UpTo(Cardinality(S)) = SUBSET S
  BY FS_Subset
<1>6. \E iter : Fits(iter, SUBSET S)
  BY <1>4, <1>5
<1>7. Fits(Totals(f, SUBSET S), SUBSET S)
  BY <1>6 DEF Totals
<1>8. ASSUME NEW s \in SUBSET S
      PROVE  Totals(f, SUBSET S)[s] =
               IF s = {} THEN 0 ELSE f[Pick(s)] + Totals(f, SUBSET S)[s \ {Pick(s)}]
  <2> DEFINE t == Totals(f, SUBSET S)
  <2> HIDE DEF t
  <2>1. Fits(t, SUBSET S)
    BY <1>7 DEF t
  <2>2. t[s] = IF s = {} THEN 0 ELSE f[Pick(s)] + t[s \ {Pick(s)}]
    BY <2>1
  <2>3. QED
    BY <2>2 DEF t
<1>9. QED
  BY <1>8

(* What Totals gives a subset does not depend on the set it is a subset of. *)
LEMMA TotalsOfSubset ==
  ASSUME NEW S, IsFiniteSet(S), NEW f, NEW s \in SUBSET S
  PROVE  Totals(f, SUBSET S)[s] = Totals(f, SUBSET s)[s]
<1> DEFINE Same(R) == \A Q \in SUBSET S : R \subseteq Q =>
                         Totals(f, SUBSET S)[R] = Totals(f, SUBSET Q)[R]
           N == {n \in Nat : \A R \in SUBSET S : Cardinality(R) = n => Same(R)}
<1>1. \A Q \in SUBSET S : IsFiniteSet(Q)
  BY FS_Subset
<1>2. ASSUME NEW Q \in SUBSET S, NEW R \in SUBSET Q
      PROVE  Totals(f, SUBSET Q)[R] =
               IF R = {} THEN 0 ELSE f[Pick(R)] + Totals(f, SUBSET Q)[R \ {Pick(R)}]
  BY <1>1, TotalsExist
<1>3. 0 \in N
  <2>1. ASSUME NEW R \in SUBSET S, Cardinality(R) = 0, NEW Q \in SUBSET S
        PROVE  Totals(f, SUBSET S)[R] = Totals(f, SUBSET Q)[R]
    <3>1. R = {}
      BY <1>1, <2>1, FS_EmptySet
    <3>2. Totals(f, SUBSET S)[{}] = 0 /\ Totals(f, SUBSET Q)[{}] = 0
      BY <1>2
    <3>3. QED
      BY <3>1, <3>2
  <2>2. QED
    BY <2>1
<1>4. ASSUME NEW n \in Nat, n \in N PROVE n + 1 \in N
  <2>1. ASSUME NEW R \in SUBSET S, Cardinality(R) = n + 1, NEW Q \in SUBSET S, R \subseteq Q
        PROVE  Totals(f, SUBSET S)[R] = Totals(f, SUBSET Q)[R]
    <3> DEFINE P == R \ {Pick(R)}
    <3>1. R # {} /\ Pick(R) \in R
      BY <1>1, <2>1, FS_EmptySet, PickIn
    <3>2. Cardinality(P) = Cardinality(R) - 1
      BY <1>1, <3>1, FS_RemoveElement
    <3>3. Cardinality(P) = n
      BY <3>2, <2>1
    <3>4. Totals(f, SUBSET S)[P] = Totals(f, SUBSET Q)[P]
      BY <3>3, <1>4, <2>1
    <3>5. Totals(f, SUBSET S)[R] = f[Pick(R)] + Totals(f, SUBSET S)[P]
      BY <3>1, <1>2
    <3>6. Totals(f, SUBSET Q)[R] = f[Pick(R)] + Totals(f, SUBSET Q)[P]
      BY <3>1, <1>2, <2>1
    <3>7. QED
      BY <3>4, <3>5, <3>6
  <2>2. QED
    BY <2>1
<1>5. IsFiniteSet(s) /\ Cardinality(s) \in Nat
  BY <1>1, FS_CardinalityType
<1>6. Cardinality(s) \in N
  <2> HIDE DEF N
  <2>1. QED
    BY <1>3, <1>4, <1>5, AllNaturals
<1>7. Same(s)
  BY <1>6
<1>8. QED
  BY <1>7

LEMMA SumPick ==
  ASSUME NEW S, IsFiniteSet(S), S # {}, NEW f
  PROVE  Sum(f, S) = f[Pick(S)] + Sum(f, S \ {Pick(S)})
<1>1. Totals(f, SUBSET S)[S] = f[Pick(S)] + Totals(f, SUBSET S)[S \ {Pick(S)}]
  BY TotalsExist
<1>2. Totals(f, SUBSET S)[S \ {Pick(S)}] = Totals(f, SUBSET (S \ {Pick(S)}))[S \ {Pick(S)}]
  BY TotalsOfSubset
<1>3. QED
  BY <1>1, <1>2, SumIsTotal

-----------------------------------------------------------------------------
(* What the proofs use *)

LEMMA SumEmpty == ASSUME NEW f PROVE Sum(f, {}) = 0
<1>1. IsFiniteSet({})
  BY FS_EmptySet
<1>2. Totals(f, SUBSET {})[{}] = 0
  BY <1>1, TotalsExist
<1>3. QED
  BY <1>2, SumIsTotal

LEMMA SumType ==
  ASSUME NEW S, IsFiniteSet(S), NEW f, \A x \in S : f[x] \in Int
  PROVE  Sum(f, S) \in Int
<1> DEFINE N == {n \in Nat : \A R \in SUBSET S : Cardinality(R) = n => Sum(f, R) \in Int}
<1>1. \A R \in SUBSET S : IsFiniteSet(R) /\ Cardinality(R) \in Nat
  BY FS_Subset, FS_CardinalityType
<1>2. 0 \in N
  <2>1. \A R \in SUBSET S : Cardinality(R) = 0 => R = {}
    BY <1>1, FS_EmptySet
  <2>2. Sum(f, {}) \in Int
    BY SumEmpty
  <2>3. \A R \in SUBSET S : Cardinality(R) = 0 => Sum(f, R) \in Int
    BY <2>1, <2>2
  <2>4. QED
    BY <2>3
<1>3. ASSUME NEW n \in Nat, n \in N PROVE n + 1 \in N
  <2> SUFFICES ASSUME NEW R \in SUBSET S, Cardinality(R) = n + 1 PROVE Sum(f, R) \in Int
    OBVIOUS
  <2> DEFINE p == Pick(R)
  <2>1. R # {} /\ p \in R
    BY <1>1, FS_EmptySet, PickIn
  <2>2. Cardinality(R \ {p}) = Cardinality(R) - 1
    BY <1>1, <2>1, FS_RemoveElement
  <2>3. Sum(f, R) = f[p] + Sum(f, R \ {p})
    BY <1>1, <2>1, SumPick
  <2>4. Sum(f, R \ {p}) \in Int
    BY <2>2, <1>3
  <2>5. QED
    BY <2>1, <2>3, <2>4
<1>4. Cardinality(S) \in N
  <2> HIDE DEF N
  <2>1. QED
    BY <1>1, <1>2, <1>3, AllNaturals
<1>5. QED
  BY <1>4

(* Whichever element is taken out first. *)
LEMMA SumRemove ==
  ASSUME NEW S, IsFiniteSet(S), NEW f, \A y \in S : f[y] \in Int, NEW x \in S
  PROVE  Sum(f, S) = f[x] + Sum(f, S \ {x})
<1> DEFINE N == {n \in Nat : \A R \in SUBSET S : Cardinality(R) = n =>
                   \A y \in R : Sum(f, R) = f[y] + Sum(f, R \ {y})}
<1>1. \A R \in SUBSET S : IsFiniteSet(R) /\ Cardinality(R) \in Nat
  BY FS_Subset, FS_CardinalityType
<1>2. 0 \in N
  <2>1. \A R \in SUBSET S : Cardinality(R) = 0 => R = {}
    BY <1>1, FS_EmptySet
  <2>2. QED
    BY <2>1
<1>3. ASSUME NEW n \in Nat, n \in N PROVE n + 1 \in N
  <2> SUFFICES ASSUME NEW R \in SUBSET S, Cardinality(R) = n + 1, NEW y \in R
               PROVE  Sum(f, R) = f[y] + Sum(f, R \ {y})
    OBVIOUS
  <2> DEFINE p == Pick(R)
  <2>1. R # {} /\ p \in R
    BY <1>1, FS_EmptySet, PickIn
  <2>2. \A z \in R : Cardinality(R \ {z}) = n
    <3>1. \A z \in R : Cardinality(R \ {z}) = Cardinality(R) - 1
      BY <1>1, FS_RemoveElement
    <3>2. QED
      BY <3>1
  <2>4. Sum(f, R) = f[p] + Sum(f, R \ {p})
    BY <1>1, <2>1, SumPick
  <2> HIDE DEF p
  <2>6. CASE y # p
    <3>1. Sum(f, R \ {p}) = f[y] + Sum(f, (R \ {p}) \ {y})
      BY <2>1, <2>2, <2>6, <1>3
    <3>2. Sum(f, R \ {y}) = f[p] + Sum(f, (R \ {y}) \ {p})
      BY <2>1, <2>2, <2>6, <1>3
    <3>3. (R \ {p}) \ {y} = (R \ {y}) \ {p}
      OBVIOUS
    <3>4. Sum(f, (R \ {p}) \ {y}) \in Int
      BY <1>1, SumType
    <3>5. f[p] \in Int /\ f[y] \in Int
      BY <2>1
    <3> DEFINE rest == Sum(f, (R \ {p}) \ {y})
    <3>6. Sum(f, R \ {y}) = f[p] + rest /\ Sum(f, R) = f[p] + (f[y] + rest)
      BY <2>4, <3>1, <3>2, <3>3
    <3> HIDE DEF rest
    <3>7. rest \in Int
      BY <3>4 DEF rest
    <3>8. QED
      BY <3>5, <3>6, <3>7
  <2>7. QED
    BY <2>4, <2>6
<1>4. Cardinality(S) \in N
  <2> HIDE DEF N
  <2>1. QED
    BY <1>1, <1>2, <1>3, AllNaturals
<1>5. QED
  BY <1>4

LEMMA SumAdd ==
  ASSUME NEW S, IsFiniteSet(S), NEW x, x \notin S,
         NEW f, \A y \in S \cup {x} : f[y] \in Int
  PROVE  Sum(f, S \cup {x}) = f[x] + Sum(f, S)
<1>1. IsFiniteSet(S \cup {x}) /\ (S \cup {x}) \ {x} = S
  BY FS_AddElement
<1>2. Sum(f, S \cup {x}) = f[x] + Sum(f, (S \cup {x}) \ {x})
  BY <1>1, SumRemove
<1>3. QED
  BY <1>1, <1>2

(* Functions that agree on a set, or of which one is nowhere greater. *)
LEMMA SumSame ==
  ASSUME NEW S, IsFiniteSet(S), NEW f, NEW g, \A x \in S : f[x] = g[x] /\ f[x] \in Int
  PROVE  Sum(f, S) = Sum(g, S)
<1> DEFINE T == {R \in SUBSET S : Sum(f, R) = Sum(g, R)}
<1>1. {} \in T
  BY SumEmpty
<1>2. ASSUME NEW R \in SUBSET S, NEW x \in S \ R, R \in T PROVE R \cup {x} \in T
  <2>1. IsFiniteSet(R)
    BY FS_Subset
  <2>2. Sum(f, R \cup {x}) = f[x] + Sum(f, R) /\ Sum(g, R \cup {x}) = g[x] + Sum(g, R)
    BY <2>1, SumAdd
  <2>3. QED
    BY <1>2, <2>2
<1>3. S \in T
  <2> HIDE DEF T
  <2>1. QED
    BY <1>1, <1>2, AllSubsets
<1>4. QED
  BY <1>3

LEMMA SumLess ==
  ASSUME NEW S, IsFiniteSet(S), NEW f, NEW g,
         \A x \in S : f[x] \in Int /\ g[x] \in Int /\ f[x] <= g[x]
  PROVE  Sum(f, S) <= Sum(g, S)
<1> DEFINE T == {R \in SUBSET S : Sum(f, R) <= Sum(g, R)}
<1>1. {} \in T
  <2>1. Sum(f, {}) <= Sum(g, {})
    BY SumEmpty
  <2>2. QED
    BY <2>1
<1>2. ASSUME NEW R \in SUBSET S, NEW x \in S \ R, R \in T PROVE R \cup {x} \in T
  <2>1. IsFiniteSet(R)
    BY FS_Subset
  <2>2. Sum(f, R \cup {x}) = f[x] + Sum(f, R) /\ Sum(g, R \cup {x}) = g[x] + Sum(g, R)
    BY <2>1, SumAdd
  <2>3. Sum(f, R) \in Int /\ Sum(g, R) \in Int /\ Sum(f, R) <= Sum(g, R)
    BY <1>2, <2>1, SumType
  <2>4. f[x] \in Int /\ g[x] \in Int /\ f[x] <= g[x]
    OBVIOUS
  <2>5. Sum(f, R \cup {x}) <= Sum(g, R \cup {x})
    BY <2>2, <2>3, <2>4
  <2>6. QED
    BY <2>5
<1>3. S \in T
  <2> HIDE DEF T
  <2>1. QED
    BY <1>1, <1>2, AllSubsets
<1>4. QED
  BY <1>3

LEMMA SumZero ==
  ASSUME NEW S, IsFiniteSet(S), NEW f, \A x \in S : f[x] = 0
  PROVE  Sum(f, S) = 0
<1> DEFINE T == {R \in SUBSET S : Sum(f, R) = 0}
<1>1. {} \in T
  BY SumEmpty
<1>2. ASSUME NEW R \in SUBSET S, NEW x \in S \ R, R \in T PROVE R \cup {x} \in T
  <2>1. IsFiniteSet(R)
    BY FS_Subset
  <2>2. \A y \in R \cup {x} : f[y] \in Int
    OBVIOUS
  <2>3. Sum(f, R \cup {x}) = f[x] + Sum(f, R)
    BY <2>1, <2>2, SumAdd
  <2>4. QED
    BY <1>2, <2>3
<1>3. S \in T
  <2> HIDE DEF T
  <2>1. QED
    BY <1>1, <1>2, AllSubsets
<1>4. QED
  BY <1>3

LEMMA SumNatural ==
  ASSUME NEW S, IsFiniteSet(S), NEW f, \A x \in S : f[x] \in Nat
  PROVE  Sum(f, S) \in Nat
<1> DEFINE z == [x \in S |-> 0]
<1>1. Sum(z, S) = 0
  BY SumZero
<1>2. Sum(z, S) <= Sum(f, S)
  BY SumLess
<1>3. Sum(f, S) \in Int
  BY SumType
<1>4. QED
  BY <1>1, <1>2, <1>3

(* A part of the set adds up to no more than all of it. *)
LEMMA SumSubset ==
  ASSUME NEW S, IsFiniteSet(S), NEW f, \A x \in S : f[x] \in Nat, NEW R \in SUBSET S
  PROVE  Sum(f, R) <= Sum(f, S)
<1> DEFINE T == {Q \in SUBSET (S \ R) : Sum(f, R) <= Sum(f, R \cup Q)}
<1>1. IsFiniteSet(R) /\ IsFiniteSet(S \ R)
  BY FS_Subset
<1>2. {} \in T
  <2>1. Sum(f, R) \in Nat
    BY <1>1, SumNatural
  <2>2. R \cup {} = R
    OBVIOUS
  <2>3. Sum(f, R) <= Sum(f, R)
    BY <2>1
  <2>4. QED
    BY <2>2, <2>3
<1>3. ASSUME NEW Q \in SUBSET (S \ R), NEW x \in (S \ R) \ Q, Q \in T
      PROVE  Q \cup {x} \in T
  <2>1. IsFiniteSet(R \cup Q) /\ (R \cup Q) \cup {x} \subseteq S
    <3>1. R \cup Q \subseteq S
      OBVIOUS
    <3>2. QED
      BY <3>1, FS_Subset
  <2>2. Sum(f, (R \cup Q) \cup {x}) = f[x] + Sum(f, R \cup Q)
    BY <2>1, SumAdd
  <2>3. Sum(f, R) \in Nat /\ Sum(f, R \cup Q) \in Nat /\ f[x] \in Nat
    BY <1>1, <2>1, SumNatural
  <2>4. R \cup (Q \cup {x}) = (R \cup Q) \cup {x}
    OBVIOUS
  <2>5. Sum(f, R) <= Sum(f, R \cup Q)
    BY <1>3
  <2>6. Sum(f, R) <= Sum(f, (R \cup Q) \cup {x})
    BY <2>2, <2>3, <2>5
  <2>7. QED
    BY <2>4, <2>6
<1>4. S \ R \in T
  <2> HIDE DEF T
  <2>1. QED
    BY <1>1, <1>2, <1>3, AllSubsets
<1>5. R \cup (S \ R) = S
  OBVIOUS
<1>6. QED
  BY <1>4, <1>5
=============================================================================
