----------------------------- MODULE FoldLemmas -----------------------------
(***************************************************************************)
(* Folds of a function of naturals over a finite set, as the community     *)
(* modules define them: one element after the other, each time the one     *)
(* that CHOOSE picks.  An operation is a function here, for a lemma to be  *)
(* about any of them.                                                      *)
(***************************************************************************)
EXTENDS FiniteSetsExt, FiniteSetTheorems, WellFoundedInduction, TLAPS

Picked(s) == CHOOSE x \in s : TRUE

\* h folds f over every subset of S.
IsFold(op, base, f, S, h) ==
  h = [s \in SUBSET S |-> IF s = {} THEN base ELSE op[<<f[Picked(s)], h[s \ {Picked(s)}]>>]]

Operations == [Nat \X Nat -> Nat]

\* h is such a fold of naturals.
FoldsTo(op, base, f, S, h) ==
  /\ IsFiniteSet(S) /\ op \in Operations /\ base \in Nat /\ \A x \in S : f[x] \in Nat
  /\ IsFold(op, base, f, S, h)

\* A set of naturals that is not empty has a least member.
LEMMA LeastExists ==
  ASSUME NEW S \in SUBSET Nat, S # {}
  PROVE  \E x \in S : \A y \in S : x <= y
<1>1. IsWellFoundedOn(OpToRel(<, Nat), Nat)
  BY NatLessThanWellFounded, Zenon
<1>2. PICK x \in S : \A y \in S : ~(<<y, x>> \in OpToRel(<, Nat))
  BY <1>1, WFMin, Zenon
<1>3. \A y \in S : ~(y < x)
  BY <1>2 DEF OpToRel
<1> QED
  BY <1>3

\* What holds of 0 and of the next one holds of every natural.
LEMMA CountUp ==
  ASSUME NEW K, 0 \in K, \A k \in Nat : k \in K => k + 1 \in K
  PROVE  Nat \subseteq K
<1> SUFFICES ASSUME Nat \ K # {}
             PROVE  FALSE
  OBVIOUS
<1> DEFINE M == Nat \ K
<1>1. M \in SUBSET Nat /\ M # {}
  OBVIOUS
<1>2. PICK k \in M : \A j \in M : k <= j
  BY <1>1, LeastExists, Zenon
<1>3. k \in Nat /\ k \notin K /\ k # 0
  BY <1>2
<1>4. k - 1 \in Nat /\ (k - 1) + 1 = k /\ ~(k <= k - 1)
  BY <1>3
<1>5. k - 1 \in K
  BY <1>2, <1>4
<1> QED
  BY <1>3, <1>4, <1>5

\* What holds of the empty set, and of a set if it does of it less any one of its
\* elements, holds of every finite set.
LEMMA SetInduction ==
  ASSUME NEW S, IsFiniteSet(S), NEW G,
         \A s \in SUBSET S : (\A x \in s : s \ {x} \in G) => s \in G
  PROVE  SUBSET S \subseteq G
<1> DEFINE K == {k \in Nat : \A s \in SUBSET S : Cardinality(s) = k => s \in G}
<1>1. 0 \in K
  <2> SUFFICES ASSUME NEW s \in SUBSET S, Cardinality(s) = 0
               PROVE  s \in G
    OBVIOUS
  <2>1. IsFiniteSet(s)
    BY FS_Subset
  <2>2. s = {}
    BY <2>1, FS_EmptySet
  <2> QED
    BY <2>2
<1>2. ASSUME NEW k \in Nat, k \in K
      PROVE  k + 1 \in K
  <2> SUFFICES ASSUME NEW s \in SUBSET S, Cardinality(s) = k + 1
               PROVE  s \in G
    OBVIOUS
  <2>1. IsFiniteSet(s)
    BY FS_Subset
  <2>2. ASSUME NEW x \in s
        PROVE  s \ {x} \in G
    <3>1. Cardinality(s \ {x}) = Cardinality(s) - 1
      BY <2>1, FS_RemoveElement
    <3>2. Cardinality(s \ {x}) = k
      BY <3>1
    <3> QED
      BY <1>2, <3>2
  <2> QED
    BY <2>2
<1> HIDE DEF K
<1>3. Nat \subseteq K
  BY <1>1, <1>2, CountUp
<1>4. ASSUME NEW s \in SUBSET S
      PROVE  s \in G
  <2>1. Cardinality(s) \in Nat
    BY FS_Subset, FS_CardinalityType
  <2> QED
    BY <1>3, <2>1 DEF K
<1> QED
  BY <1>4

\* There is a fold.  For the sets of up to k elements there is one for every k.
LEMMA FoldExists ==
  ASSUME NEW S, IsFiniteSet(S), NEW op \in Operations, NEW base \in Nat,
         NEW f, \A x \in S : f[x] \in Nat
  PROVE  \E h : FoldsTo(op, base, f, S, h)
<1> DEFINE At(h, s) == IF s = {} THEN base ELSE op[<<f[Picked(s)], h[s \ {Picked(s)}]>>]
           Upto(h, k) == \A s \in SUBSET S : Cardinality(s) <= k => h[s] = At(h, s)
           K == {k \in Nat : \E h \in [SUBSET S -> Nat] : Upto(h, k)}
<1>1. \A s \in SUBSET S : IsFiniteSet(s) /\ Cardinality(s) \in Nat
  BY FS_Subset, FS_CardinalityType
<1>2. \A s \in SUBSET S : s # {} => /\ Picked(s) \in s /\ Picked(s) \in S /\ s \ {Picked(s)} \in SUBSET S
                                    /\ Cardinality(s \ {Picked(s)}) = Cardinality(s) - 1
  BY <1>1, FS_RemoveElement DEF Picked
<1>3. \A s \in SUBSET S : s # {} => Cardinality(s) # 0
  BY <1>1, FS_EmptySet
<1>4. ASSUME NEW h \in [SUBSET S -> Nat], NEW s \in SUBSET S
      PROVE  At(h, s) \in Nat
  <2>1. CASE s = {}
    BY <2>1
  <2>2. CASE s # {}
    <3>1. f[Picked(s)] \in Nat /\ h[s \ {Picked(s)}] \in Nat
      BY <1>2, <2>2
    <3> QED
      BY <2>2, <3>1 DEF Operations
  <2> QED
    BY <2>1, <2>2
<1>5. 0 \in K
  <2> DEFINE h == [s \in SUBSET S |-> base]
  <2>1. h \in [SUBSET S -> Nat]
    OBVIOUS
  <2>2. Upto(h, 0)
    BY <1>1, <1>3
  <2> QED
    BY <2>1, <2>2
<1>6. ASSUME NEW k \in Nat, k \in K
      PROVE  k + 1 \in K
  <2>1. PICK h \in [SUBSET S -> Nat] : Upto(h, k)
    BY <1>6
  <2> HIDE DEF At
  <2> DEFINE g == [s \in SUBSET S |-> IF Cardinality(s) <= k THEN h[s] ELSE At(h, s)]
  <2>2. g \in [SUBSET S -> Nat]
    BY <1>4
  <2>3. ASSUME NEW s \in SUBSET S, Cardinality(s) <= k + 1
        PROVE  g[s] = At(g, s)
    <3>1. g[s] = At(h, s)
      BY <2>1, <2>3
    <3>2. CASE s = {}
      BY <3>1, <3>2 DEF At
    <3>3. CASE s # {}
      <4>1. s \ {Picked(s)} \in SUBSET S /\ Cardinality(s \ {Picked(s)}) <= k
        BY <1>1, <1>2, <2>3, <3>3
      <4>2. g[s \ {Picked(s)}] = h[s \ {Picked(s)}]
        BY <4>1
      <4> HIDE DEF g
      <4> QED
        BY <3>1, <3>3, <4>2 DEF At
    <3> QED
      BY <3>2, <3>3
  <2> HIDE DEF g
  <2>4. Upto(g, k + 1)
    BY <2>3
  <2> QED
    BY <2>2, <2>4
<1> HIDE DEF K
<1>7. Cardinality(S) \in K
  BY <1>1, <1>5, <1>6, CountUp
<1>8. PICK h \in [SUBSET S -> Nat] : Upto(h, Cardinality(S))
  BY <1>7 DEF K
<1>9. \A s \in SUBSET S : h[s] = At(h, s)
  BY <1>8, FS_Subset
<1>10. IsFold(op, base, f, S, h)
  BY <1>8, <1>9 DEF IsFold
<1> QED
  BY <1>10 DEF FoldsTo

\* What a fold gives for the empty set, and for another by the element it picks.
LEMMA FoldAt ==
  ASSUME NEW S, NEW op, NEW base, NEW f, NEW h, FoldsTo(op, base, f, S, h)
  PROVE  /\ h[{}] = base
         /\ \A s \in SUBSET S : s # {} =>
              Picked(s) \in s /\ h[s] = op[<<f[Picked(s)], h[s \ {Picked(s)}]>>]
         /\ \A s \in SUBSET S : h[s] \in Nat
<1>0. /\ IsFiniteSet(S) /\ op \in Operations /\ base \in Nat /\ \A x \in S : f[x] \in Nat
      /\ IsFold(op, base, f, S, h)
  BY DEF FoldsTo
<1>1. h[{}] = base
  BY <1>0 DEF IsFold
<1>2. ASSUME NEW s \in SUBSET S, s # {}
      PROVE  Picked(s) \in s /\ h[s] = op[<<f[Picked(s)], h[s \ {Picked(s)}]>>]
  <2>1. Picked(s) \in s
    BY <1>2 DEF Picked
  <2> QED
    BY <1>0, <1>2, <2>1 DEF IsFold
<1> DEFINE G == {s \in SUBSET S : h[s] \in Nat}
<1>3. ASSUME NEW s \in SUBSET S, \A x \in s : s \ {x} \in G
      PROVE  s \in G
  <2>1. CASE s = {}
    BY <1>0, <1>1, <2>1
  <2>2. CASE s # {}
    <3>1. Picked(s) \in S /\ h[s \ {Picked(s)}] \in Nat
      BY <1>2, <1>3, <2>2
    <3>2. op[<<f[Picked(s)], h[s \ {Picked(s)}]>>] \in Nat
      BY <1>0, <3>1 DEF Operations
    <3> QED
      BY <1>2, <2>2, <3>2
  <2> QED
    BY <2>1, <2>2
<1> HIDE DEF G
<1>4. SUBSET S \subseteq G
  BY <1>0, <1>3, SetInduction
<1> QED
  BY <1>1, <1>2, <1>4 DEF G

\* Where the order does not matter, any element may come first.
LEMMA FoldInsert ==
  ASSUME NEW S, NEW op, NEW base, NEW f, NEW h, FoldsTo(op, base, f, S, h),
         \A a, b, c \in Nat : op[<<a, op[<<b, c>>]>>] = op[<<b, op[<<a, c>>]>>]
  PROVE  \A s \in SUBSET S : \A x \in s : h[s] = op[<<f[x], h[s \ {x}]>>]
<1>0. /\ \A s \in SUBSET S : s # {} => Picked(s) \in s /\ h[s] = op[<<f[Picked(s)], h[s \ {Picked(s)}]>>]
      /\ \A s \in SUBSET S : h[s] \in Nat
  BY FoldAt
<1> DEFINE G == {s \in SUBSET S : \A x \in s : h[s] = op[<<f[x], h[s \ {x}]>>]}
<1>1. ASSUME NEW s \in SUBSET S, \A x \in s : s \ {x} \in G
      PROVE  s \in G
  <2> SUFFICES ASSUME NEW x \in s
               PROVE  h[s] = op[<<f[x], h[s \ {x}]>>]
    BY DEF G
  <2> DEFINE y == Picked(s)
             r == (s \ {y}) \ {x}
  <2>1. y \in s /\ h[s] = op[<<f[y], h[s \ {y}]>>]
    BY <1>0
  <2> HIDE DEF y
  <2>2. CASE x = y
    BY <2>1, <2>2
  <2>3. CASE x # y
    <3>1. h[s \ {y}] = op[<<f[x], h[r]>>]
      BY <1>1, <2>1, <2>3 DEF G
    <3>2. h[s \ {x}] = op[<<f[y], h[r]>>]
      <4>1. r = (s \ {x}) \ {y}
        OBVIOUS
      <4>2. s \ {x} \in G /\ y \in s \ {x}
        BY <1>1, <2>1, <2>3
      <4> HIDE DEF r
      <4> QED
        BY <4>1, <4>2 DEF G
    <3>3. f[x] \in Nat /\ f[y] \in Nat /\ h[r] \in Nat
      BY <1>0, <2>1 DEF FoldsTo
    <3> HIDE DEF r
    <3> QED
      BY <2>1, <3>1, <3>2, <3>3
  <2> QED
    BY <2>2, <2>3
<1> HIDE DEF G
<1>2. SUBSET S \subseteq G
  BY <1>1, SetInduction DEF FoldsTo
<1> QED
  BY <1>2 DEF G

-----------------------------------------------------------------------------
(* Sums and products *)

Plus == [q \in Nat \X Nat |-> q[1] + q[2]]
Times == [q \in Nat \X Nat |-> q[1] * q[2]]

IsSum(f, S, h) == FoldsTo(Plus, 0, f, S, h)
IsProduct(f, S, h) == FoldsTo(Times, 1, f, S, h)

LEMMA PlusTimes ==
  /\ Plus \in Operations /\ \A a, b \in Nat : Plus[<<a, b>>] = a + b
  /\ Times \in Operations /\ \A a, b \in Nat : Times[<<a, b>>] = a * b
<1>1. \A a, b \in Nat : <<a, b>> \in Nat \X Nat /\ <<a, b>>[1] = a /\ <<a, b>>[2] = b
  OBVIOUS
<1>2. \A q \in Nat \X Nat : q[1] + q[2] \in Nat /\ q[1] * q[2] \in Nat
  OBVIOUS
<1>3. Plus \in Operations /\ Times \in Operations
  BY <1>2 DEF Plus, Times, Operations
<1>4. \A a, b \in Nat : Plus[<<a, b>>] = a + b
  BY <1>1 DEF Plus
<1>5. \A a, b \in Nat : Times[<<a, b>>] = a * b
  BY <1>1 DEF Times
<1> QED
  BY <1>3, <1>4, <1>5

\* One element more or less of a sum, or of a product.
LEMMA SumInsert ==
  ASSUME NEW S, NEW f, NEW h, IsSum(f, S, h)
  PROVE  /\ h[{}] = 0 /\ \A s \in SUBSET S : h[s] \in Nat
         /\ \A s \in SUBSET S : \A x \in s : h[s] = f[x] + h[s \ {x}]
<1>1. h[{}] = 0 /\ \A s \in SUBSET S : h[s] \in Nat
  BY FoldAt DEF IsSum
<1>2. \A a, b, c \in Nat : a + c \in Nat /\ b + c \in Nat /\ a + (b + c) = b + (a + c)
  OBVIOUS
<1>3. \A a, b, c \in Nat : Plus[<<a, Plus[<<b, c>>]>>] = Plus[<<b, Plus[<<a, c>>]>>]
  <2> SUFFICES ASSUME NEW a \in Nat, NEW b \in Nat, NEW c \in Nat
               PROVE  Plus[<<a, Plus[<<b, c>>]>>] = Plus[<<b, Plus[<<a, c>>]>>]
    OBVIOUS
  <2>1. Plus[<<b, c>>] = b + c /\ Plus[<<a, c>>] = a + c
    BY PlusTimes
  <2>2. Plus[<<a, b + c>>] = a + (b + c) /\ Plus[<<b, a + c>>] = b + (a + c)
    BY <1>2, PlusTimes
  <2> QED
    BY <1>2, <2>1, <2>2
<1>4. \A s \in SUBSET S : \A x \in s : h[s] = Plus[<<f[x], h[s \ {x}]>>]
  BY <1>3, FoldInsert DEF IsSum
<1>5. \A x \in S : f[x] \in Nat
  BY DEF IsSum, FoldsTo
<1>6. \A s \in SUBSET S : \A x \in s : Plus[<<f[x], h[s \ {x}]>>] = f[x] + h[s \ {x}]
  BY <1>1, <1>5, PlusTimes
<1> QED
  BY <1>1, <1>4, <1>6

LEMMA ProductInsert ==
  ASSUME NEW S, NEW f, NEW h, IsProduct(f, S, h)
  PROVE  /\ h[{}] = 1 /\ \A s \in SUBSET S : h[s] \in Nat
         /\ \A s \in SUBSET S : \A x \in s : h[s] = f[x] * h[s \ {x}]
<1>1. h[{}] = 1 /\ \A s \in SUBSET S : h[s] \in Nat
  BY FoldAt DEF IsProduct
<1>2. \A a, b, c \in Nat : a * c \in Nat /\ b * c \in Nat /\ a * (b * c) = b * (a * c)
  OBVIOUS
<1>3. \A a, b, c \in Nat : Times[<<a, Times[<<b, c>>]>>] = Times[<<b, Times[<<a, c>>]>>]
  <2> SUFFICES ASSUME NEW a \in Nat, NEW b \in Nat, NEW c \in Nat
               PROVE  Times[<<a, Times[<<b, c>>]>>] = Times[<<b, Times[<<a, c>>]>>]
    OBVIOUS
  <2>1. Times[<<b, c>>] = b * c /\ Times[<<a, c>>] = a * c
    BY PlusTimes
  <2>2. Times[<<a, b * c>>] = a * (b * c) /\ Times[<<b, a * c>>] = b * (a * c)
    BY <1>2, PlusTimes
  <2> QED
    BY <1>2, <2>1, <2>2
<1>4. \A s \in SUBSET S : \A x \in s : h[s] = Times[<<f[x], h[s \ {x}]>>]
  BY <1>3, FoldInsert DEF IsProduct
<1>5. \A x \in S : f[x] \in Nat
  BY DEF IsProduct, FoldsTo
<1>6. \A s \in SUBSET S : \A x \in s : Times[<<f[x], h[s \ {x}]>>] = f[x] * h[s \ {x}]
  BY <1>1, <1>5, PlusTimes
<1> QED
  BY <1>1, <1>4, <1>6

\* What the folds of the community modules choose their function by.
SolvesSum(f, S, h) ==
  h = [s \in SUBSET S |-> IF s = {} THEN 0 ELSE f[Picked(s)] + h[s \ {Picked(s)}]]

SolvesProduct(f, S, h) ==
  h = [s \in SUBSET S |-> IF s = {} THEN 1 ELSE f[Picked(s)] * h[s \ {Picked(s)}]]

\* There is one, and it is the sum.
LEMMA SumSolved ==
  ASSUME NEW S, IsFiniteSet(S), NEW f, \A x \in S : f[x] \in Nat
  PROVE  (\E h : SolvesSum(f, S, h)) /\ (\A h : SolvesSum(f, S, h) => IsSum(f, S, h))
<1>1. PICK g : IsSum(f, S, g)
  BY PlusTimes, FoldExists DEF IsSum
<1>2. /\ g[{}] = 0 /\ \A s \in SUBSET S : g[s] \in Nat
      /\ \A s \in SUBSET S : s # {} => Picked(s) \in s
  <2>1. g[{}] = 0 /\ \A s \in SUBSET S : g[s] \in Nat
    BY <1>1, SumInsert
  <2>2. \A s \in SUBSET S : s # {} => Picked(s) \in s
    BY DEF Picked
  <2> QED
    BY <2>1, <2>2
<1>3. \A s \in SUBSET S : s # {} =>
        Plus[<<f[Picked(s)], g[s \ {Picked(s)}]>>] = f[Picked(s)] + g[s \ {Picked(s)}]
  BY <1>2, PlusTimes
<1>4. SolvesSum(f, S, g)
  BY <1>1, <1>3 DEF SolvesSum, IsSum, FoldsTo, IsFold
<1>5. ASSUME NEW h, SolvesSum(f, S, h)
      PROVE  h = g
  <2> DEFINE G == {s \in SUBSET S : h[s] = g[s]}
  <2>1. ASSUME NEW s \in SUBSET S, \A x \in s : s \ {x} \in G
        PROVE  s \in G
    <3>1. h[s] = IF s = {} THEN 0 ELSE f[Picked(s)] + h[s \ {Picked(s)}]
      BY <1>5 DEF SolvesSum
    <3>2. g[s] = IF s = {} THEN 0 ELSE f[Picked(s)] + g[s \ {Picked(s)}]
      BY <1>4 DEF SolvesSum
    <3>3. s # {} => h[s \ {Picked(s)}] = g[s \ {Picked(s)}]
      BY <1>2, <2>1
    <3> QED
      BY <3>1, <3>2, <3>3
  <2> HIDE DEF G
  <2>2. SUBSET S \subseteq G
    BY <2>1, SetInduction
  <2>3. \A s \in SUBSET S : h[s] = g[s]
    BY <2>2 DEF G
  <2> QED
    BY <1>4, <1>5, <2>3 DEF SolvesSum
<1> QED
  BY <1>1, <1>4, <1>5

\* There is one, and it is the product.
LEMMA ProductSolved ==
  ASSUME NEW S, IsFiniteSet(S), NEW f, \A x \in S : f[x] \in Nat
  PROVE  (\E h : SolvesProduct(f, S, h)) /\ (\A h : SolvesProduct(f, S, h) => IsProduct(f, S, h))
<1>1. PICK g : IsProduct(f, S, g)
  BY PlusTimes, FoldExists DEF IsProduct
<1>2. /\ g[{}] = 1 /\ \A s \in SUBSET S : g[s] \in Nat
      /\ \A s \in SUBSET S : s # {} => Picked(s) \in s
  <2>1. g[{}] = 1 /\ \A s \in SUBSET S : g[s] \in Nat
    BY <1>1, ProductInsert
  <2>2. \A s \in SUBSET S : s # {} => Picked(s) \in s
    BY DEF Picked
  <2> QED
    BY <2>1, <2>2
<1>3. \A s \in SUBSET S : s # {} =>
        Times[<<f[Picked(s)], g[s \ {Picked(s)}]>>] = f[Picked(s)] * g[s \ {Picked(s)}]
  BY <1>2, PlusTimes
<1>4. SolvesProduct(f, S, g)
  BY <1>1, <1>3 DEF SolvesProduct, IsProduct, FoldsTo, IsFold
<1>5. ASSUME NEW h, SolvesProduct(f, S, h)
      PROVE  h = g
  <2> DEFINE G == {s \in SUBSET S : h[s] = g[s]}
  <2>1. ASSUME NEW s \in SUBSET S, \A x \in s : s \ {x} \in G
        PROVE  s \in G
    <3>1. h[s] = IF s = {} THEN 1 ELSE f[Picked(s)] * h[s \ {Picked(s)}]
      BY <1>5 DEF SolvesProduct
    <3>2. g[s] = IF s = {} THEN 1 ELSE f[Picked(s)] * g[s \ {Picked(s)}]
      BY <1>4 DEF SolvesProduct
    <3>3. s # {} => h[s \ {Picked(s)}] = g[s \ {Picked(s)}]
      BY <1>2, <2>1
    <3> QED
      BY <3>1, <3>2, <3>3
  <2> HIDE DEF G
  <2>2. SUBSET S \subseteq G
    BY <2>1, SetInduction
  <2>3. \A s \in SUBSET S : h[s] = g[s]
    BY <2>2 DEF G
  <2> QED
    BY <1>4, <1>5, <2>3 DEF SolvesProduct
<1> QED
  BY <1>1, <1>4, <1>5

LEMMA SumExists ==
  ASSUME NEW S, IsFiniteSet(S), NEW f, \A x \in S : f[x] \in Nat
  PROVE  \E h : IsSum(f, S, h)
BY SumSolved

\* A sum of less is less.
LEMMA SumBelow ==
  ASSUME NEW S, NEW f, NEW h, IsSum(f, S, h), NEW g, NEW j, IsSum(g, S, j),
         \A x \in S : f[x] <= g[x]
  PROVE  h[S] <= j[S]
<1>1. /\ h[{}] = 0 /\ \A s \in SUBSET S : h[s] \in Nat
      /\ \A s \in SUBSET S : \A x \in s : h[s] = f[x] + h[s \ {x}]
  BY SumInsert
<1>2. /\ j[{}] = 0 /\ \A s \in SUBSET S : j[s] \in Nat
      /\ \A s \in SUBSET S : \A x \in s : j[s] = g[x] + j[s \ {x}]
  BY SumInsert
<1>3. \A x \in S : f[x] \in Nat /\ g[x] \in Nat
  BY DEF IsSum, FoldsTo
<1> DEFINE G == {s \in SUBSET S : h[s] <= j[s]}
<1>4. ASSUME NEW s \in SUBSET S, \A x \in s : s \ {x} \in G
      PROVE  s \in G
  <2>1. CASE s = {}
    BY <1>1, <1>2, <2>1
  <2>2. CASE s # {}
    <3>1. PICK x \in s : TRUE
      BY <2>2
    <3>2. h[s \ {x}] <= j[s \ {x}]
      BY <1>4, <3>1
    <3>3. f[x] \in Nat /\ g[x] \in Nat /\ h[s \ {x}] \in Nat /\ j[s \ {x}] \in Nat /\ f[x] <= g[x]
      BY <1>1, <1>2, <1>3, <3>1
    <3>4. h[s] = f[x] + h[s \ {x}] /\ j[s] = g[x] + j[s \ {x}]
      BY <1>1, <1>2, <3>1
    <3> QED
      BY <3>2, <3>3, <3>4
  <2> QED
    BY <2>1, <2>2
<1> HIDE DEF G
<1>5. SUBSET S \subseteq G
  BY <1>4, SetInduction DEF IsSum, FoldsTo
<1> QED
  BY <1>5 DEF G

\* One more for one element is one more for the sum, and no more elsewhere.
LEMMA SumOneMore ==
  ASSUME NEW S, NEW f, NEW h, IsSum(f, S, h), NEW g, NEW j, IsSum(g, S, j),
         NEW x \in S, g[x] = f[x] + 1, \A y \in S \ {x} : g[y] = f[y]
  PROVE  j[S] = h[S] + 1
<1>1. /\ h[{}] = 0 /\ \A s \in SUBSET S : h[s] \in Nat
      /\ \A s \in SUBSET S : \A y \in s : h[s] = f[y] + h[s \ {y}]
  BY SumInsert
<1>2. /\ j[{}] = 0 /\ \A s \in SUBSET S : j[s] \in Nat
      /\ \A s \in SUBSET S : \A y \in s : j[s] = g[y] + j[s \ {y}]
  BY SumInsert
<1>3. \A y \in S : f[y] \in Nat /\ g[y] \in Nat
  BY DEF IsSum, FoldsTo
<1> DEFINE G == {s \in SUBSET S : x \notin s => h[s] = j[s]}
<1>4. ASSUME NEW s \in SUBSET S, \A y \in s : s \ {y} \in G
      PROVE  s \in G
  <2> SUFFICES ASSUME x \notin s
               PROVE  h[s] = j[s]
    OBVIOUS
  <2>1. CASE s = {}
    BY <1>1, <1>2, <2>1
  <2>2. CASE s # {}
    <3>1. PICK y \in s : TRUE
      BY <2>2
    <3>2. h[s \ {y}] = j[s \ {y}] /\ g[y] = f[y]
      BY <1>4, <3>1
    <3>3. h[s] = f[y] + h[s \ {y}] /\ j[s] = g[y] + j[s \ {y}]
      BY <1>1, <1>2, <3>1
    <3> QED
      BY <3>2, <3>3
  <2> QED
    BY <2>1, <2>2
<1> HIDE DEF G
<1>5. SUBSET S \subseteq G
  BY <1>4, SetInduction DEF IsSum, FoldsTo
<1>6. h[S \ {x}] = j[S \ {x}]
  BY <1>5 DEF G
<1>7. h[S] = f[x] + h[S \ {x}] /\ j[S] = g[x] + j[S \ {x}]
  BY <1>1, <1>2
<1>8. f[x] \in Nat /\ h[S \ {x}] \in Nat
  BY <1>1, <1>3
<1> QED
  BY <1>6, <1>7, <1>8

\* A product of the same factors is the same, as part of whichever larger one.
LEMMA ProductSame ==
  ASSUME NEW S, NEW f, NEW h, IsProduct(f, S, h), NEW T, NEW j, IsProduct(f, T, j), S \subseteq T
  PROVE  h[S] = j[S]
<1>1. /\ h[{}] = 1 /\ \A s \in SUBSET S : h[s] \in Nat
      /\ \A s \in SUBSET S : \A x \in s : h[s] = f[x] * h[s \ {x}]
  BY ProductInsert
<1>2. /\ j[{}] = 1 /\ \A s \in SUBSET T : j[s] \in Nat
      /\ \A s \in SUBSET T : \A x \in s : j[s] = f[x] * j[s \ {x}]
  BY ProductInsert
<1> DEFINE G == {s \in SUBSET S : h[s] = j[s]}
<1>3. ASSUME NEW s \in SUBSET S, \A x \in s : s \ {x} \in G
      PROVE  s \in G
  <2>1. CASE s = {}
    BY <1>1, <1>2, <2>1
  <2>2. CASE s # {}
    <3>1. PICK x \in s : TRUE
      BY <2>2
    <3>2. h[s] = f[x] * h[s \ {x}] /\ j[s] = f[x] * j[s \ {x}] /\ h[s \ {x}] = j[s \ {x}]
      BY <1>1, <1>2, <1>3, <3>1
    <3> QED
      BY <3>2
  <2> QED
    BY <2>1, <2>2
<1> HIDE DEF G
<1>4. SUBSET S \subseteq G
  <2>1. IsFiniteSet(S)
    BY DEF IsProduct, FoldsTo
  <2> QED
    BY <1>3, <2>1, SetInduction
<1> QED
  BY <1>4 DEF G

=============================================================================
