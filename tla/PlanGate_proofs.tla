-------------------------- MODULE PlanGate_proofs --------------------------
(***************************************************************************)
(* What trees are: the nodes above and below a node, for every tree that   *)
(* is well formed.  Above is a recursive function; that there is one is    *)
(* shown by naming it (PathUp), and what it gives by going up or down the  *)
(* tree.  Last, what the policy's counts are: sums of products of tries.   *)
(***************************************************************************)
EXTENDS PlanGate, FoldLemmas

-----------------------------------------------------------------------------
(* Going down a tree *)

\* A tree whose nodes are numbered, the root with 1.
Tree(t) == WellFormed(t) /\ DOMAIN t \subseteq Nat \ {0}

\* The kids of a node come after it and have no kids in common with others.
LEMMA KidsBelow ==
  ASSUME NEW t, Tree(t), NEW n \in DOMAIN t, NEW k \in Kids(t, n)
  PROVE  k \in DOMAIN t \ {1} /\ n < k /\ t[n].type \notin LeafTypes
<1>1. t[n].kids \in Seq({m \in DOMAIN t : n < m})
  BY DEF Tree, WellFormed
<1>2. PICK i \in DOMAIN t[n].kids : k = t[n].kids[i]
  BY DEF Kids, ToSet
<1>3. k \in DOMAIN t /\ n < k
  BY <1>1, <1>2
<1>4. n \in Nat \ {0} /\ k \in Nat
  BY <1>3 DEF Tree
<1>5. t[n].kids # <<>>
  BY <1>2
<1>6. t[n].type \notin LeafTypes
  BY <1>5 DEF Tree, WellFormed
<1>7. k # 1
  BY <1>3, <1>4
<1> QED
  BY <1>3, <1>6, <1>7

\* Every node but the root is the kid of one node, its parent.
LEMMA ParentIs ==
  ASSUME NEW t, Tree(t), NEW n \in DOMAIN t, n # 1
  PROVE  Parent(t, n) \in DOMAIN t /\ n \in Kids(t, Parent(t, n)) /\ Parent(t, n) < n
<1>1. \E p \in DOMAIN t : n \in Kids(t, p)
  BY DEF Tree, WellFormed
<1>2. Parent(t, n) \in DOMAIN t /\ n \in Kids(t, Parent(t, n))
  BY <1>1 DEF Parent
<1> QED
  BY <1>2, KidsBelow

LEMMA KidHasParent ==
  ASSUME NEW t, Tree(t), NEW n \in DOMAIN t, NEW k \in Kids(t, n)
  PROVE  Parent(t, k) = n
<1>1. k \in DOMAIN t \ {1}
  BY KidsBelow
<1>2. Parent(t, k) \in DOMAIN t /\ k \in Kids(t, Parent(t, k))
  BY <1>1, ParentIs
<1>3. \A a, b \in DOMAIN t : Kids(t, a) \cap Kids(t, b) # {} => a = b
  BY DEF Tree, WellFormed
<1> QED
  BY <1>2, <1>3

\* What holds of the root, and of a node if it holds of its parent, holds of all.
LEMMA TreeInduction ==
  ASSUME NEW t, Tree(t), NEW S, 1 \in S,
         \A n \in DOMAIN t \ {1} : Parent(t, n) \in S => n \in S
  PROVE  DOMAIN t \subseteq S
<1> SUFFICES ASSUME DOMAIN t \ S # {}
             PROVE  FALSE
  OBVIOUS
<1>1. DOMAIN t \ S \in SUBSET Nat
  BY DEF Tree
<1>2. PICK n \in DOMAIN t \ S : \A m \in DOMAIN t \ S : n <= m
  BY <1>1, LeastExists, Zenon
<1>3. n # 1 /\ n \in DOMAIN t
  BY <1>2
<1>4. Parent(t, n) \in DOMAIN t /\ Parent(t, n) < n
  BY <1>3, ParentIs
<1>5. Parent(t, n) \in S
  BY <1>2, <1>4 DEF Tree
<1> QED
  BY <1>2, <1>3, <1>5

-----------------------------------------------------------------------------
(* Going up a tree *)

\* A set that holds the parent of each of its nodes but the root.
Upward(t, S) == \A m \in S \ {1} : Parent(t, m) \in S

\* What every upward set with the parent of n has: the nodes above n.
PathUp(t, n) ==
  IF n = 1 THEN {} ELSE {m \in DOMAIN t : \A S \in SUBSET DOMAIN t : Parent(t, n) \in S /\ Upward(t, S) => m \in S}

LEMMA PathUpStep ==
  ASSUME NEW t, Tree(t), NEW n \in DOMAIN t, n # 1
  PROVE  PathUp(t, n) = {Parent(t, n)} \cup PathUp(t, Parent(t, n))
<1> DEFINE p == Parent(t, n)
<1>1. p \in DOMAIN t
  BY ParentIs
<1> HIDE DEF p
<1>2. PathUp(t, n) = {m \in DOMAIN t : \A S \in SUBSET DOMAIN t : p \in S /\ Upward(t, S) => m \in S}
  BY DEF PathUp, p
<1>3. p \in PathUp(t, n)
  BY <1>1, <1>2
<1>4. ASSUME p # 1
      PROVE  PathUp(t, p) =
               {m \in DOMAIN t : \A S \in SUBSET DOMAIN t : Parent(t, p) \in S /\ Upward(t, S) => m \in S}
  BY <1>4 DEF PathUp
<1>5. PathUp(t, p) \subseteq PathUp(t, n)
  <2>1. ASSUME p # 1, NEW m \in PathUp(t, p), NEW S \in SUBSET DOMAIN t, p \in S, Upward(t, S)
        PROVE  m \in S
    <3>1. Parent(t, p) \in S
      BY <2>1 DEF Upward
    <3> QED
      BY <2>1, <3>1, <1>4
  <2>2. CASE p = 1
    BY <2>2 DEF PathUp
  <2>3. CASE p # 1
    BY <2>1, <2>3, <1>2, <1>4
  <2> QED
    BY <2>2, <2>3
<1>6. PathUp(t, n) \subseteq {p} \cup PathUp(t, p)
  <2> DEFINE U == {p} \cup PathUp(t, p)
  <2>1. U \in SUBSET DOMAIN t
    BY <1>1, <1>4 DEF PathUp
  <2>2. ASSUME NEW m \in U, m # 1
        PROVE  Parent(t, m) \in U
    <3>1. Parent(t, m) \in DOMAIN t
      BY <2>1, <2>2, ParentIs
    <3>2. CASE m = p
      BY <2>2, <3>1, <3>2, <1>4
    <3>3. CASE m # p
      <4>1. m \in PathUp(t, p) /\ p # 1
        BY <2>2, <3>3 DEF PathUp
      <4>2. ASSUME NEW S \in SUBSET DOMAIN t, Parent(t, p) \in S, Upward(t, S)
            PROVE  Parent(t, m) \in S
        BY <2>2, <4>1, <4>2, <1>4 DEF Upward
      <4> QED
        BY <3>1, <4>1, <4>2, <1>4
    <3> QED
      BY <3>2, <3>3
  <2>3. Upward(t, U)
    BY <2>2 DEF Upward
  <2> QED
    BY <1>2, <2>1, <2>3
<1> QED
  BY <1>3, <1>5, <1>6 DEF p

\* Above is the function its definition asks for: there is one.
LEMMA AboveStep ==
  ASSUME NEW t, Tree(t)
  PROVE  /\ Above(t, 1) = {}
         /\ \A n \in DOMAIN t \ {1} : Above(t, n) = {Parent(t, n)} \cup Above(t, Parent(t, n))
<1> DEFINE Is(f) == f = [m \in DOMAIN t |-> IF m = 1 THEN {} ELSE {Parent(t, m)} \cup f[Parent(t, m)]]
           g == [m \in DOMAIN t |-> PathUp(t, m)]
           h == CHOOSE f : Is(f)
<1>1. Is(g)
  <2>1. \A m \in DOMAIN t : m # 1 => Parent(t, m) \in DOMAIN t
    BY ParentIs
  <2>2. \A m \in DOMAIN t : m # 1 => PathUp(t, m) = {Parent(t, m)} \cup PathUp(t, Parent(t, m))
    BY PathUpStep
  <2>3. PathUp(t, 1) = {}
    BY DEF PathUp
  <2> QED
    BY <2>1, <2>2, <2>3
<1>2. Is(h)
  BY <1>1
<1>3. \A n : Above(t, n) = h[n]
  BY DEF Above
<1>4. 1 \in DOMAIN t
  BY DEF Tree, WellFormed
<1> HIDE DEF h
<1>5. h[1] = {}
  BY <1>2, <1>4
<1>6. \A n \in DOMAIN t \ {1} : h[n] = {Parent(t, n)} \cup h[Parent(t, n)]
  BY <1>2
<1> QED
  BY <1>3, <1>5, <1>6

\* The nodes above a node come before it, and are branches.
LEMMA AboveLess ==
  ASSUME NEW t, Tree(t), NEW n \in DOMAIN t, NEW m \in Above(t, n)
  PROVE  m \in DOMAIN t /\ m < n /\ t[m].type \notin LeafTypes
<1> DEFINE S == {x \in DOMAIN t : \A a \in Above(t, x) : a \in DOMAIN t /\ a < x /\ t[a].type \notin LeafTypes}
<1>1. 1 \in S
  BY AboveStep DEF Tree, WellFormed
<1>2. ASSUME NEW x \in DOMAIN t \ {1}, Parent(t, x) \in S
      PROVE  x \in S
  <2>1. Parent(t, x) \in DOMAIN t /\ Parent(t, x) < x /\ x \in Kids(t, Parent(t, x))
    BY ParentIs
  <2>2. t[Parent(t, x)].type \notin LeafTypes
    BY <2>1, KidsBelow
  <2>3. Above(t, x) = {Parent(t, x)} \cup Above(t, Parent(t, x))
    BY AboveStep
  <2>4. DOMAIN t \subseteq Nat
    BY DEF Tree
  <2> QED
    BY <1>2, <2>1, <2>2, <2>3, <2>4
<1> HIDE DEF S
<1>3. DOMAIN t \subseteq S
  BY <1>1, <1>2, TreeInduction
<1> QED
  BY <1>3 DEF S

LEMMA AboveTransitive ==
  ASSUME NEW t, Tree(t), NEW n \in DOMAIN t, NEW m \in Above(t, n)
  PROVE  Above(t, m) \subseteq Above(t, n)
<1> DEFINE S == {x \in DOMAIN t : \A a \in Above(t, x) : Above(t, a) \subseteq Above(t, x)}
<1>1. 1 \in S
  BY AboveStep DEF Tree, WellFormed
<1>2. ASSUME NEW x \in DOMAIN t \ {1}, Parent(t, x) \in S
      PROVE  x \in S
  <2>1. Above(t, x) = {Parent(t, x)} \cup Above(t, Parent(t, x))
    BY AboveStep
  <2> QED
    BY <1>2, <2>1
<1> HIDE DEF S
<1>3. DOMAIN t \subseteq S
  BY <1>1, <1>2, TreeInduction
<1> QED
  BY <1>3 DEF S

LEMMA RootAbove ==
  ASSUME NEW t, Tree(t), NEW n \in DOMAIN t, n # 1
  PROVE  1 \in Above(t, n)
<1> DEFINE S == {x \in DOMAIN t : x = 1 \/ 1 \in Above(t, x)}
<1>1. 1 \in S
  BY DEF Tree, WellFormed
<1>2. ASSUME NEW x \in DOMAIN t \ {1}, Parent(t, x) \in S
      PROVE  x \in S
  BY <1>2, AboveStep
<1> HIDE DEF S
<1>3. DOMAIN t \subseteq S
  BY <1>1, <1>2, TreeInduction
<1> QED
  BY <1>3 DEF S

\* A node is below itself, its parent, and whatever its parent is below.
LEMMA BelowStep ==
  ASSUME NEW t, Tree(t), NEW n \in DOMAIN t, n # 1, NEW m
  PROVE  n \in Below(t, m) <=> n = m \/ Parent(t, n) \in Below(t, m)
<1>1. Above(t, n) = {Parent(t, n)} \cup Above(t, Parent(t, n))
  BY AboveStep
<1>2. Parent(t, n) \in DOMAIN t
  BY ParentIs
<1> QED
  BY <1>1, <1>2 DEF Below

LEMMA KidsAreBelow ==
  ASSUME NEW t, Tree(t), NEW m \in DOMAIN t, NEW k \in Kids(t, m), NEW n \in Below(t, k)
  PROVE  n \in DOMAIN t /\ m \in Above(t, n)
<1>1. k \in DOMAIN t \ {1} /\ Parent(t, k) = m
  BY KidsBelow, KidHasParent
<1>2. m \in Above(t, k)
  BY <1>1, AboveStep
<1>3. n = k \/ (n \in DOMAIN t /\ k \in Above(t, n))
  BY DEF Below
<1> QED
  BY <1>1, <1>2, <1>3, AboveTransitive

\* From a node above n the way down to n is by one of its kids.
LEMMA KidToward ==
  ASSUME NEW t, Tree(t), NEW n \in DOMAIN t, NEW m \in Above(t, n)
  PROVE  \E k \in Kids(t, m) : n \in Below(t, k)
<1> DEFINE S == {x \in DOMAIN t : \A a \in Above(t, x) : \E k \in Kids(t, a) : x \in Below(t, k)}
<1>1. 1 \in S
  BY AboveStep DEF Tree, WellFormed
<1>2. ASSUME NEW x \in DOMAIN t \ {1}, Parent(t, x) \in S
      PROVE  x \in S
  <2>1. Above(t, x) = {Parent(t, x)} \cup Above(t, Parent(t, x))
    BY AboveStep
  <2>2. x \in Kids(t, Parent(t, x)) /\ x \in Below(t, x)
    BY ParentIs DEF Below
  <2>3. \A k : Parent(t, x) \in Below(t, k) => x \in Below(t, k)
    BY BelowStep
  <2> QED
    BY <1>2, <2>1, <2>2, <2>3
<1> HIDE DEF S
<1>3. DOMAIN t \subseteq S
  BY <1>1, <1>2, TreeInduction
<1> QED
  BY <1>3 DEF S

\* Two nodes are one below the other, or below different kids of one node.
LEMMA Fork ==
  ASSUME NEW t, Tree(t), NEW n \in DOMAIN t, NEW m \in DOMAIN t
  PROVE  \/ n \in Below(t, m) \/ m \in Below(t, n)
         \/ \E p \in DOMAIN t : \E a, b \in Kids(t, p) : a # b /\ n \in Below(t, a) /\ m \in Below(t, b)
<1> DEFINE Forks(x) == \E p \in DOMAIN t : \E a, b \in Kids(t, p) : a # b /\ n \in Below(t, a) /\ x \in Below(t, b)
           S == {x \in DOMAIN t : n \in Below(t, x) \/ x \in Below(t, n) \/ Forks(x)}
<1>1. 1 \in S
  BY RootAbove DEF Tree, WellFormed, Below
<1>2. ASSUME NEW x \in DOMAIN t \ {1}, Parent(t, x) \in S
      PROVE  x \in S
  <2> DEFINE p == Parent(t, x)
  <2>1. p \in DOMAIN t /\ x \in Kids(t, p) /\ x \in Below(t, x)
    BY ParentIs DEF Below
  <2>2. \A k : p \in Below(t, k) => x \in Below(t, k)
    BY BelowStep
  <2>3. CASE p \in Below(t, n)
    BY <2>2, <2>3
  <2>4. CASE Forks(p)
    <3>1. Forks(x)
      BY <2>2, <2>4
    <3> QED
      BY <3>1
  <2>5. CASE n \in Below(t, p) /\ n # p
    <3>1. p \in Above(t, n)
      BY <2>5 DEF Below
    <3>2. PICK k \in Kids(t, p) : n \in Below(t, k)
      BY <3>1, KidToward
    <3>3. CASE k = x
      BY <3>2, <3>3
    <3>4. CASE k # x
      <4>1. Forks(x)
        BY <2>1, <3>2, <3>4
      <4> QED
        BY <4>1
    <3> QED
      BY <3>3, <3>4
  <2>6. n = p => p \in Below(t, n)
    BY DEF Below
  <2> QED
    BY <1>2, <2>3, <2>4, <2>5, <2>6
<1> HIDE DEF S
<1>3. DOMAIN t \subseteq S
  BY <1>1, <1>2, TreeInduction
<1> QED
  BY <1>3 DEF S

\* What holds of a node if it holds of all of its kids, holds of all nodes.
LEMMA KidsFirst ==
  ASSUME NEW t, Tree(t), NEW N \in Nat, DOMAIN t \subseteq 1 .. N,
         NEW S, \A n \in DOMAIN t : Kids(t, n) \subseteq S => n \in S
  PROVE  DOMAIN t \subseteq S
<1> SUFFICES ASSUME DOMAIN t \ S # {}
             PROVE  FALSE
  OBVIOUS
<1> DEFINE D == {N - n : n \in DOMAIN t \ S}
<1>1. D \in SUBSET Nat /\ D # {}
  OBVIOUS
<1>2. PICK d \in D : \A e \in D : d <= e
  BY <1>1, LeastExists, Zenon
<1>3. PICK n \in DOMAIN t \ S : d = N - n
  BY <1>2
<1>4. \A m \in DOMAIN t \ S : N - n <= N - m
  BY <1>2, <1>3
<1>5. \A m \in DOMAIN t : n < m => m \in S
  BY <1>3, <1>4
<1>6. Kids(t, n) \subseteq S
  BY <1>3, <1>5, KidsBelow
<1> QED
  BY <1>3, <1>6

-----------------------------------------------------------------------------
(* What the policy counts *)

\* How often one activation of a node may call a kid.
Tries(t, n) == IF t[n].type = "Retry" THEN t[n].attempts ELSE 1

\* The multiplier of a node is the product over the Retries above it.
LEMMA MultiplierIs ==
  ASSUME NEW t, NEW n, IsFiniteSet(DOMAIN t), Valid(t)
  PROVE  \E h : /\ IsProduct([r \in DOMAIN t |-> Tries(t, r)], Above(t, n) \cap OfType(t, {"Retry"}), h)
                /\ RetryMultiplier(t, n) = h[Above(t, n) \cap OfType(t, {"Retry"})]
<1> DEFINE S == Above(t, n) \cap OfType(t, {"Retry"})
           f == [r \in DOMAIN t |-> Tries(t, r)]
           Is(h) == h = [s \in SUBSET S |-> IF s = {} THEN 1
                                            ELSE t[CHOOSE x \in s : TRUE].attempts * h[s \ {CHOOSE x \in s : TRUE}]]
           it == CHOOSE h : Is(h)
<1>1. RetryMultiplier(t, n) = it[S]
  BY DEF RetryMultiplier, MapThenFoldSet
<1>2. S \subseteq DOMAIN t /\ IsFiniteSet(S)
  BY FS_Subset DEF OfType
<1>3. \A r \in S : f[r] = t[r].attempts /\ f[r] \in Nat
  BY DEF Valid, NodeValid, OfType, Tries
<1> HIDE DEF S, f
<1>4. \A s \in SUBSET S : s # {} => f[Picked(s)] = t[CHOOSE x \in s : TRUE].attempts
  BY <1>3 DEF Picked
<1>5. \A h : Is(h) <=> SolvesProduct(f, S, h)
  BY <1>4 DEF SolvesProduct, Picked
<1>6. /\ \E h : SolvesProduct(f, S, h)
      /\ \A h : SolvesProduct(f, S, h) => IsProduct(f, S, h)
  BY <1>2, <1>3, ProductSolved
<1> HIDE DEF Is
<1>7. Is(it)
  <2>1. \E h : Is(h)
    BY <1>5, <1>6
  <2> QED
    BY <2>1
<1> HIDE DEF it
<1>8. IsProduct(f, S, it)
  BY <1>5, <1>6, <1>7
<1> QED
  BY <1>1, <1>8 DEF S, f

\* A node runs as often as its parent, times the tries of that.
LEMMA MultiplierStep ==
  ASSUME NEW t, Tree(t), Valid(t), IsFiniteSet(DOMAIN t)
  PROVE  /\ \A n \in DOMAIN t : RetryMultiplier(t, n) \in Nat
         /\ RetryMultiplier(t, 1) = 1
         /\ \A n \in DOMAIN t \ {1} :
              RetryMultiplier(t, n) = Tries(t, Parent(t, n)) * RetryMultiplier(t, Parent(t, n))
<1> DEFINE f == [r \in DOMAIN t |-> Tries(t, r)]
           S(n) == Above(t, n) \cap OfType(t, {"Retry"})
<1>1. \A n : \E h : IsProduct(f, S(n), h) /\ RetryMultiplier(t, n) = h[S(n)]
  BY MultiplierIs
<1> HIDE DEF f
<1>2. \A n \in DOMAIN t : RetryMultiplier(t, n) \in Nat
  <2> TAKE n \in DOMAIN t
  <2>1. PICK h : IsProduct(f, S(n), h) /\ RetryMultiplier(t, n) = h[S(n)]
    BY <1>1
  <2> HIDE DEF S
  <2>2. h[S(n)] \in Nat
    BY <2>1, ProductInsert
  <2> QED
    BY <2>1, <2>2
<1>3. RetryMultiplier(t, 1) = 1
  <2>1. PICK h : IsProduct(f, S(1), h) /\ RetryMultiplier(t, 1) = h[S(1)]
    BY <1>1
  <2>2. S(1) = {}
    BY AboveStep
  <2> HIDE DEF S
  <2>3. h[{}] = 1
    BY <2>1, ProductInsert
  <2> QED
    BY <2>1, <2>2, <2>3
<1>4. ASSUME NEW n \in DOMAIN t \ {1}
      PROVE  RetryMultiplier(t, n) = Tries(t, Parent(t, n)) * RetryMultiplier(t, Parent(t, n))
  <2> DEFINE p == Parent(t, n)
  <2>1. p \in DOMAIN t /\ Above(t, n) = {p} \cup Above(t, p)
    BY <1>4, ParentIs, AboveStep
  <2>2. p \notin Above(t, p)
    <3>1. p \in Above(t, p) => p < p
      BY <2>1, AboveLess
    <3>2. p \in Nat
      BY <2>1 DEF Tree
    <3> QED
      BY <3>1, <3>2
  <2> HIDE DEF p
  <2>3. PICK h : IsProduct(f, S(n), h) /\ RetryMultiplier(t, n) = h[S(n)]
    BY <1>1
  <2>4. PICK j : IsProduct(f, S(p), j) /\ RetryMultiplier(t, p) = j[S(p)]
    BY <1>1
  <2>5. S(p) \subseteq S(n)
    BY <2>1
  <2>6. j[S(p)] = h[S(p)]
    <3> HIDE DEF S
    <3> QED
      BY <2>3, <2>4, <2>5, ProductSame
  <2>7. CASE t[p].type = "Retry"
    <3>1. p \in S(n) /\ S(n) \ {p} = S(p)
      BY <2>1, <2>2, <2>7 DEF OfType
    <3>2. h[S(n)] = f[p] * h[S(n) \ {p}]
      <4> HIDE DEF S
      <4> QED
        BY <2>3, <3>1, ProductInsert
    <3>3. f[p] = Tries(t, p)
      BY <2>1 DEF f
    <3> HIDE DEF S
    <3> QED
      BY <2>3, <2>4, <2>6, <3>1, <3>2, <3>3 DEF p
  <2>8. CASE t[p].type # "Retry"
    <3>1. S(n) = S(p)
      BY <2>1, <2>8 DEF OfType
    <3>2. Tries(t, p) = 1 /\ RetryMultiplier(t, p) \in Nat
      BY <1>2, <2>1, <2>8 DEF Tries
    <3>3. RetryMultiplier(t, n) = RetryMultiplier(t, p)
      <4> HIDE DEF S
      <4> QED
        BY <2>3, <2>4, <2>6, <3>1
    <3> QED
      BY <3>2, <3>3 DEF p
  <2> QED
    BY <2>7, <2>8
<1> QED
  BY <1>2, <1>3, <1>4

\* A count is the sum of the multipliers.
LEMMA CountIs ==
  ASSUME NEW t, Tree(t), Valid(t), IsFiniteSet(DOMAIN t), NEW S \in SUBSET DOMAIN t
  PROVE  \E h : IsSum([n \in DOMAIN t |-> RetryMultiplier(t, n)], S, h) /\ Count(t, S) = h[S]
<1> DEFINE f == [n \in DOMAIN t |-> RetryMultiplier(t, n)]
           Is(h) == h = [s \in SUBSET S |-> IF s = {} THEN 0
                                            ELSE RetryMultiplier(t, CHOOSE x \in s : TRUE) + h[s \ {CHOOSE x \in s : TRUE}]]
           it == CHOOSE h : Is(h)
<1>1. Count(t, S) = it[S]
  BY DEF Count, MapThenSumSet, MapThenFoldSet
<1>2. IsFiniteSet(S)
  BY FS_Subset
<1>3. \A n \in S : f[n] = RetryMultiplier(t, n) /\ f[n] \in Nat
  BY MultiplierStep
<1> HIDE DEF f
<1>4. \A s \in SUBSET S : s # {} => f[Picked(s)] = RetryMultiplier(t, CHOOSE x \in s : TRUE)
  BY <1>3 DEF Picked
<1>5. \A h : Is(h) <=> SolvesSum(f, S, h)
  BY <1>4 DEF SolvesSum, Picked
<1>6. (\E h : SolvesSum(f, S, h)) /\ (\A h : SolvesSum(f, S, h) => IsSum(f, S, h))
  BY <1>2, <1>3, SumSolved
<1> HIDE DEF Is
<1>7. Is(it)
  <2>1. \E h : Is(h)
    BY <1>5, <1>6
  <2> QED
    BY <2>1
<1> HIDE DEF it
<1>8. IsSum(f, S, it)
  BY <1>5, <1>6, <1>7
<1> QED
  BY <1>1, <1>8 DEF f

=============================================================================
