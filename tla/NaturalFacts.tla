---------------------------- MODULE NaturalFacts ----------------------------
(***************************************************************************)
(* What the proofs need to know of natural numbers and finite sets, and no *)
(* solver finds by itself: a least member and a smallest subset, which is  *)
(* how these proofs do induction, Max and Min of a set, quotients and      *)
(* products, and the sum of a function over a set.                         *)
(***************************************************************************)
EXTENDS Integers, FiniteSetsExt, FiniteSetTheorems, WellFoundedInduction, TLAPS

\* A set of natural numbers has a least member: the induction of these proofs.
LEMMA NatMin ==
    ASSUME NEW S \in SUBSET Nat, S # {}
    PROVE  \E m \in S : \A k \in S : m <= k
<1>1. PICK m \in S : \A y \in S : ~ (<<y, m>> \in OpToRel(<, Nat))
  BY WFMin, NatLessThanWellFounded, Zenon
<1>2. \A y \in S : ~ (y < m)
  BY <1>1, Zenon DEF OpToRel
<1> QED BY <1>2

LEMMA NatMax ==
    ASSUME NEW n \in Nat, NEW S \in SUBSET (0..n), S # {}
    PROVE  \E m \in S : \A k \in S : k <= m
<1> DEFINE T == {n - k : k \in S}
<1>1. T \in SUBSET Nat /\ T # {}
  <2>1. \A k \in S : n - k \in Nat
    OBVIOUS
  <2>2. PICK k \in S : TRUE
    OBVIOUS
  <2>3. n - k \in T
    BY <2>2
  <2> QED BY <2>1, <2>3
<1>2. PICK m \in T : \A k \in T : m <= k
  BY <1>1, NatMin
<1>3. PICK x \in S : m = n - x
  OBVIOUS
<1>4. \A k \in S : n - x <= n - k
  BY <1>2, <1>3
<1> QED BY <1>4

\* Max and Min of the community modules.
LEMMA MaxOfSet ==
    ASSUME NEW n \in Nat, NEW S \in SUBSET (0..n), S # {}
    PROVE  Max(S) \in S /\ \A k \in S : k <= Max(S)
<1>1. \E m \in S : \A k \in S : m >= k
  BY NatMax
<1> QED BY <1>1 DEF Max

LEMMA MaxOfTwo ==
    ASSUME NEW a \in Int, NEW b \in Int
    PROVE  Max({a, b}) = IF a >= b THEN a ELSE b
  BY DEF Max

LEMMA MinOfTwo ==
    ASSUME NEW a \in Int, NEW b \in Int
    PROVE  Min({a, b}) = IF a <= b THEN a ELSE b
  BY DEF Min

-----------------------------------------------------------------------------
\* Quotients and products: what the solvers need to be told.
LEMMA Division ==
    ASSUME NEW a \in Nat, NEW b \in Nat \ {0}
    PROVE  a = (a \div b) * b + (a % b) /\ a % b \in 0..(b - 1) /\ a \div b \in Nat
  OBVIOUS

LEMMA DivisionUnique ==
    ASSUME NEW a \in Nat, NEW b \in Nat \ {0}, NEW q \in Int, NEW r \in 0..(b - 1), a = q * b + r
    PROVE  q = a \div b /\ r = a % b
  OBVIOUS

LEMMA NextMultiple ==
    ASSUME NEW b \in Nat \ {0}, NEW k \in Nat, NEW j \in Nat, j >= k + 1
    PROVE  j * b >= k * b + b
  OBVIOUS

LEMMA Multiples == ASSUME NEW b \in Nat \ {0}, NEW k \in Nat PROVE k * b \in Nat
  OBVIOUS

LEMMA Products ==
    ASSUME NEW a \in Nat, NEW b \in Nat, NEW c \in Nat, a <= b
    PROVE  a * c \in Nat /\ b * c \in Nat /\ a * c <= b * c
  OBVIOUS

LEMMA DivisionOrder ==
    ASSUME NEW x \in Nat, NEW y \in Nat, NEW d \in Nat \ {0}, x <= y
    PROVE  x \div d <= y \div d
<1> DEFINE p == x \div d
           q == y \div d
<1>1. x = p * d + (x % d) /\ x % d \in 0..(d - 1) /\ p \in Nat
  BY Division
<1>2. y = q * d + (y % d) /\ y % d \in 0..(d - 1) /\ q \in Nat
  BY Division
<1>3. p * d \in Nat /\ q * d \in Nat
  <2> HIDE DEF p, q
  <2> QED BY <1>1, <1>2
<1> HIDE DEF p, q
<1>4. ASSUME p >= q + 1 PROVE FALSE
  <2>1. p * d >= q * d + d
    BY <1>1, <1>2, <1>4, NextMultiple
  <2> QED BY <1>1, <1>2, <1>3, <2>1
<1>5. p <= q
  BY <1>1, <1>2, <1>4
<1> QED BY <1>5 DEF p, q

LEMMA DivisionExact ==
    ASSUME NEW c \in Nat, NEW d \in Nat \ {0}
    PROVE  (d * c) \div d = c
<1>1. d * c = c * d + 0 /\ d * c \in Nat
  OBVIOUS
<1> QED BY <1>1, DivisionUnique

\* Ranges that are not empty are no more than what they divide.
LEMMA NoMoreParts ==
    ASSUME NEW s \in Nat, NEW b \in Nat \ {0}
    PROVE  (s + b - 1) \div b \in Nat /\ (s + b - 1) \div b <= s
<1> DEFINE a == s + b - 1
           m == a \div b
<1>1. a \in Nat
  OBVIOUS
<1>2. a = m * b + (a % b) /\ a % b \in 0..(b - 1) /\ m \in Nat
  <2> HIDE DEF a
  <2> QED BY <1>1, Division
<1>3. ASSUME m >= s + 1 PROVE FALSE
  <2>1. m * b >= s * b + b /\ m * b \in Nat
    <3> HIDE DEF m
    <3> QED BY <1>2, <1>3, NextMultiple, Multiples
  <2>2. s <= s * b /\ s * b \in Nat
    <3>1. 1 * s <= b * s /\ b * s \in Nat
      BY Products
    <3> QED BY <3>1
  <2> HIDE DEF m
  <2>3. a = s + b - 1
    OBVIOUS
  <2> QED BY <1>2, <2>1, <2>2, <2>3
<1>4. m <= s
  <2> HIDE DEF m
  <2> QED BY <1>2, <1>3
<1> QED BY <1>2, <1>4

-----------------------------------------------------------------------------
(***************************************************************************)
(* Induction over the subsets of a finite set, as the choice of a smallest *)
(* one without the property                                                *)
(***************************************************************************)

LEMMA SmallestSubset ==
    ASSUME NEW S, IsFiniteSet(S), NEW B \in SUBSET (SUBSET S), B # {}
    PROVE  \E s \in B : IsFiniteSet(s) /\ \A r \in SUBSET s : r # s => r \notin B
<1> DEFINE N == {Cardinality(s) : s \in B}
<1>1. \A s \in B : IsFiniteSet(s) /\ Cardinality(s) \in Nat
  BY FS_Subset, FS_CardinalityType
<1>2. PICK n \in N : \A k \in N : n <= k
  <2>1. N \in SUBSET Nat /\ N # {}
    BY <1>1
  <2> HIDE DEF N
  <2> QED BY <2>1, NatMin
<1>3. PICK s \in B : Cardinality(s) = n
  OBVIOUS
<1>4. ASSUME NEW r \in SUBSET s, r # s, r \in B PROVE FALSE
  <2>1. Cardinality(r) < Cardinality(s)
    BY <1>1, <1>4, FS_Subset
  <2>2. n <= Cardinality(r) /\ Cardinality(r) \in Nat /\ Cardinality(s) \in Nat
    BY <1>1, <1>2, <1>4
  <2> QED BY <1>3, <2>1, <2>2
<1> QED BY <1>1, <1>4

-----------------------------------------------------------------------------
(***************************************************************************)
(* The sum of a function over a finite set, SumFunctionOnSet of the        *)
(* community module Functions                                              *)
(***************************************************************************)
Pick(s) == CHOOSE x \in s : TRUE
SumFrom(f, g, s) == IF s = {} THEN 0 ELSE f[Pick(s)] + g[s \ {Pick(s)}]
IsSum(g, f, S) == g = [s \in SUBSET S |-> SumFrom(f, g, s)]

LEMMA PickIn == ASSUME NEW s, s # {} PROVE Pick(s) \in s
  BY DEF Pick

LEMMA SumIs ==
    ASSUME NEW f, NEW S PROVE SumFunctionOnSet(f, S) = (CHOOSE g : IsSum(g, f, S))[S]
  BY DEF SumFunctionOnSet, FoldFunctionOnSet, MapThenFoldSet, IsSum, SumFrom, Pick

LEMMA SumAgrees ==
    ASSUME NEW S, IsFiniteSet(S), NEW R \in SUBSET S, NEW f, NEW g, NEW h,
           IsSum(g, f, S), IsSum(h, f, R)
    PROVE  \A s \in SUBSET R : g[s] = h[s]
<1> DEFINE B == {s \in SUBSET R : g[s] # h[s]}
<1>1. /\ \A s \in SUBSET R : g[s] = SumFrom(f, g, s)
      /\ \A s \in SUBSET R : h[s] = SumFrom(f, h, s)
  BY DEF IsSum
<1>2. ASSUME B # {} PROVE FALSE
  <2>1. IsFiniteSet(R) /\ B \in SUBSET (SUBSET R)
    BY FS_Subset
  <2>2. PICK s \in B : \A r \in SUBSET s : r # s => r \notin B
    <3> HIDE DEF B
    <3> QED BY <1>2, <2>1, SmallestSubset
  <2>3. s # {}
    BY <1>1 DEF SumFrom
  <2>4. Pick(s) \in s
    BY <2>3, PickIn
  <2>5. g[s \ {Pick(s)}] = h[s \ {Pick(s)}]
    BY <2>2, <2>4
  <2> QED BY <1>1, <2>3, <2>5 DEF SumFrom
<1> QED BY <1>2

LEMMA SumExists ==
    ASSUME NEW T, IsFiniteSet(T), NEW f
    PROVE  \A S \in SUBSET T : \E g : IsSum(g, f, S)
<1> DEFINE B == {S \in SUBSET T : ~ \E g : IsSum(g, f, S)}
<1>1. ASSUME B # {} PROVE FALSE
  <2>1. PICK S \in B : IsFiniteSet(S) /\ \A r \in SUBSET S : r # S => r \notin B
    <3>1. B \in SUBSET (SUBSET T)
      OBVIOUS
    <3> HIDE DEF B
    <3> QED BY <1>1, <3>1, SmallestSubset
  <2> DEFINE H(r) == CHOOSE h : IsSum(h, f, r)
             G == [s \in SUBSET S |->
                     IF s = {} THEN 0 ELSE f[Pick(s)] + H(s \ {Pick(s)})[s \ {Pick(s)}]]
  <2>2. \A r \in SUBSET S : r # S => IsSum(H(r), f, r)
    BY <2>1
  <2>3. ASSUME NEW r \in SUBSET S, r # S PROVE G[r] = H(r)[r]
    <3>1. IsSum(H(r), f, r)
      BY <2>2, <2>3
    <3>2. H(r)[r] = SumFrom(f, H(r), r)
      <4> HIDE DEF H
      <4> QED BY <3>1 DEF IsSum
    <3>3. CASE r = {}
      BY <3>2, <3>3 DEF SumFrom
    <3>4. CASE r # {}
      <4> DEFINE q == r \ {Pick(r)}
      <4>1. Pick(r) \in r /\ q \in SUBSET r /\ q # S /\ q \in SUBSET S /\ IsFiniteSet(r)
        BY <2>1, <3>4, PickIn, FS_Subset
      <4>2. IsSum(H(q), f, q)
        BY <2>2, <4>1
      <4>3. H(r)[q] = H(q)[q]
        <5> HIDE DEF H, q
        <5> QED BY <3>1, <4>1, <4>2, SumAgrees
      <4>4. G[r] = f[Pick(r)] + H(q)[q]
        BY <3>4
      <4>5. H(r)[r] = f[Pick(r)] + H(r)[q]
        BY <3>2, <3>4 DEF SumFrom
      <4> QED BY <4>3, <4>4, <4>5
    <3> QED BY <3>3, <3>4
  <2>4. ASSUME NEW s \in SUBSET S PROVE G[s] = SumFrom(f, G, s)
    <3>1. CASE s = {}
      BY <3>1 DEF SumFrom
    <3>2. CASE s # {}
      <4> DEFINE q == s \ {Pick(s)}
      <4>1. Pick(s) \in s /\ q # S /\ q \in SUBSET S
        BY <3>2, PickIn
      <4>2. G[q] = H(q)[q]
        BY <2>3, <4>1
      <4>3. G[s] = f[Pick(s)] + H(q)[q]
        BY <3>2
      <4> HIDE DEF G, H
      <4> QED BY <3>2, <4>2, <4>3 DEF SumFrom
    <3> QED BY <3>1, <3>2
  <2>5. G = [s \in SUBSET S |-> G[s]]
    OBVIOUS
  <2>6. IsSum(G, f, S)
    <3> HIDE DEF G
    <3>1. [s \in SUBSET S |-> G[s]] = [s \in SUBSET S |-> SumFrom(f, G, s)]
      BY <2>4
    <3> QED BY <2>5, <3>1 DEF IsSum
  <2> QED BY <2>1, <2>6
<1> QED BY <1>1

\* The two equations of the sum.
LEMMA SumEmpty == ASSUME NEW f PROVE SumFunctionOnSet(f, {}) = 0
<1> DEFINE g == CHOOSE g : IsSum(g, f, {})
<1>1. \E h : IsSum(h, f, {})
  BY FS_EmptySet, SumExists
<1>2. IsSum(g, f, {})
  BY <1>1
<1>3. g[{}] = SumFrom(f, g, {})
  <2> HIDE DEF g
  <2> QED BY <1>2 DEF IsSum
<1> QED BY <1>3, SumIs DEF SumFrom

LEMMA SumStep ==
    ASSUME NEW S, IsFiniteSet(S), S # {}, NEW f
    PROVE  /\ Pick(S) \in S
           /\ SumFunctionOnSet(f, S) = f[Pick(S)] + SumFunctionOnSet(f, S \ {Pick(S)})
<1> DEFINE R == S \ {Pick(S)}
           g == CHOOSE g : IsSum(g, f, S)
           h == CHOOSE h : IsSum(h, f, R)
<1>1. IsSum(g, f, S)
  <2>1. \E x : IsSum(x, f, S)
    BY SumExists
  <2> QED BY <2>1
<1>2. IsSum(h, f, R)
  <2>1. \E x : IsSum(x, f, R)
    BY SumExists
  <2> QED BY <2>1
<1>3. g[R] = h[R]
  <2> HIDE DEF g, h
  <2> QED BY <1>1, <1>2, SumAgrees
<1>4. g[S] = f[Pick(S)] + g[R]
  <2> HIDE DEF g
  <2>1. g[S] = SumFrom(f, g, S)
    BY <1>1 DEF IsSum
  <2> QED BY <2>1 DEF SumFrom
<1>5. SumFunctionOnSet(f, S) = g[S] /\ SumFunctionOnSet(f, R) = h[R]
  BY SumIs
<1> HIDE DEF g, h
<1> QED BY <1>3, <1>4, <1>5, PickIn

\* A sum of natural numbers is one.
LEMMA SumNat ==
    ASSUME NEW S, IsFiniteSet(S), NEW f, \A x \in S : f[x] \in Nat
    PROVE  \A R \in SUBSET S : SumFunctionOnSet(f, R) \in Nat
<1> DEFINE B == {R \in SUBSET S : SumFunctionOnSet(f, R) \notin Nat}
<1>1. ASSUME B # {} PROVE FALSE
  <2>1. PICK s \in B : IsFiniteSet(s) /\ \A r \in SUBSET s : r # s => r \notin B
    <3>1. B \in SUBSET (SUBSET S)
      OBVIOUS
    <3> HIDE DEF B
    <3> QED BY <1>1, <3>1, SmallestSubset
  <2>2. s # {}
    BY SumEmpty
  <2>3. /\ Pick(s) \in s
        /\ SumFunctionOnSet(f, s) = f[Pick(s)] + SumFunctionOnSet(f, s \ {Pick(s)})
    BY <2>1, <2>2, SumStep
  <2>4. SumFunctionOnSet(f, s \ {Pick(s)}) \in Nat
    BY <2>1, <2>3
  <2> QED BY <2>3, <2>4
<1> QED BY <1>1

\* Any element can be taken first.
LEMMA SumAdd ==
    ASSUME NEW S, IsFiniteSet(S), NEW f, \A x \in S : f[x] \in Nat, NEW e \in S
    PROVE  SumFunctionOnSet(f, S) = f[e] + SumFunctionOnSet(f, S \ {e})
<1> DEFINE Sum(R) == SumFunctionOnSet(f, R)
           B == {R \in SUBSET S : \E x \in R : Sum(R) # f[x] + Sum(R \ {x})}
<1>1. ASSUME B # {} PROVE FALSE
  <2>1. PICK s \in B : IsFiniteSet(s) /\ \A r \in SUBSET s : r # s => r \notin B
    <3>1. B \in SUBSET (SUBSET S)
      OBVIOUS
    <3> HIDE DEF B
    <3> QED BY <1>1, <3>1, SmallestSubset
  <2>2. PICK x \in s : Sum(s) # f[x] + Sum(s \ {x})
    BY <2>1
  <2> DEFINE y == Pick(s)
             both == (s \ {x}) \ {y}
  <2>3. s \in SUBSET S /\ y \in s /\ Sum(s) = f[y] + Sum(s \ {y})
    BY <2>1, <2>2, SumStep
  <2>4. CASE x = y
    BY <2>2, <2>3, <2>4
  <2>5. CASE x # y
    <3>1. /\ s \ {y} \in SUBSET s /\ s \ {y} # s /\ x \in s \ {y}
          /\ s \ {x} \in SUBSET s /\ s \ {x} # s /\ y \in s \ {x}
          /\ (s \ {y}) \ {x} = both
      BY <2>2, <2>3, <2>5
    <3>2. \A q \in SUBSET s : q # s => \A z \in q : Sum(q) = f[z] + Sum(q \ {z})
      BY <2>1, <2>3
    <3>3. Sum(s \ {y}) = f[x] + Sum(both) /\ Sum(s \ {x}) = f[y] + Sum(both)
      <4> HIDE DEF Sum, y
      <4> QED BY <3>1, <3>2
    <3>4. f[x] \in Nat /\ f[y] \in Nat /\ Sum(both) \in Nat
      <4>1. both \in SUBSET S
        BY <2>3
      <4> HIDE DEF both, y
      <4> QED BY <2>2, <2>3, <4>1, SumNat
    <3> HIDE DEF Sum, both, y
    <3> QED BY <2>2, <2>3, <3>3, <3>4
  <2> QED BY <2>4, <2>5
<1>2. S \notin B
  BY <1>1
<1> QED BY <1>2

\* A sum depends on the values in the set only.
LEMMA SumSame ==
    ASSUME NEW S, IsFiniteSet(S), NEW f, NEW g, \A x \in S : f[x] = g[x]
    PROVE  SumFunctionOnSet(f, S) = SumFunctionOnSet(g, S)
<1> DEFINE B == {R \in SUBSET S : SumFunctionOnSet(f, R) # SumFunctionOnSet(g, R)}
<1>1. ASSUME B # {} PROVE FALSE
  <2>1. PICK s \in B : IsFiniteSet(s) /\ \A r \in SUBSET s : r # s => r \notin B
    <3>1. B \in SUBSET (SUBSET S)
      OBVIOUS
    <3> HIDE DEF B
    <3> QED BY <1>1, <3>1, SmallestSubset
  <2>2. s # {}
    BY SumEmpty
  <2>3. /\ Pick(s) \in s
        /\ SumFunctionOnSet(f, s) = f[Pick(s)] + SumFunctionOnSet(f, s \ {Pick(s)})
        /\ SumFunctionOnSet(g, s) = g[Pick(s)] + SumFunctionOnSet(g, s \ {Pick(s)})
    BY <2>1, <2>2, SumStep
  <2>4. SumFunctionOnSet(f, s \ {Pick(s)}) = SumFunctionOnSet(g, s \ {Pick(s)})
    BY <2>1, <2>3
  <2> QED BY <2>1, <2>3, <2>4
<1> QED BY <1>1

\* Two sets apart.
LEMMA SumApart ==
    ASSUME NEW S, IsFiniteSet(S), NEW f, \A x \in S : f[x] \in Nat,
           NEW P \in SUBSET S, NEW Q \in SUBSET S, P \cap Q = {}
    PROVE  SumFunctionOnSet(f, P \cup Q) = SumFunctionOnSet(f, P) + SumFunctionOnSet(f, Q)
<1> DEFINE Sum(R) == SumFunctionOnSet(f, R)
           B == {R \in SUBSET P : Sum(R \cup Q) # Sum(R) + Sum(Q)}
<1>1. \A R \in SUBSET S : Sum(R) \in Nat
  BY SumNat
<1>2. ASSUME B # {} PROVE FALSE
  <2>1. PICK s \in B : \A r \in SUBSET s : r # s => r \notin B
    <3>1. B \in SUBSET (SUBSET P) /\ IsFiniteSet(P)
      BY FS_Subset
    <3> HIDE DEF B
    <3> QED BY <1>2, <3>1, SmallestSubset
  <2>2. CASE s = {}
    <3>1. s \cup Q = Q
      BY <2>2
    <3>2. Sum(s) = 0 /\ Sum(Q) \in Nat /\ Sum(s \cup Q) = Sum(Q)
      BY <1>1, <2>2, <3>1, SumEmpty
    <3> QED BY <2>1, <3>2
  <2>3. CASE s # {}
    <3> DEFINE z == Pick(s)
    <3>1. z \in s /\ s \in SUBSET S /\ s \cup Q \in SUBSET S /\ (s \cup Q) \ {z} = (s \ {z}) \cup Q
      BY <2>1, <2>3, PickIn
    <3>2. IsFiniteSet(s) /\ IsFiniteSet(s \cup Q)
      BY <3>1, FS_Subset
    <3>3. Sum(s) = f[z] + Sum(s \ {z}) /\ Sum(s \cup Q) = f[z] + Sum((s \cup Q) \ {z})
      <4> HIDE DEF z
      <4> QED BY <3>1, <3>2, SumAdd
    <3>4. Sum((s \ {z}) \cup Q) = Sum(s \ {z}) + Sum(Q)
      BY <2>1, <3>1
    <3>5. f[z] \in Nat /\ Sum(s \ {z}) \in Nat /\ Sum(Q) \in Nat
      BY <1>1, <3>1
    <3> HIDE DEF Sum, z
    <3> QED BY <2>1, <3>1, <3>3, <3>4, <3>5
  <2> QED BY <2>2, <2>3
<1>3. P \notin B
  BY <1>2
<1> QED BY <1>3

\* A part has no more than the whole.
LEMMA SumPart ==
    ASSUME NEW S, IsFiniteSet(S), NEW f, \A x \in S : f[x] \in Nat, NEW R \in SUBSET S
    PROVE  SumFunctionOnSet(f, R) <= SumFunctionOnSet(f, S)
<1>1. R \cup (S \ R) = S /\ R \cap (S \ R) = {} /\ S \ R \in SUBSET S
  OBVIOUS
<1>2. SumFunctionOnSet(f, S) = SumFunctionOnSet(f, R) + SumFunctionOnSet(f, S \ R)
  <2>1. SumFunctionOnSet(f, R \cup (S \ R)) = SumFunctionOnSet(f, R) + SumFunctionOnSet(f, S \ R)
    BY <1>1, SumApart
  <2> QED BY <1>1, <2>1
<1>3. SumFunctionOnSet(f, R) \in Nat /\ SumFunctionOnSet(f, S \ R) \in Nat
  BY <1>1, SumNat
<1> QED BY <1>2, <1>3

\* Where f sums w over the classes of c, the sum of f over classes is that of w over what is
\* in them.
LEMMA SumByClass ==
    ASSUME NEW D, IsFiniteSet(D), NEW I, IsFiniteSet(I), NEW w, \A i \in I : w[i] \in Nat,
           NEW c, NEW f,
           \A b \in D : f[b] = SumFunctionOnSet(w, {i \in I : c[i] = b})
    PROVE  SumFunctionOnSet(f, D) = SumFunctionOnSet(w, {i \in I : c[i] \in D})
<1> DEFINE In(R) == {i \in I : c[i] \in R}
           B == {R \in SUBSET D : SumFunctionOnSet(f, R) # SumFunctionOnSet(w, In(R))}
<1>1. ASSUME B # {} PROVE FALSE
  <2>1. PICK s \in B : IsFiniteSet(s) /\ \A r \in SUBSET s : r # s => r \notin B
    <3>1. B \in SUBSET (SUBSET D)
      OBVIOUS
    <3> HIDE DEF B
    <3> QED BY <1>1, <3>1, SmallestSubset
  <2>2. CASE s = {}
    <3>1. In(s) = {}
      BY <2>2
    <3>2. SumFunctionOnSet(f, s) = 0 /\ SumFunctionOnSet(w, In(s)) = 0
      BY <2>2, <3>1, SumEmpty
    <3> QED BY <2>1, <3>2
  <2>3. CASE s # {}
    <3> DEFINE z == Pick(s)
               one == {i \in I : c[i] = z}
               rest == In(s \ {z})
    <3>1. z \in s /\ SumFunctionOnSet(f, s) = f[z] + SumFunctionOnSet(f, s \ {z})
      BY <2>1, <2>3, SumStep
    <3>2. f[z] = SumFunctionOnSet(w, one)
      BY <3>1
    <3>3. SumFunctionOnSet(f, s \ {z}) = SumFunctionOnSet(w, rest)
      BY <2>1, <3>1
    <3>4. one \in SUBSET I /\ rest \in SUBSET I /\ one \cap rest = {} /\ one \cup rest = In(s)
      BY <3>1
    <3>5. SumFunctionOnSet(w, one \cup rest) = SumFunctionOnSet(w, one) + SumFunctionOnSet(w, rest)
      <4> HIDE DEF one, rest
      <4> QED BY <3>4, SumApart
    <3> QED BY <2>1, <3>1, <3>2, <3>3, <3>4, <3>5
  <2> QED BY <2>2, <2>3
<1>2. D \notin B
  BY <1>1
<1> QED BY <1>2

\* Equal terms.
LEMMA SumOfEqual ==
    ASSUME NEW S, IsFiniteSet(S), NEW f, NEW v \in Nat, \A x \in S : f[x] = v
    PROVE  SumFunctionOnSet(f, S) = Cardinality(S) * v
<1> DEFINE B == {R \in SUBSET S : SumFunctionOnSet(f, R) # Cardinality(R) * v}
<1>1. ASSUME B # {} PROVE FALSE
  <2>1. PICK s \in B : IsFiniteSet(s) /\ \A r \in SUBSET s : r # s => r \notin B
    <3>1. B \in SUBSET (SUBSET S)
      OBVIOUS
    <3> HIDE DEF B
    <3> QED BY <1>1, <3>1, SmallestSubset
  <2>2. s # {}
    <3>1. ASSUME s = {} PROVE FALSE
      <4>1. SumFunctionOnSet(f, s) = 0 /\ Cardinality(s) = 0
        BY <3>1, SumEmpty, FS_EmptySet
      <4> QED BY <2>1, <4>1
    <3> QED BY <3>1
  <2> DEFINE z == Pick(s)
             n == Cardinality(s \ {z})
  <2>3. z \in s /\ SumFunctionOnSet(f, s) = f[z] + SumFunctionOnSet(f, s \ {z})
    BY <2>1, <2>2, SumStep
  <2>4. f[z] = v /\ SumFunctionOnSet(f, s \ {z}) = n * v
    BY <2>1, <2>3
  <2>5. n \in Nat /\ Cardinality(s) = n + 1
    <3>1. Cardinality(s \ {z}) = Cardinality(s) - 1 /\ IsFiniteSet(s \ {z})
      BY <2>1, <2>3, FS_RemoveElement
    <3>2. Cardinality(s \ {z}) \in Nat /\ Cardinality(s) \in Nat
      BY <2>1, <3>1, FS_CardinalityType
    <3> QED BY <3>1, <3>2
  <2> HIDE DEF n, z
  <2>6. (n + 1) * v = v + n * v
    BY <2>5
  <2> QED BY <2>1, <2>3, <2>4, <2>5, <2>6
<1> QED BY <1>1
=============================================================================
