--------------------------- MODULE CacheArithmetic ---------------------------
(***************************************************************************)
(* Facts about division, remainder, minima and the sizes of sets that the  *)
(* proofs about the caches rest on.                                        *)
(***************************************************************************)
EXTENDS Integers, WellFoundedInduction, FiniteSetTheorems, TLAPS

\* A nonempty set of naturals has a least element: a scan over the ways of a
\* set that stops at the first match finds one when there is one.
LEMMA LeastExists ==
  ASSUME NEW W \in SUBSET Nat, W # {}
  PROVE  \E w \in W : \A v \in W : w <= v
<1> DEFINE R == {p \in Nat \X Nat : p[1] < p[2]}
<1>1. IsWellFoundedOn(R, Nat)
  <2>1. R = OpToRel(<, Nat)
    BY DEF OpToRel
  <2> QED
    BY <2>1, NatLessThanWellFounded
<1>2. PICK w \in W : \A v \in W : ~(<<v, w>> \in R)
  <2> HIDE DEF R
  <2> QED
    BY <1>1, WFMin
<1>3. \A v \in W : w <= v
  <2> TAKE v \in W
  <2>1. v \in Nat /\ w \in Nat
    OBVIOUS
  <2>2. v < w => <<v, w>> \in R
    BY <2>1
  <2> HIDE DEF R
  <2> QED
    BY <1>2, <2>1, <2>2
<1> QED
  BY <1>3

\* Quotient and remainder are what they should be.
LEMMA DivMod ==
  ASSUME NEW a \in Nat, NEW n \in Nat \ {0}
  PROVE  /\ a \div n \in Nat
         /\ a % n \in 0 .. n - 1
         /\ a = (a \div n) * n + (a % n)
OBVIOUS

\* getTag divides once by blkSize * _numSets where findSet divides by blkSize
\* first: the tag is the block number without the bits that choose the set.
LEMMA DivDiv ==
  ASSUME NEW a \in Nat, NEW b \in Nat \ {0}, NEW n \in Nat \ {0}
  PROVE  /\ b * n \in Nat \ {0}
         /\ a \div (b * n) = (a \div b) \div n
OBVIOUS

\* A cache with room for one set of several lines has room for a line.
LEMMA DivPositive ==
  ASSUME NEW a \in Nat, NEW m \in Nat \ {0}, NEW b \in Nat \ {0}, a \div (m * b) > 0
  PROVE  /\ a \div (m * b) \in Nat \ {0}
         /\ a \div b \in Nat \ {0}
<1> DEFINE p == m * b
           n == a \div p
<1>1. p \in Nat \ {0} /\ p >= b
  OBVIOUS
<1> HIDE DEF p
<1>2. n \in Nat /\ n > 0 /\ a = n * p + (a % p) /\ a % p \in 0 .. p - 1
  BY <1>1, DivMod DEF p
<1>3. a >= b
  <2> HIDE DEF n
  <2>1. n * p >= p /\ n * p \in Nat
    BY <1>1, <1>2
  <2> QED
    BY <1>1, <1>2, <2>1
<1>4. a \div b \in Nat \ {0}
  BY <1>3
<1> QED
  BY <1>2, <1>4 DEF p

\* Quotient and remainder determine the number.
LEMMA SameQuotientAndRemainder ==
  ASSUME NEW x \in Nat, NEW y \in Nat, NEW n \in Nat \ {0},
         x % n = y % n, x \div n = y \div n
  PROVE  x = y
OBVIOUS

\* Adding a multiple leaves the remainder alone.
LEMMA ModOfMultiple ==
  ASSUME NEW p \in Nat, NEW r \in Nat, NEW n \in Nat \ {0}
  PROVE  (n * p + r) % n = r % n
<1> DEFINE q == r \div n
           s == r % n
<1>1. q \in Nat /\ s \in 0 .. n - 1 /\ r = q * n + s
  BY DivMod
<1> HIDE DEF q, s
<1>2. n * p + r = n * (p + q) + s
  BY <1>1
<1>3. (n * (p + q) + s) % n = s
  <2> DEFINE m == p + q
  <2>1. m \in Nat
    BY <1>1
  <2> HIDE DEF m
  <2>2. (n * m + s) % n = s
    BY <1>1, <2>1
  <2> QED
    BY <2>2 DEF m
<1> QED
  BY <1>2, <1>3 DEF s

\* Blocks that share a set of a large cache share one of every cache whose
\* number of sets divides the large one's.
LEMMA ModOfDivisor ==
  ASSUME NEW x \in Nat, NEW y \in Nat, NEW n \in Nat \ {0}, NEW m \in Nat \ {0},
         m % n = 0, x % m = y % m
  PROVE  x % n = y % n
<1>1. PICK k \in Nat : m = n * k
  <2>1. m = (m \div n) * n + (m % n) /\ m \div n \in Nat
    BY DivMod
  <2> QED
    BY <2>1
<1>2. \A z \in Nat : z % n = (z % m) % n
  <2> TAKE z \in Nat
  <2>1. z \div m \in Nat /\ z % m \in 0 .. m - 1 /\ z = (z \div m) * m + (z % m)
    BY DivMod
  <2> DEFINE p == z \div m
             r == z % m
  <2> HIDE DEF p, r
  <2>2. p \in Nat /\ r \in Nat /\ z = p * m + r
    BY <2>1 DEF p, r
  <2>3. z = n * (k * p) + r
    BY <2>2, <1>1
  <2> DEFINE q == k * p
  <2>4. q \in Nat /\ z = n * q + r
    BY <2>2, <2>3, <1>1
  <2> HIDE DEF q
  <2>5. (n * q + r) % n = r % n
    BY <2>2, <2>4, ModOfMultiple
  <2>6. z % n = r % n
    BY <2>4, <2>5
  <2> QED
    BY <2>6 DEF r
<1> QED
  BY <1>2

\* A number with a given remainder has one quotient.
LEMMA SameMultiple ==
  ASSUME NEW q \in Nat, NEW p \in Nat, NEW n \in Nat \ {0}, NEW s \in Nat,
         NEW b, b = q * n + s, b = n * p + s
  PROVE  q = p
<1>1. CASE q < p
  <2>1. q * n + n <= n * p
    BY <1>1
  <2> QED
    BY <2>1
<1>2. CASE p < q
  <2>1. n * p + n <= q * n
    BY <1>2
  <2> QED
    BY <2>1
<1> QED
  BY <1>1, <1>2

\* More bytes hold no fewer lines.
LEMMA DivMonotone ==
  ASSUME NEW x \in Nat, NEW y \in Nat, NEW b \in Nat \ {0}, x <= y
  PROVE  x \div b <= y \div b
OBVIOUS

\* The image of a finite set is finite and no larger.
LEMMA ImageNotLarger ==
  ASSUME NEW S, IsFiniteSet(S), NEW f
  PROVE  /\ IsFiniteSet({f[x] : x \in S})
         /\ Cardinality({f[x] : x \in S}) <= Cardinality(S)
<1> DEFINE T == {f[x] : x \in S}
           h == [x \in S |-> f[x]]
<1>1. h \in Surjection(S, T)
  BY DEF Surjection
<1> HIDE DEF T, h
<1>2. IsFiniteSet(T) /\ Cardinality(T) <= Cardinality(S)
  BY <1>1, FS_Surjection
<1> QED
  BY <1>2 DEF T

\* Distinct elements with distinct images in a finite set are no more than it has.
LEMMA DistinctImagesFit ==
  ASSUME NEW S, NEW T, IsFiniteSet(T), NEW f,
         \A x \in S : f[x] \in T,
         \A x, y \in S : f[x] = f[y] => x = y
  PROVE  Cardinality(S) <= Cardinality(T)
<1> DEFINE h == [x \in S |-> f[x]]
<1>1. h \in Injection(S, T)
  BY DEF Injection, IsInjective
<1> HIDE DEF h
<1> QED
  BY <1>1, FS_Injection
=============================================================================
