------------------------- MODULE SharedCacheProofs --------------------------
(***************************************************************************)
(* Pirates and target on the shared cache, for every geometry and every    *)
(* experiment: nobody leaves its mapping, the target keeps the ways that   *)
(* were not asked for, the pirates the ones that were, and what icar finds *)
(* in the cache is what its working sets say.                              *)
(***************************************************************************)
EXTENDS SharedCache, CacheArithmetic, SequenceTheorems

(***************************************************************************)
(* The order of a set.                                                     *)
(***************************************************************************)

\* A line moves to the front: those that were before it go back by one place.
LEMMA Places ==
  ASSUME NEW L, NEW order \in Seq(L), IsInjective(order), NEW z \in L
  PROVE  LET new == <<z>> \o RemoveFirst(order, z)
         IN \E m \in 1 .. Len(order) + 1 :
              /\ m <= Len(order) => order[m] = z
              /\ m = Len(order) + 1 => z \notin Range(order)
              /\ new \in Seq(L)
              /\ Len(new) = IF m <= Len(order) THEN Len(order) ELSE Len(order) + 1
              /\ new[1] = z
              /\ \A k \in 2 .. Len(new) : new[k] = IF k <= m THEN order[k - 1] ELSE order[k]
<1> DEFINE n == Len(order)
           new == <<z>> \o RemoveFirst(order, z)
<1>n. n \in Nat /\ DOMAIN order = 1 .. n /\ \A k \in 1 .. n : order[k] \in L
  OBVIOUS
<1>1. CASE z \notin Range(order)
  <2>1. RemoveFirst(order, z) = order
    BY <1>1 DEF RemoveFirst, Range
  <2>2. /\ new \in Seq(L) /\ Len(new) = n + 1 /\ new[1] = z
        /\ \A k \in 2 .. n + 1 : new[k] = order[k - 1]
    BY <2>1
  <2> HIDE DEF new, n
  <2>3. n + 1 \in 1 .. n + 1 /\ ~(n + 1 <= n)
    BY <1>n
  <2>4. \A k \in 2 .. Len(new) : new[k] = IF k <= n + 1 THEN order[k - 1] ELSE order[k]
    BY <1>n, <2>2
  <2> QED
    BY <1>1, <2>2, <2>3, <2>4 DEF new, n
<1>2. CASE z \in Range(order)
  <2>1. PICK m \in 1 .. n : order[m] = z
    BY <1>2 DEF Range
  <2>2. \A k \in 1 .. n : order[k] = z => k = m
    BY <2>1, <1>n DEF IsInjective
  <2>3. {k \in 1 .. n : order[k] = z} = {m}
    BY <2>1, <2>2
  <2>4. Min({m}) = m
    BY DEF Min
  <2>5. SelectInSeq(order, LAMBDA v : v = z) = m
    BY <2>3, <2>4 DEF SelectInSeq
  <2>6. RemoveFirst(order, z) = SubSeq(order, 1, m - 1) \o SubSeq(order, m + 1, n)
    BY <2>1, <2>3, <2>4 DEF RemoveFirst, RemoveAt, SelectInSeq
  <2> DEFINE front == SubSeq(order, 1, m - 1)
             back == SubSeq(order, m + 1, n)
             rest == RemoveFirst(order, z)
  <2>7. /\ front \in Seq(L) /\ Len(front) = m - 1
        /\ \A k \in 1 .. m - 1 : front[k] = order[k]
    <3>1. \A k \in 1 .. m - 1 : order[k] \in L
      BY <1>n, <2>1
    <3>2. m - 1 \in Int /\ 1 \in Int /\ (IF 1 <= m - 1 THEN m - 1 - 1 + 1 ELSE 0) = m - 1
      BY <1>n, <2>1
    <3>3. \A k \in 1 .. m - 1 : k \in 1 .. m - 1 - 1 + 1 /\ 1 + k - 1 = k
      BY <3>2
    <3> QED
      BY <3>1, <3>2, <3>3, SubSeqProperties
  <2>8. /\ back \in Seq(L) /\ Len(back) = n - m
        /\ \A k \in 1 .. n - m : back[k] = order[m + k]
    <3>1. \A k \in m + 1 .. n : order[k] \in L
      BY <1>n, <2>1
    <3>2. /\ m + 1 \in Int /\ n \in Int
          /\ (IF m + 1 <= n THEN n - (m + 1) + 1 ELSE 0) = n - m
      <4>1. m \in Int /\ n \in Int /\ m <= n
        BY <1>n, <2>1
      <4>2. CASE m = n
        BY <4>1, <4>2
      <4>3. CASE m # n
        <5>1. m + 1 <= n /\ n - (m + 1) + 1 = n - m
          BY <4>1, <4>3
        <5> QED
          BY <4>1, <5>1
      <4> QED
        BY <4>2, <4>3
    <3>3. \A k \in 1 .. n - m : k \in 1 .. n - (m + 1) + 1 /\ m + 1 + k - 1 = m + k
      BY <3>2, <2>1
    <3>4. /\ back \in Seq(L) /\ Len(back) = IF m + 1 <= n THEN n - (m + 1) + 1 ELSE 0
          /\ \A k \in 1 .. n - (m + 1) + 1 : back[k] = order[m + 1 + k - 1]
      BY <3>1, <3>2, SubSeqProperties
    <3> QED
      BY <3>2, <3>3, <3>4
  <2> HIDE DEF front, back, n
  <2>9. /\ rest \in Seq(L) /\ Len(rest) = n - 1
        /\ \A k \in 1 .. n - 1 : rest[k] = IF k < m THEN order[k] ELSE order[k + 1]
    <3>1. /\ rest \in Seq(L) /\ Len(rest) = Len(front) + Len(back)
          /\ \A k \in 1 .. Len(front) + Len(back) :
               rest[k] = IF k <= Len(front) THEN front[k] ELSE back[k - Len(front)]
      <4>1. rest = front \o back
        BY <2>6 DEF front, back, n
      <4> HIDE DEF rest
      <4> QED
        BY <2>7, <2>8, <4>1, ConcatProperties
    <3>2. Len(front) + Len(back) = n - 1
      BY <1>n, <2>1, <2>7, <2>8
    <3>3. ASSUME NEW k \in 1 .. n - 1
          PROVE  rest[k] = IF k < m THEN order[k] ELSE order[k + 1]
      <4>1. CASE k < m
        BY <1>n, <2>1, <2>7, <3>1, <3>2, <4>1
      <4>2. CASE ~(k < m)
        <5>1. k - Len(front) \in 1 .. n - m /\ m + (k - Len(front)) = k + 1 /\ ~(k <= Len(front))
          BY <1>n, <2>1, <2>7, <4>2
        <5> QED
          BY <2>8, <3>1, <3>2, <4>2, <5>1
      <4> QED
        BY <4>1, <4>2
    <3> QED
      BY <3>1, <3>2, <3>3
  <2> HIDE DEF rest
  <2>10. /\ new \in Seq(L) /\ Len(new) = n /\ new[1] = z
         /\ \A k \in 2 .. n : new[k] = rest[k - 1]
    <3>1. new = <<z>> \o rest
      BY DEF rest
    <3>2. <<z>> \in Seq(L) /\ Len(<<z>>) = 1 /\ <<z>>[1] = z
      OBVIOUS
    <3> HIDE DEF new
    <3>3. /\ new \in Seq(L) /\ Len(new) = 1 + (n - 1)
          /\ \A k \in 1 .. 1 + (n - 1) : new[k] = IF k <= 1 THEN <<z>>[k] ELSE rest[k - 1]
      BY <2>9, <3>1, <3>2, ConcatProperties
    <3> QED
      BY <1>n, <2>1, <3>2, <3>3
  <2>11. \A k \in 2 .. n : new[k] = IF k <= m THEN order[k - 1] ELSE order[k]
    BY <1>n, <2>1, <2>9, <2>10
  <2> HIDE DEF new, n
  <2>12. m \in 1 .. n + 1 /\ m <= n /\ m # n + 1
    BY <1>n, <2>1
  <2> QED
    BY <2>1, <2>10, <2>11, <2>12 DEF new, n
<1> QED
  BY <1>1, <1>2

\* The stack of least recent use.  A line that is used has no other ahead of it,
\* and is ahead of every other line; nothing else changes.
LEMMA MoveToFront ==
  ASSUME NEW L, NEW order \in Seq(L), IsInjective(order), NEW z \in L
  PROVE  LET new == <<z>> \o RemoveFirst(order, z)
         IN /\ new \in Seq(L) /\ IsInjective(new)
            /\ Range(new) = Range(order) \union {z}
            /\ Ahead(new, z) = {}
            /\ \A x \in Range(order) : x # z => Ahead(new, x) = Ahead(order, x) \union {z}
<1> DEFINE n == Len(order)
           new == <<z>> \o RemoveFirst(order, z)
<1>1. PICK m \in 1 .. n + 1 :
        /\ m <= n => order[m] = z
        /\ m = n + 1 => z \notin Range(order)
        /\ new \in Seq(L)
        /\ Len(new) = IF m <= n THEN n ELSE n + 1
        /\ new[1] = z
        /\ \A k \in 2 .. Len(new) : new[k] = IF k <= m THEN order[k - 1] ELSE order[k]
  BY SMTT(60), Places
<1>2. n \in Nat /\ DOMAIN order = 1 .. n /\ m \in Nat
  BY <1>1
<1>3. DOMAIN new = 1 .. Len(new) /\ Len(new) \in Nat /\ Len(new) >= 1
  BY <1>1, <1>2
<1> HIDE DEF new, n
<1>4. \A k \in 1 .. n : order[k] = z => k = m
  <2> TAKE k \in 1 .. n
  <2> SUFFICES ASSUME order[k] = z
               PROVE  k = m
    OBVIOUS
  <2>1. m <= n
    <3>1. z \in Range(order)
      BY <1>2 DEF Range
    <3>2. m # n + 1
      BY <1>1, <3>1
    <3> QED
      BY <1>2, <3>2
  <2>2. k \in DOMAIN order /\ m \in DOMAIN order /\ order[k] = order[m]
    BY <1>1, <1>2, <2>1
  <2> QED
    BY <2>2 DEF IsInjective
<1> DEFINE src(k) == IF k <= m THEN k - 1 ELSE k
           pos(k) == IF k < m THEN k + 1 ELSE k
<1>5. \A k \in 2 .. Len(new) : src(k) \in 1 .. n /\ src(k) # m /\ new[k] = order[src(k)]
  BY <1>1, <1>2
<1>6. \A k, l \in 2 .. Len(new) : k < l => src(k) < src(l)
  BY <1>2, <1>3
<1>7. \A k \in 1 .. n : k # m => pos(k) \in 2 .. Len(new) /\ new[pos(k)] = order[k]
  <2> TAKE k \in 1 .. n
  <2> SUFFICES ASSUME k # m
               PROVE  pos(k) \in 2 .. Len(new) /\ new[pos(k)] = order[k]
    OBVIOUS
  <2>1. CASE k < m
    <3>1. k + 1 \in 2 .. Len(new) /\ k + 1 <= m /\ (k + 1) - 1 = k
      BY <1>1, <1>2, <2>1
    <3> QED
      BY <1>1, <2>1, <3>1
  <2>2. CASE ~(k < m)
    <3>1. k \in 2 .. Len(new) /\ ~(k <= m)
      BY <1>1, <1>2, <2>2
    <3> QED
      BY <1>1, <2>2, <3>1
  <2> QED
    BY <2>1, <2>2
<1>8. \A k, l \in 1 .. n : k < l /\ k # m /\ l # m => pos(k) < pos(l)
  BY <1>2
<1> HIDE DEF src, pos
<1>9. \A k \in 2 .. Len(new) : new[k] # z
  BY <1>4, <1>5
<1>10. \A k \in DOMAIN new : k = 1 \/ k \in 2 .. Len(new)
  BY <1>3
<1>11. IsInjective(new)
  <2> SUFFICES ASSUME NEW a \in DOMAIN new, NEW b \in DOMAIN new, new[a] = new[b], a < b
               PROVE  FALSE
    BY <1>3 DEF IsInjective
  <2>1. b \in 2 .. Len(new)
    BY <1>3
  <2>2. a \in 2 .. Len(new)
    BY <1>1, <1>9, <1>10, <2>1
  <2>3. order[src(a)] = order[src(b)] /\ src(a) \in 1 .. n /\ src(b) \in 1 .. n /\ src(a) < src(b)
    BY <1>5, <1>6, <2>1, <2>2
  <2>4. src(a) = src(b)
    BY <1>2, <2>3 DEF IsInjective
  <2> QED
    BY <1>2, <2>3, <2>4
<1>12. Range(new) = Range(order) \union {z}
  <2>1. ASSUME NEW k \in DOMAIN new
        PROVE  new[k] \in Range(order) \union {z}
    BY <1>1, <1>2, <1>5, <1>10 DEF Range
  <2>2. z \in Range(new)
    BY <1>1, <1>3 DEF Range
  <2>3. ASSUME NEW k \in 1 .. n
        PROVE  order[k] \in Range(new)
    <3>1. CASE k = m
      BY <1>1, <1>2, <2>2, <3>1
    <3>2. CASE k # m
      <4>1. pos(k) \in DOMAIN new /\ new[pos(k)] = order[k]
        BY <1>3, <1>7, <3>2
      <4> QED
        BY <4>1 DEF Range
    <3> QED
      BY <3>1, <3>2
  <2> QED
    BY <1>2, <2>1, <2>2, <2>3 DEF Range
<1>13. Ahead(new, z) = {}
  <2>1. \A b \in DOMAIN new : new[b] = z => b = 1
    BY <1>9, <1>10
  <2> QED
    BY <1>3, <2>1 DEF Ahead
<1>14. ASSUME NEW x \in Range(order), x # z
       PROVE  Ahead(new, x) = Ahead(order, x) \union {z}
  <2>1. PICK b \in 1 .. n : order[b] = x
    BY <1>2 DEF Range
  <2>2. b # m
    BY <1>1, <1>2, <1>14, <2>1
  <2>3. pos(b) \in 2 .. Len(new) /\ new[pos(b)] = x
    BY <1>7, <2>1, <2>2
  <2>4. z \in Ahead(new, x)
    <3>1. 1 \in DOMAIN new /\ pos(b) \in DOMAIN new /\ 1 < pos(b) /\ new[1] = z
      BY <1>1, <1>3, <2>3
    <3> QED
      BY <2>3, <3>1 DEF Ahead
  <2>5. ASSUME NEW y \in Ahead(order, x)
        PROVE  y \in Ahead(new, x)
    <3>1. PICK a \in 1 .. n, c \in 1 .. n : a < c /\ order[a] = y /\ order[c] = x
      BY <1>2 DEF Ahead
    <3>2. c = b
      BY <1>2, <2>1, <3>1 DEF IsInjective
    <3>3. CASE a = m
      BY <1>1, <1>2, <2>4, <3>1, <3>3
    <3>4. CASE a # m
      <4>1. /\ pos(a) \in DOMAIN new /\ pos(b) \in DOMAIN new
            /\ new[pos(a)] = y /\ pos(a) < pos(b)
        BY <1>3, <1>7, <1>8, <2>2, <3>1, <3>2, <3>4
      <4> QED
        BY <2>3, <4>1 DEF Ahead
    <3> QED
      BY <3>3, <3>4
  <2>6. ASSUME NEW y \in Ahead(new, x)
        PROVE  y \in Ahead(order, x) \union {z}
    <3>1. PICK k \in DOMAIN new, l \in DOMAIN new : k < l /\ new[k] = y /\ new[l] = x
      BY DEF Ahead
    <3>2. l \in 2 .. Len(new)
      BY <1>3, <3>1
    <3>3. CASE k = 1
      BY <1>1, <3>1, <3>3
    <3>4. CASE k \in 2 .. Len(new)
      <4>1. /\ src(k) \in DOMAIN order /\ src(l) \in DOMAIN order /\ src(k) < src(l)
            /\ order[src(k)] = y /\ order[src(l)] = x
        BY <1>2, <1>5, <1>6, <3>1, <3>2, <3>4
      <4> QED
        BY <4>1 DEF Ahead
    <3> QED
      BY <1>10, <3>3, <3>4
  <2> QED
    BY <2>4, <2>5, <2>6
<1> QED
  BY <1>1, <1>11, <1>12, <1>13, <1>14 DEF new

\* What is ahead of a line that is ahead of another is ahead of that, too; and no
\* line is ahead of itself.
LEMMA AheadIsOrder ==
  ASSUME NEW L, NEW order \in Seq(L), IsInjective(order), NEW x
  PROVE  /\ x \notin Ahead(order, x)
         /\ \A y \in Ahead(order, x) : Ahead(order, y) \subseteq Ahead(order, x)
         /\ IsFiniteSet(Ahead(order, x)) /\ Ahead(order, x) \subseteq Range(order)
<1>1. DOMAIN order = 1 .. Len(order) /\ Len(order) \in Nat
  OBVIOUS
<1>2. x \notin Ahead(order, x)
  BY <1>1 DEF Ahead, IsInjective
<1>3. ASSUME NEW y \in Ahead(order, x), NEW w \in Ahead(order, y)
      PROVE  w \in Ahead(order, x)
  <2>1. PICK a \in DOMAIN order, b \in DOMAIN order : a < b /\ order[a] = y /\ order[b] = x
    BY DEF Ahead
  <2>2. PICK c \in DOMAIN order, d \in DOMAIN order : c < d /\ order[c] = w /\ order[d] = y
    BY DEF Ahead
  <2>3. d = a
    BY <2>1, <2>2 DEF IsInjective
  <2>4. c < b
    BY <1>1, <2>1, <2>2, <2>3
  <2> QED
    BY <2>1, <2>2, <2>4 DEF Ahead
<1>4. Ahead(order, x) \subseteq Range(order)
  BY DEF Ahead, Range
<1>5. IsFiniteSet({order[k] : k \in DOMAIN order})
  <2>1. IsFiniteSet(DOMAIN order)
    BY <1>1, FS_Interval
  <2> QED
    BY <2>1, ImageNotLarger
<1>6. IsFiniteSet(Ahead(order, x))
  BY <1>4, <1>5, FS_Subset DEF Range
<1> QED
  BY <1>2, <1>3, <1>4, <1>6

(***************************************************************************)
(* Lines and sets.                                                         *)
(***************************************************************************)

NumSets == waySize \div blkSize
Lines == [owner : 0 .. 2, number : Nat]

LEMMA Geometry ==
  /\ NumSets \in Nat \ {0} /\ blkSize \in Nat \ {0} /\ cacheAssoc \in Nat \ {0}
  /\ waySize \in Nat /\ waySize = NumSets * blkSize
  /\ Sets = 0 .. NumSets - 1
<1>1. /\ blkSize \in Nat \ {0} /\ cacheAssoc \in Nat \ {0} /\ cacheSize \in Nat
      /\ waySize > 0 /\ waySize % blkSize = 0
  BY SharedCacheAssumption
<1>2. waySize \in Nat
  BY <1>1 DEF waySize
<1> DEFINE w == waySize
           q == w \div blkSize
<1>3. w \in Nat /\ w > 0 /\ w % blkSize = 0
  BY <1>1, <1>2
<1> HIDE DEF w
<1>4. q \in Nat /\ w = q * blkSize
  <2>1. q \in Nat /\ w = q * blkSize + (w % blkSize)
    BY <1>1, <1>3, DivMod
  <2> HIDE DEF q
  <2>2. q * blkSize \in Nat
    BY <1>1, <2>1
  <2> QED
    BY <1>3, <2>1, <2>2
<1>5. q # 0
  BY <1>1, <1>3, <1>4
<1> QED
  BY <1>1, <1>2, <1>4, <1>5 DEF NumSets, Sets, w

LEMMA MultipleDiv ==
  ASSUME NEW a \in Nat, NEW b \in Nat \ {0}
  PROVE  (a * b) \div b = a
OBVIOUS

LEMMA LineInSet ==
  ASSUME NEW x \in Lines
  PROVE  SetOf(x) \in Sets
<1>1. x.number \in Nat
  BY DEF Lines
<1>2. x.number % NumSets \in 0 .. NumSets - 1
  BY <1>1, Geometry, DivMod
<1> QED
  BY <1>2, Geometry DEF SetOf, NumSets

\* The line at `k' ways behind the beginning of set s of a pirate's mapping.
LEMMA PirateLine ==
  ASSUME NEW p \in Pirates, NEW s \in Sets, NEW k \in Nat
  PROVE  LET line == Line(p, s * blkSize + k * waySize)
         IN /\ line \in Lines /\ line.owner = p
            /\ line.number = s + k * NumSets
            /\ SetOf(line) = s
<1> DEFINE line == Line(p, s * blkSize + k * waySize)
           q == NumSets
           b == blkSize
           ways == k * q
<1>1. q \in Nat \ {0} /\ b \in Nat \ {0} /\ s \in 0 .. q - 1
  BY Geometry
<1>2. waySize = q * b
  BY Geometry
<1> HIDE DEF q, b
<1>3. s * b + k * waySize = (s + k * q) * b
  BY <1>1, <1>2
<1>4. ways \in Nat
  BY <1>1
<1> HIDE DEF ways
<1>5. ((s + ways) * b) \div b = s + ways
  BY <1>1, <1>4, MultipleDiv
<1>6. line.owner = p /\ line.number = s + ways
  BY <1>3, <1>5 DEF Line, b, ways
<1>7. line \in Lines
  BY <1>1, <1>4, <1>5, <1>3 DEF Line, Lines, Pirates, b, ways
<1>8. (s + ways) % q = s
  <2>1. (q * k + s) % q = s % q
    BY <1>1, ModOfMultiple
  <2>2. q * k + s = s + ways
    BY <1>1 DEF ways
  <2>3. s % q = s
    BY <1>1
  <2> QED
    BY <2>1, <2>2, <2>3
<1>9. SetOf(line) = s
  BY <1>6, <1>8 DEF SetOf, q, NumSets
<1> QED
  BY <1>6, <1>7, <1>9 DEF ways, q

(***************************************************************************)
(* The cache.                                                              *)
(***************************************************************************)

\* A set holds each of its lines once, and no line of another set.
Ordered ==
  /\ recency \in [Sets -> Seq(Lines)]
  /\ \A s \in Sets : IsInjective(recency[s]) /\ \A x \in Range(recency[s]) : SetOf(x) = s

LEMMA UsedInRange ==
  ASSUME Ordered, NEW x \in Lines
  PROVE  Used(x) <=> x \in Range(recency[SetOf(x)])
<1>1. recency[SetOf(x)] \in Seq(Lines)
  BY LineInSet DEF Ordered
<1> QED
  BY <1>1 DEF Used, Contains, Range

\* What an access does to every line.
LEMMA UseFacts ==
  ASSUME Ordered, NEW z \in Lines, Use(z)
  PROVE  /\ Ordered'
         /\ \A s \in Sets : Range(recency'[s]) =
              IF s = SetOf(z) THEN Range(recency[s]) \union {z} ELSE Range(recency[s])
         /\ \A x \in Lines : Used(x)' <=> Used(x) \/ x = z
         /\ After(z)' = {}
         /\ \A x \in Lines : Used(x) /\ x # z =>
              After(x)' = IF SetOf(x) = SetOf(z) THEN After(x) \union {z} ELSE After(x)
<1> DEFINE s0 == SetOf(z)
           new == <<z>> \o RemoveFirst(recency[s0], z)
<1>1. s0 \in Sets
  BY LineInSet
<1>2. recency[s0] \in Seq(Lines) /\ IsInjective(recency[s0])
  BY <1>1 DEF Ordered
<1>3. /\ new \in Seq(Lines) /\ IsInjective(new)
      /\ Range(new) = Range(recency[s0]) \union {z}
      /\ Ahead(new, z) = {}
      /\ \A x \in Range(recency[s0]) :
           x # z => Ahead(new, x) = Ahead(recency[s0], x) \union {z}
  BY <1>2, MoveToFront
<1>4. recency' = [recency EXCEPT ![s0] = new]
  BY DEF Use
<1> HIDE DEF new
<1>5. recency'[s0] = new /\ \A s \in Sets : s # s0 => recency'[s] = recency[s]
  BY <1>1, <1>4 DEF Ordered
<1>6. Ordered'
  <2>1. recency' \in [Sets -> Seq(Lines)]
    BY <1>1, <1>3, <1>4 DEF Ordered
  <2>2. ASSUME NEW s \in Sets
        PROVE  IsInjective(recency'[s]) /\ \A x \in Range(recency'[s]) : SetOf(x) = s
    <3>1. CASE s = s0
      BY <1>1, <1>3, <1>5, <3>1 DEF Ordered
    <3>2. CASE s # s0
      BY <1>5, <3>2 DEF Ordered
    <3> QED
      BY <3>1, <3>2
  <2> QED
    BY <2>1, <2>2 DEF Ordered
<1>7. \A s \in Sets : Range(recency'[s]) =
        IF s = s0 THEN Range(recency[s]) \union {z} ELSE Range(recency[s])
  BY <1>3, <1>5
<1>8. \A x \in Lines : Used(x)' <=> Used(x) \/ x = z
  <2> TAKE x \in Lines
  <2>1. SetOf(x) \in Sets /\ (x = z => SetOf(x) = s0)
    BY LineInSet
  <2>2. Used(x) <=> x \in Range(recency[SetOf(x)])
    BY UsedInRange
  <2>3. Used(x)' <=> x \in Range(recency'[SetOf(x)])
    <3>1. recency'[SetOf(x)] \in Seq(Lines)
      BY <1>6, <2>1 DEF Ordered
    <3> QED
      BY <3>1 DEF Used, Contains, Range
  <2> QED
    BY <1>7, <2>1, <2>2, <2>3
<1>9. After(z)' = {}
  BY <1>3, <1>5 DEF After
<1>10. \A x \in Lines : Used(x) /\ x # z =>
         After(x)' = IF SetOf(x) = s0 THEN After(x) \union {z} ELSE After(x)
  <2> TAKE x \in Lines
  <2> SUFFICES ASSUME Used(x), x # z
               PROVE  After(x)' = IF SetOf(x) = s0 THEN After(x) \union {z} ELSE After(x)
    OBVIOUS
  <2>1. SetOf(x) \in Sets /\ x \in Range(recency[SetOf(x)])
    BY LineInSet, UsedInRange
  <2>2. After(x)' = Ahead(recency'[SetOf(x)], x) /\ After(x) = Ahead(recency[SetOf(x)], x)
    BY DEF After
  <2> QED
    BY <1>3, <1>5, <2>1, <2>2
<1> QED
  BY <1>6, <1>7, <1>8, <1>9, <1>10

(***************************************************************************)
(* Nobody leaves its mapping.                                              *)
(***************************************************************************)

LEMMA FitsBehind ==
  ASSUME NEW x \in Nat, NEW m \in Nat, NEW d \in Nat \ {0}, x < m, x % d = 0, m % d = 0
  PROVE  x + d <= m
<1>1. PICK a \in Nat : x = a * d
  <2>1. x \div d \in Nat /\ x = (x \div d) * d + 0
    BY DivMod
  <2> QED
    BY <2>1
<1>2. PICK b \in Nat : m = b * d
  <2>1. m \div d \in Nat /\ m = (m \div d) * d + 0
    BY DivMod
  <2> QED
    BY <2>1
<1>3. a + 1 <= b
  <2> SUFFICES ASSUME b <= a
               PROVE  FALSE
    OBVIOUS
  <2>1. b * d <= a * d
    OBVIOUS
  <2> QED
    BY <1>1, <1>2, <2>1
<1>4. (a + 1) * d <= b * d
  BY <1>3
<1> QED
  BY <1>1, <1>2, <1>4

LEMMA Remainder ==
  ASSUME NEW x \in Nat, NEW m \in Nat \ {0}, NEW d \in Nat \ {0}, x % d = 0, m % d = 0
  PROVE  x % m \in 0 .. m - 1 /\ (x % m) % d = 0
<1>1. x % m \in 0 .. m - 1 /\ x % m \in Nat
  BY DivMod
<1>2. (x % m) % m = x % m
  BY <1>1
<1>3. x % d = (x % m) % d
  BY <1>1, <1>2, ModOfDivisor
<1> QED
  BY <1>1, <1>3

\* Where the loops are.
Positions ==
  /\ experiment \in Experiment
  /\ row \in [Pirates -> Nat] /\ way \in [Pirates -> Nat]
  /\ \A p \in Pirates : row[p] < waySize /\ row[p] % blkSize = 0
  /\ \A p \in Pirates : way[p] > 0 => way[p] < waysToSteal /\ Asserted
  /\ i \in 0 .. full_size - 1 /\ i % (4 * stride) = 0
  /\ iteration \in Nat /\ access \in 1 .. 4

LEMMA Sizes ==
  /\ stride \in Nat \ {0} /\ 4 * stride \in Nat \ {0}
  /\ full_size \in Nat \ {0} /\ part_size \in Nat \ {0} /\ part_size <= full_size
  /\ full_size % (4 * stride) = 0 /\ part_size % (4 * stride) = 0
BY SharedCacheAssumption

LEMMA Shares ==
  ASSUME experiment \in Experiment
  PROVE  /\ waysToSteal \in Nat /\ experiment.team \in 1 .. 2 /\ experiment.stealWayNum \in Nat
         /\ Running \subseteq Pirates
         /\ experiment.program = "forkTest" =>
              waysToSteal * experiment.team <= experiment.stealWayNum
<1>1. /\ experiment.stealWayNum \in Nat /\ experiment.team \in 1 .. 2
      /\ experiment.program \in {"forkTest", "cachePirate"}
  BY DEF Experiment
<1>2. /\ experiment.stealWayNum \div 2 \in Nat
      /\ 2 * (experiment.stealWayNum \div 2) <= experiment.stealWayNum
  BY <1>1
<1>3. Running \subseteq Pirates
  BY <1>1 DEF Running, Pirates
<1> QED
  BY <1>1, <1>2, <1>3 DEF waysToSteal

\* A turn of icar's loop stays below full_size, and in the part below part_size.
LEMMA ArrayIndex ==
  ASSUME Positions
  PROVE  arrayIndex \in 0 .. full_size - 1
<1>1. i \in Nat /\ i < full_size /\ access \in 1 .. 4
  BY Sizes DEF Positions
<1>2. i + 4 * stride <= full_size
  BY <1>1, Sizes, FitsBehind DEF Positions
<1>3. i % part_size \in 0 .. part_size - 1 /\ (i % part_size) % (4 * stride) = 0
  BY <1>1, Sizes, Remainder DEF Positions
<1> DEFINE j == i % part_size
<1>4. j \in Nat /\ j < part_size /\ j % (4 * stride) = 0
  BY <1>3, Sizes
<1> HIDE DEF j
<1>5. j + 4 * stride <= part_size
  BY <1>4, Sizes, FitsBehind
<1>6. /\ i + stride \in Nat /\ i + stride < full_size
      /\ j + 2 * stride \in Nat /\ j + 2 * stride < full_size
      /\ j + 3 * stride \in Nat /\ j + 3 * stride < full_size
  BY <1>1, <1>2, <1>4, <1>5, Sizes
<1>7. arrayIndex \in {i, i + stride, j + 2 * stride, j + 3 * stride}
  BY <1>1 DEF arrayIndex, j
<1> QED
  BY <1>1, <1>6, <1>7, Sizes

\* The pirate reads the line that comes next in its share of a set.
LEMMA NextLoot ==
  ASSUME Positions, NEW p \in Pirates
  PROVE  LET s == row[p] \div blkSize
         IN /\ s \in Sets /\ row[p] = s * blkSize
            /\ Line(p, dataIndex(p)) = Line(p, s * blkSize + way[p] * waySize)
<1> DEFINE s == row[p] \div blkSize
<1>1. row[p] \in Nat /\ row[p] < waySize /\ row[p] % blkSize = 0 /\ blkSize \in Nat \ {0}
  BY Geometry DEF Positions
<1>2. s \in Nat /\ row[p] = s * blkSize
  <2>1. s \in Nat /\ row[p] = s * blkSize + (row[p] % blkSize)
    BY <1>1, DivMod
  <2> HIDE DEF s
  <2>2. s * blkSize \in Nat
    BY <1>1, <2>1
  <2> QED
    BY <1>1, <2>1, <2>2
<1> HIDE DEF s
<1>3. s < NumSets
  <2> SUFFICES ASSUME NumSets <= s
               PROVE  FALSE
    BY <1>2, Geometry
  <2>1. NumSets * blkSize <= s * blkSize
    BY <1>1, <1>2, Geometry
  <2> QED
    BY <1>1, <1>2, <2>1, Geometry
<1>4. s \in Sets
  BY <1>2, <1>3, Geometry
<1>5. Line(p, dataIndex(p)) = Line(p, s * blkSize + way[p] * waySize)
  BY <1>2 DEF dataIndex
<1> QED
  BY <1>2, <1>4, <1>5 DEF s

LEMMA PositionsInit == Init => Positions
<1> SUFFICES ASSUME Init
             PROVE  Positions
  OBVIOUS
<1>1. experiment \in Experiment
  BY SharedCacheAssumption DEF Init
<1>2. waySize \in Nat /\ waySize > 0 /\ blkSize \in Nat \ {0}
  BY Geometry, SharedCacheAssumption
<1>3. 0 % blkSize = 0 /\ 0 % (4 * stride) = 0
  BY <1>2, Sizes
<1> QED
  BY <1>1, <1>2, <1>3, Sizes DEF Init, Positions

LEMMA PositionsStep == Positions /\ [Next]_vars => Positions'
<1> SUFFICES ASSUME Positions, [Next]_vars
             PROVE  Positions'
  OBVIOUS
<1>1. ASSUME NEW p \in Pirates, Steal(p)
      PROVE  Positions'
  <2>1. /\ UNCHANGED <<experiment, iteration, i, access>>
        /\ waysToSteal' = waysToSteal /\ Asserted' = Asserted /\ Asserted
        /\ waysToSteal \in Nat
    BY <1>1, Shares DEF Steal, icarVars, waysToSteal, Asserted, Positions
  <2>2. waySize \in Nat /\ blkSize \in Nat \ {0} /\ row[p] \in Nat /\ way[p] \in Nat
    BY Geometry DEF Positions
  <2>3. (row[p] + blkSize) % blkSize = 0 /\ 0 % blkSize = 0
    <3>1. (blkSize * 1 + row[p]) % blkSize = row[p] % blkSize
      BY <2>2, ModOfMultiple
    <3>2. blkSize * 1 + row[p] = row[p] + blkSize
      BY <2>2
    <3>3. row[p] % blkSize = 0
      BY DEF Positions
    <3> QED
      BY <2>2, <3>1, <3>2, <3>3
  <2>4. CASE way[p] + 1 < waysToSteal
    <3>1. way' = [way EXCEPT ![p] = way[p] + 1] /\ row' = row
      BY <1>1, <2>4 DEF Steal
    <3> QED
      BY <2>1, <2>2, <2>4, <3>1 DEF Positions
  <2>5. CASE ~(way[p] + 1 < waysToSteal)
    <3> DEFINE next == IF row[p] + blkSize < waySize THEN row[p] + blkSize ELSE 0
    <3>1. way' = [way EXCEPT ![p] = 0] /\ row' = [row EXCEPT ![p] = next]
      BY <1>1, <2>5 DEF Steal
    <3>2. next \in Nat /\ next < waySize /\ next % blkSize = 0
      BY <2>2, <2>3, SharedCacheAssumption
    <3> HIDE DEF next
    <3>3. way' \in [Pirates -> Nat] /\ row' \in [Pirates -> Nat]
      BY <3>1, <3>2 DEF Positions
    <3>4. \A q \in Pirates : way'[q] \in {0, way[q]} /\ row'[q] \in {next, row[q]}
      BY <3>1 DEF Positions
    <3>5. \A q \in Pirates : row'[q] < waySize /\ row'[q] % blkSize = 0
      BY <3>2, <3>4 DEF Positions
    <3>6. \A q \in Pirates : way'[q] > 0 => way'[q] < waysToSteal /\ Asserted
      BY <3>4 DEF Positions
    <3> QED
      BY <2>1, <3>3, <3>5, <3>6 DEF Positions
  <2> QED
    BY <2>4, <2>5
<1>2. CASE Icar
  <2>1. /\ UNCHANGED <<experiment, row, way>>
        /\ waysToSteal' = waysToSteal /\ Asserted' = Asserted
        /\ access' = (access % 4) + 1 /\ access \in 1 .. 4
        /\ i' = IF access < 4 THEN i ELSE (i + 4 * stride) % full_size
        /\ iteration' \in {iteration, iteration + 1}
    BY <1>2 DEF Icar, pirateVars, waysToSteal, Asserted, Positions
  <2>2. access' \in 1 .. 4
    BY <2>1
  <2>3. i \in Nat /\ i + 4 * stride \in Nat /\ (i + 4 * stride) % (4 * stride) = 0
    <3> DEFINE d == 4 * stride
    <3>1. i \in Nat /\ i % d = 0 /\ d \in Nat \ {0}
      BY Sizes DEF Positions
    <3> HIDE DEF d
    <3>2. (d * 1 + i) % d = i % d
      BY <3>1, ModOfMultiple
    <3>3. d * 1 + i = i + d
      BY <3>1
    <3>4. i + d \in Nat /\ (i + d) % d = 0
      BY <3>1, <3>2, <3>3
    <3> QED
      BY <3>1, <3>4 DEF d
  <2>4. /\ (i + 4 * stride) % full_size \in 0 .. full_size - 1
        /\ ((i + 4 * stride) % full_size) % (4 * stride) = 0
    BY <2>3, Sizes, Remainder
  <2>5. i' \in 0 .. full_size - 1 /\ i' % (4 * stride) = 0
    BY <2>1, <2>4 DEF Positions
  <2>6. iteration' \in Nat
    BY <2>1 DEF Positions
  <2> QED
    BY <2>1, <2>2, <2>5, <2>6 DEF Positions
<1>3. CASE UNCHANGED vars
  BY <1>3 DEF vars, pirateVars, icarVars, Positions, waysToSteal, Asserted
<1> QED
  BY <1>1, <1>2, <1>3 DEF Next

LEMMA PositionsCorrect == Spec => []Positions
<1>1. Init => Positions
  BY PositionsInit
<1>2. Positions /\ [Next]_vars => Positions'
  BY PositionsStep
<1> QED
  BY <1>1, <1>2, PTL DEF Spec

\* WithinMappings: in a mapping of the size of the cache no pirate goes beyond
\* the end, whatever it was asked to steal, for the assertion of pirate() stops
\* the others; and neither does icar in a mapping of the size of its iteration.
THEOREM WithinMappingsCorrect ==
  ASSUME cacheSize <= pirateMapped, full_size <= arrayMapped
  PROVE  Spec => []WithinMappings
<1>1. Positions => WithinMappings
  <2> SUFFICES ASSUME Positions
               PROVE  WithinMappings
    OBVIOUS
  <2>1. ASSUME NEW p \in Running
        PROVE  dataIndex(p) < pirateMapped
    <3>1. /\ p \in Pirates /\ row[p] \in Nat /\ row[p] < waySize
          /\ way[p] \in Nat /\ waysToSteal \in Nat
          /\ waySize \in Nat /\ cacheAssoc \in Nat \ {0}
      BY Shares, Geometry DEF Positions
    <3>2. way[p] <= cacheAssoc - 1
      BY <3>1 DEF Positions, Asserted
    <3>3. way[p] * waySize <= (cacheAssoc - 1) * waySize
      <4> DEFINE a == way[p]
      <4>1. a \in Nat /\ a <= cacheAssoc - 1
        BY <3>1, <3>2
      <4> HIDE DEF a
      <4>2. a * waySize <= (cacheAssoc - 1) * waySize
        BY <3>1, <4>1
      <4> QED
        BY <4>2 DEF a
    <3>4. waySize + (cacheAssoc - 1) * waySize = cacheSize
      <4>1. waySize * cacheAssoc = cacheSize
        BY SharedCacheAssumption
      <4> QED
        BY <3>1, <4>1
    <3>5. way[p] * waySize \in Nat /\ (cacheAssoc - 1) * waySize \in Nat
      BY <3>1
    <3>6. dataIndex(p) < cacheSize /\ dataIndex(p) \in Nat
      BY <3>1, <3>3, <3>4, <3>5 DEF dataIndex
    <3>7. cacheSize \in Nat /\ pirateMapped \in Nat
      BY SharedCacheAssumption
    <3> QED
      BY <3>6, <3>7
  <2>2. arrayIndex < arrayMapped
    <3>1. full_size \in Nat /\ arrayMapped \in Nat
      BY SharedCacheAssumption
    <3> QED
      BY <3>1, ArrayIndex
  <2> QED
    BY <2>1, <2>2 DEF WithinMappings
<1> QED
  BY <1>1, PositionsCorrect, PTL

(***************************************************************************)
(* What is in a set, and in which order the pirates put it there.          *)
(***************************************************************************)

\* The line of the k-th way that pirate p takes of set s, from 0 on.
Spot(p, s, k) == Line(p, s * blkSize + k * waySize)

\* A set holds lines of a target that runs, and lines the pirates are to take.
Occupants ==
  \A s \in Sets : \A x \in Range(recency[s]) :
    \/ x.owner = Target /\ experiment.program = "forkTest"
    \/ \E p \in Running : \E k \in 0 .. waysToSteal - 1 : x = Spot(p, s, k)

\* Pirate p is on its way through set s, and has taken this many ways of it.
Midway(p, s) == row[p] = s * blkSize /\ way[p] > 0
Taken(p, s) == IF Midway(p, s) THEN way[p] ELSE waysToSteal

\* What a pirate has taken in its current or last pass through a set was used
\* after the first line of the pass.
Pass(p, s) ==
  Midway(p, s) \/ Used(Spot(p, s, 0)) =>
    \A k \in 0 .. Taken(p, s) - 1 :
      Used(Spot(p, s, k)) /\ (k > 0 => Spot(p, s, k) \in After(Spot(p, s, 0)))

Passes == \A p \in Running : \A s \in Sets : Pass(p, s)

LEMMA SpotFacts ==
  ASSUME NEW p \in Pirates, NEW s \in Sets, NEW k \in Nat
  PROVE  /\ Spot(p, s, k) \in Lines /\ Spot(p, s, k).owner = p
         /\ SetOf(Spot(p, s, k)) = s
         /\ \A l \in Nat : l < k => Spot(p, s, l) # Spot(p, s, k)
<1>1. Spot(p, s, k).number = s + k * NumSets
  BY PirateLine DEF Spot
<1>2. ASSUME NEW l \in Nat, l < k
      PROVE  Spot(p, s, l) # Spot(p, s, k)
  <2>1. Spot(p, s, l).number = s + l * NumSets
    BY PirateLine DEF Spot
  <2> DEFINE n == NumSets
  <2>2. n \in Nat \ {0} /\ s \in Nat
    BY Geometry
  <2> HIDE DEF n
  <2>3. l * n + n <= k * n
    <3>1. (l + 1) * n <= k * n
      BY <1>2, <2>2
    <3> QED
      BY <2>2, <3>1
  <2>4. s + l * n # s + k * n
    <3>1. l * n \in Nat /\ k * n \in Nat
      BY <2>2
    <3> QED
      BY <2>2, <2>3, <3>1
  <2> QED
    BY <1>1, <2>1, <2>4 DEF n
<1> QED
  BY <1>2, PirateLine DEF Spot

\* The line that a step of icar uses is one of the target, ...
LEMMA IcarUses ==
  ASSUME Positions, Icar
  PROVE  LET z == Line(Target, arrayIndex)
         IN /\ z \in Lines /\ z.owner = Target /\ Use(z)
            /\ experiment.program = "forkTest"
            /\ UNCHANGED <<experiment, row, way>>
<1>1. arrayIndex \in Nat
  BY ArrayIndex, Sizes
<1>2. arrayIndex \div blkSize \in Nat
  BY <1>1, Geometry, DivMod
<1> QED
  BY <1>2 DEF Icar, Line, Lines, Target, pirateVars

\* ... and that of a step of a pirate the next one of its pass.
LEMMA PirateUses ==
  ASSUME Positions, NEW p \in Pirates, Steal(p)
  PROVE  \E s \in Sets :
           /\ row[p] = s * blkSize /\ way[p] \in 0 .. waysToSteal - 1
           /\ p \in Running /\ waysToSteal \in Nat
           /\ Use(Spot(p, s, way[p]))
           /\ UNCHANGED experiment
           /\ \A q \in Pirates : q # p => row'[q] = row[q] /\ way'[q] = way[q]
           /\ IF way[p] + 1 < waysToSteal
              THEN way'[p] = way[p] + 1 /\ row'[p] = row[p]
              ELSE way'[p] = 0
<1> DEFINE s == row[p] \div blkSize
<1>1. s \in Sets /\ row[p] = s * blkSize
      /\ Line(p, dataIndex(p)) = Spot(p, s, way[p])
  BY NextLoot DEF Spot
<1>2. way[p] \in Nat /\ waysToSteal \in Nat
  BY Shares DEF Positions
<1> HIDE DEF s
<1>3. /\ p \in Running /\ way[p] < waysToSteal /\ Use(Spot(p, s, way[p]))
      /\ UNCHANGED experiment
  BY <1>1 DEF Steal
<1>4. CASE way[p] + 1 < waysToSteal
  <2>1. way' = [way EXCEPT ![p] = way[p] + 1] /\ row' = row
    BY <1>4 DEF Steal
  <2> QED
    BY <1>1, <1>2, <1>3, <1>4, <2>1 DEF Positions
<1>5. CASE ~(way[p] + 1 < waysToSteal)
  <2>1. /\ way' = [way EXCEPT ![p] = 0]
        /\ row' = [row EXCEPT ![p] = IF row[p] + blkSize < waySize THEN row[p] + blkSize ELSE 0]
    BY <1>5 DEF Steal
  <2> QED
    BY <1>1, <1>2, <1>3, <1>5, <2>1 DEF Positions
<1> QED
  BY <1>4, <1>5

LEMMA OccupantsStep ==
  Positions /\ Ordered /\ Occupants /\ [Next]_vars => Ordered' /\ Occupants'
<1> SUFFICES ASSUME Positions, Ordered, Occupants, [Next]_vars
             PROVE  Ordered' /\ Occupants'
  OBVIOUS
<1>1. CASE Icar
  <2> DEFINE z == Line(Target, arrayIndex)
  <2>1. z \in Lines /\ z.owner = Target /\ Use(z) /\ experiment.program = "forkTest"
        /\ UNCHANGED experiment
    BY <1>1, IcarUses
  <2> HIDE DEF z
  <2>2. Ordered' /\ \A s \in Sets : \A x \in Range(recency'[s]) : x \in Range(recency[s]) \/ x = z
    BY ZenonT(60), <2>1, UseFacts
  <2>3. waysToSteal' = waysToSteal /\ Running' = Running
    BY <2>1 DEF waysToSteal, Running
  <2>4. Occupants'
    BY <2>1, <2>2, <2>3 DEF Occupants
  <2> QED
    BY <2>2, <2>4
<1>2. ASSUME NEW p \in Pirates, Steal(p)
      PROVE  Ordered' /\ Occupants'
  <2>1. PICK s0 \in Sets :
          /\ way[p] \in 0 .. waysToSteal - 1 /\ waysToSteal \in Nat
          /\ p \in Running /\ Use(Spot(p, s0, way[p])) /\ UNCHANGED experiment
    BY <1>2, PirateUses
  <2> DEFINE z == Spot(p, s0, way[p])
  <2>2. z \in Lines /\ SetOf(z) = s0 /\ Use(z)
    BY <2>1, SpotFacts
  <2>3. /\ Ordered'
        /\ \A s \in Sets : \A x \in Range(recency'[s]) :
             x \in Range(recency[s]) \/ (s = s0 /\ x = z)
    BY <2>2, UseFacts
  <2>4. waysToSteal' = waysToSteal /\ Running' = Running
    BY <2>1 DEF waysToSteal, Running
  <2>5. Occupants'
    BY <2>1, <2>3, <2>4 DEF Occupants
  <2> QED
    BY <2>3, <2>5
<1>3. CASE UNCHANGED vars
  BY <1>3 DEF vars, Ordered, Occupants, waysToSteal, Running
<1> QED
  BY <1>1, <1>2, <1>3 DEF Next

LEMMA OccupantsCorrect == Spec => [](Ordered /\ Occupants)
<1>1. Init => Ordered /\ Occupants
  <2> SUFFICES ASSUME Init
               PROVE  Ordered /\ Occupants
    OBVIOUS
  <2>1. \A s \in Sets : recency[s] = <<>>
    BY DEF Init
  <2>2. Range(<<>>) = {} /\ IsInjective(<<>>) /\ <<>> \in Seq(Lines)
    BY DEF Range, IsInjective
  <2>3. recency \in [Sets -> Seq(Lines)]
    BY <2>2 DEF Init
  <2> QED
    BY <2>1, <2>2, <2>3 DEF Ordered, Occupants
<1>2. Positions /\ (Ordered /\ Occupants) /\ [Next]_vars => (Ordered /\ Occupants)'
  BY OccupantsStep
<1> QED
  BY <1>1, <1>2, PositionsCorrect, PTL DEF Spec

-----------------------------------------------------------------------------
(* The target's share.                                                     *)

AllLoot(s) == {Spot(t[1], s, t[2]) : t \in Running \X (0 .. waysToSteal - 1)}

LEMMA LootSize ==
  ASSUME experiment \in Experiment, NEW s \in Sets
  PROVE  /\ IsFiniteSet(AllLoot(s)) /\ Cardinality(AllLoot(s)) \in Nat
         /\ Cardinality(AllLoot(s)) <= waysToSteal * experiment.team
         /\ \A p \in Running : \A k \in 0 .. waysToSteal - 1 : Spot(p, s, k) \in AllLoot(s)
<1>1. experiment.team \in Nat /\ waysToSteal \in Nat
  BY Shares
<1> DEFINE T == Running \X (0 .. waysToSteal - 1)
           f == [t \in T |-> Spot(t[1], s, t[2])]
<1>2. IsFiniteSet(Running) /\ Cardinality(Running) = experiment.team
  BY SMTT(60), <1>1, FS_Interval DEF Running
<1>3. IsFiniteSet(0 .. waysToSteal - 1) /\ Cardinality(0 .. waysToSteal - 1) = waysToSteal
  <2> DEFINE w == waysToSteal
  <2>1. w \in Nat
    BY <1>1
  <2> HIDE DEF w
  <2>2. /\ IsFiniteSet(0 .. w - 1)
        /\ Cardinality(0 .. w - 1) = IF 0 > w - 1 THEN 0 ELSE (w - 1) - 0 + 1
    BY <2>1, FS_Interval
  <2>3. Cardinality(0 .. w - 1) = w
    BY <2>1, <2>2
  <2> QED
    BY <2>2, <2>3 DEF w
<1>4. IsFiniteSet(T) /\ Cardinality(T) = experiment.team * waysToSteal
  BY <1>2, <1>3, FS_Product
<1>5. AllLoot(s) = {f[t] : t \in T}
  BY DEF AllLoot
<1>6. \A p \in Running : \A k \in 0 .. waysToSteal - 1 : Spot(p, s, k) \in AllLoot(s)
  <2> TAKE p \in Running
  <2> TAKE k \in 0 .. waysToSteal - 1
  <2>1. <<p, k>> \in T /\ Spot(p, s, k) = Spot(<<p, k>>[1], s, <<p, k>>[2])
    OBVIOUS
  <2> QED
    BY <2>1 DEF AllLoot
<1> HIDE DEF T, f
<1>7. IsFiniteSet(AllLoot(s)) /\ Cardinality(AllLoot(s)) <= Cardinality(T)
  BY <1>4, <1>5, ImageNotLarger
<1>8. Cardinality(AllLoot(s)) \in Nat
  BY <1>7, FS_CardinalityType
<1>9. experiment.team * waysToSteal = waysToSteal * experiment.team
  BY <1>1
<1> QED
  BY <1>4, <1>6, <1>7, <1>8, <1>9

\* What is not the target's in a set is what the pirates are to take.
LEMMA OthersAreLoot ==
  ASSUME Occupants, NEW s \in Sets, NEW x \in Range(recency[s])
  PROVE  x.owner = Target \/ x \in AllLoot(s)
<1>1. CASE \E p \in Running : \E k \in 0 .. waysToSteal - 1 : x = Spot(p, s, k)
  <2>1. PICK p \in Running, k \in 0 .. waysToSteal - 1 : x = Spot(p, s, k)
    BY <1>1
  <2>2. <<p, k>> \in Running \X (0 .. waysToSteal - 1) /\ x = Spot(<<p, k>>[1], s, <<p, k>>[2])
    BY <2>1
  <2> QED
    BY <2>2 DEF AllLoot
<1> QED
  BY <1>1 DEF Occupants

\* A set that is covered by two sets is not larger than them together.
LEMMA CoveredByTwo ==
  ASSUME NEW A, NEW B, NEW C, IsFiniteSet(B), IsFiniteSet(C), A \subseteq B \union C
  PROVE  /\ IsFiniteSet(A) /\ Cardinality(A) \in Nat
         /\ Cardinality(B) \in Nat /\ Cardinality(C) \in Nat
         /\ Cardinality(A) <= Cardinality(B) + Cardinality(C)
<1>1. /\ IsFiniteSet(B \union C)
      /\ Cardinality(B \union C) = Cardinality(B) + Cardinality(C) - Cardinality(B \intersect C)
  BY FS_Union
<1>2. IsFiniteSet(A) /\ Cardinality(A) <= Cardinality(B \union C)
  BY <1>1, FS_Subset
<1>3. IsFiniteSet(B \intersect C)
  BY FS_Subset
<1>4. /\ Cardinality(A) \in Nat /\ Cardinality(B) \in Nat /\ Cardinality(C) \in Nat
      /\ Cardinality(B \intersect C) \in Nat /\ Cardinality(B \union C) \in Nat
  BY <1>1, <1>2, <1>3, FS_CardinalityType
<1> QED
  BY <1>1, <1>2, <1>4

\* TargetGetsRest: a line of the target is in the cache as long as the lines the
\* target used after it in its set fit into the ways that were not asked for,
\* whatever the pirates do meanwhile.
THEOREM TargetGetsRestCorrect == Spec => []TargetGetsRest
<1>1. Positions /\ Ordered /\ Occupants => TargetGetsRest
  <2> SUFFICES ASSUME Positions, Ordered, Occupants,
                      NEW s \in Sets, NEW k \in DOMAIN recency[s],
                      recency[s][k].owner = Target,
                      Cardinality({x \in After(recency[s][k]) : x.owner = Target})
                        + experiment.stealWayNum < cacheAssoc
               PROVE  Resident(recency[s][k])
    BY DEF TargetGetsRest
  <2> DEFINE line == recency[s][k]
             mine == {x \in After(line) : x.owner = Target}
  <2>1. /\ recency[s] \in Seq(Lines) /\ IsInjective(recency[s])
        /\ line \in Range(recency[s]) /\ line \in Lines /\ SetOf(line) = s
    BY DEF Ordered, Range
  <2>2. Used(line)
    BY <2>1, UsedInRange
  <2>3. experiment.program = "forkTest"
    <3> SUFFICES ASSUME NEW p \in Running, NEW j \in 0 .. waysToSteal - 1, line = Spot(p, s, j)
                 PROVE  FALSE
      BY <2>1 DEF Occupants
    <3>1. p \in Pirates /\ j \in Nat
      BY Shares DEF Positions
    <3>2. line.owner = p
      BY <3>1, SpotFacts
    <3> QED
      BY <3>1, <3>2 DEF Pirates, Target
  <2>4. After(line) = Ahead(recency[s], line)
    BY <2>1 DEF After
  <2>5. IsFiniteSet(After(line)) /\ After(line) \subseteq Range(recency[s])
    BY <2>1, <2>4, AheadIsOrder
  <2> HIDE DEF line
  <2>6. After(line) \subseteq mine \union AllLoot(s)
    BY <2>5, OthersAreLoot
  <2>7. /\ IsFiniteSet(AllLoot(s)) /\ Cardinality(AllLoot(s)) \in Nat
        /\ Cardinality(AllLoot(s)) <= waysToSteal * experiment.team
    BY LootSize DEF Positions
  <2>8. IsFiniteSet(mine)
    BY <2>5, FS_Subset
  <2> HIDE DEF mine
  <2>9. /\ Cardinality(After(line)) \in Nat /\ Cardinality(mine) \in Nat
        /\ Cardinality(After(line)) <= Cardinality(mine) + Cardinality(AllLoot(s))
    BY <2>6, <2>7, <2>8, CoveredByTwo
  <2>10. /\ waysToSteal * experiment.team <= experiment.stealWayNum
         /\ waysToSteal * experiment.team \in Nat /\ experiment.stealWayNum \in Nat
    BY <2>3, Shares DEF Positions
  <2>11. Cardinality(mine) + experiment.stealWayNum < cacheAssoc /\ cacheAssoc \in Nat
    BY Geometry DEF mine, line
  <2>12. Cardinality(After(line)) < cacheAssoc
    BY <2>7, <2>9, <2>10, <2>11
  <2> QED
    BY <2>2, <2>12 DEF Resident, line
<1> QED
  BY <1>1, PositionsCorrect, OccupantsCorrect, PTL

-----------------------------------------------------------------------------
(* The pirates' share.                                                     *)

\* Using a line moves it before all others of its set, and forgets none.
LEMMA Grow ==
  ASSUME Ordered, NEW z \in Lines, Use(z), NEW x \in Lines, x # z
  PROVE  /\ Used(x)' <=> Used(x)
         /\ Used(x) => After(x) \subseteq After(x)'
         /\ Used(x) /\ SetOf(x) = SetOf(z) => z \in After(x)'
BY UseFacts

\* A line that another pirate, or the target, uses leaves a pass as it is.
LEMMA OthersKeepPass ==
  ASSUME Ordered, NEW z \in Lines, Use(z), NEW p \in Pirates, NEW s \in Sets,
         \A k \in Nat : Spot(p, s, k) # z,
         Midway(p, s)' <=> Midway(p, s), Taken(p, s)' = Taken(p, s), Taken(p, s) \in Nat,
         Pass(p, s)
  PROVE  Pass(p, s)'
<1> SUFFICES ASSUME Midway(p, s)' \/ Used(Spot(p, s, 0))',
                    NEW k \in 0 .. Taken(p, s) - 1
             PROVE  /\ Used(Spot(p, s, k))'
                    /\ k > 0 => Spot(p, s, k) \in After(Spot(p, s, 0))'
  BY DEF Pass, Spot, Line
<1>1. /\ k \in Nat /\ 0 \in Nat /\ 0 \in 0 .. Taken(p, s) - 1
  OBVIOUS
<1>2. /\ Spot(p, s, k) \in Lines /\ Spot(p, s, k) # z
      /\ Spot(p, s, 0) \in Lines /\ Spot(p, s, 0) # z
  BY <1>1, SpotFacts
<1>3. /\ Used(Spot(p, s, 0))' <=> Used(Spot(p, s, 0))
      /\ Used(Spot(p, s, k))' <=> Used(Spot(p, s, k))
  BY <1>2, Grow
<1>4. /\ Used(Spot(p, s, 0)) /\ Used(Spot(p, s, k))
      /\ k > 0 => Spot(p, s, k) \in After(Spot(p, s, 0))
  BY <1>1, <1>3 DEF Pass
<1>5. After(Spot(p, s, 0)) \subseteq After(Spot(p, s, 0))'
  BY <1>2, <1>4, Grow
<1> QED
  BY <1>3, <1>4, <1>5

\* The next line of a pass is used after the first one.
LEMMA NextOfPass ==
  ASSUME Positions, Ordered, Passes, NEW p \in Running, NEW s \in Sets,
         row[p] = s * blkSize, way[p] \in 0 .. waysToSteal - 1, waysToSteal \in Nat,
         UNCHANGED experiment, Use(Spot(p, s, way[p])),
         IF way[p] + 1 < waysToSteal
         THEN way'[p] = way[p] + 1 /\ row'[p] = row[p] ELSE way'[p] = 0
  PROVE  Pass(p, s)'
<1>w. PICK w \in Nat : w = way[p]
  OBVIOUS
<1> DEFINE z == Spot(p, s, w)
           first == Spot(p, s, 0)
<1>1. /\ p \in Pirates /\ w \in Nat /\ w < waysToSteal /\ 0 \in Nat
  BY <1>w, Shares DEF Positions
<1>2. z \in Lines /\ first \in Lines /\ SetOf(z) = s /\ SetOf(first) = s /\ Use(z)
  BY <1>w, <1>1, SpotFacts
<1>3. Taken(p, s)' = w + 1
  <2>1. waysToSteal' = waysToSteal
    BY DEF waysToSteal
  <2>2. CASE w + 1 < waysToSteal
    BY <1>w, <1>1, <2>1, <2>2 DEF Taken, Midway
  <2>3. CASE ~(w + 1 < waysToSteal)
    BY <1>w, <1>1, <2>1, <2>3 DEF Taken, Midway
  <2> QED
    BY <2>2, <2>3
<1>4. CASE w = 0
  <2>1. Used(first)'
    BY <1>2, <1>4, UseFacts
  <2> QED
    BY <1>3, <1>4, <2>1 DEF Pass, Spot, Line
<1>5. CASE w > 0
  <2>1. Midway(p, s) /\ Taken(p, s) = w
    BY <1>w, <1>5 DEF Midway, Taken
  <2>2. \A k \in 0 .. w - 1 :
          Used(Spot(p, s, k)) /\ (k > 0 => Spot(p, s, k) \in After(first))
    BY <2>1 DEF Passes, Pass
  <2>3. first # z /\ Used(first)
    BY <1>1, <1>5, <2>2, SpotFacts
  <2>4. Used(first)' /\ After(first) \subseteq After(first)' /\ z \in After(first)' /\ Used(z)'
    BY <1>2, <2>3, Grow, UseFacts
  <2>5. ASSUME NEW k \in 0 .. w
        PROVE  Used(Spot(p, s, k))' /\ (k > 0 => Spot(p, s, k) \in After(first)')
    <3>1. CASE k = w
      BY <2>4, <3>1
    <3>2. CASE k # w
      <4>1. k \in 0 .. w - 1 /\ k \in Nat /\ k < w
        BY <1>1, <3>2
      <4>2. Spot(p, s, k) # z /\ Spot(p, s, k) \in Lines
        BY <1>1, <4>1, SpotFacts
      <4>3. Used(Spot(p, s, k))'
        BY <1>2, <2>2, <4>1, <4>2, Grow
      <4> QED
        BY <2>2, <2>4, <4>1, <4>3
    <3> QED
      BY <3>1, <3>2
  <2> QED
    BY <1>1, <1>3, <2>5 DEF Pass, Spot, Line
<1> QED
  BY <1>1, <1>4, <1>5

LEMMA PassesStep ==
  Positions /\ Ordered /\ Passes /\ [Next]_vars => Passes'
<1> SUFFICES ASSUME Positions, Ordered, Passes, [Next]_vars
             PROVE  Passes'
  OBVIOUS
<1>1. CASE Icar
  <2>1. PICK z \in Lines : z.owner = Target /\ Use(z) /\ UNCHANGED <<experiment, row, way>>
    BY <1>1, IcarUses
  <2>2. waysToSteal' = waysToSteal /\ Running' = Running
    BY <2>1 DEF waysToSteal, Running
  <2> SUFFICES ASSUME NEW p \in Running, NEW s \in Sets
               PROVE  Pass(p, s)'
    BY <2>2 DEF Passes, Sets, waySize
  <2>3. p \in Pirates /\ waysToSteal \in Nat /\ way[p] \in Nat
    BY Shares DEF Positions
  <2>4. \A k \in Nat : Spot(p, s, k) # z
    BY <2>1, <2>3, SpotFacts DEF Pirates, Target
  <2>5. (Midway(p, s)' <=> Midway(p, s)) /\ Taken(p, s)' = Taken(p, s) /\ Taken(p, s) \in Nat
    BY <2>1, <2>2, <2>3 DEF Midway, Taken
  <2>6. Pass(p, s)
    BY DEF Passes
  <2> QED
    BY <2>1, <2>3, <2>4, <2>5, <2>6, OthersKeepPass
<1>2. ASSUME NEW q \in Pirates, Steal(q)
      PROVE  Passes'
  <2>1. PICK s0 \in Sets :
          /\ row[q] = s0 * blkSize /\ way[q] \in 0 .. waysToSteal - 1
          /\ q \in Running /\ waysToSteal \in Nat
          /\ Use(Spot(q, s0, way[q]))
          /\ UNCHANGED experiment
          /\ \A p \in Pirates : p # q => row'[p] = row[p] /\ way'[p] = way[p]
          /\ IF way[q] + 1 < waysToSteal
             THEN way'[q] = way[q] + 1 /\ row'[q] = row[q]
             ELSE way'[q] = 0
    BY <1>2, PirateUses
  <2>2. waysToSteal' = waysToSteal /\ Running' = Running
    BY <2>1 DEF waysToSteal, Running
  <2>3. PICK w \in Nat : w = way[q]
    BY <2>1
  <2>4. PICK z \in Lines : z = Spot(q, s0, w) /\ z.owner = q /\ SetOf(z) = s0 /\ Use(z)
    BY <2>1, <2>3, SpotFacts
  <2> SUFFICES ASSUME NEW p \in Running, NEW s \in Sets
               PROVE  Pass(p, s)'
    BY <2>2 DEF Passes, Sets, waySize
  <2>5. p \in Pirates /\ way[p] \in Nat /\ Pass(p, s)
    BY Shares DEF Positions, Passes
  <2>6. CASE p # q
    <3>1. \A k \in Nat : Spot(p, s, k) # z
      BY <2>4, <2>5, <2>6, SpotFacts
    <3>2. (Midway(p, s)' <=> Midway(p, s)) /\ Taken(p, s)' = Taken(p, s) /\ Taken(p, s) \in Nat
      BY <2>1, <2>2, <2>5, <2>6 DEF Midway, Taken
    <3> QED
      BY <2>4, <2>5, <3>1, <3>2, OthersKeepPass
  <2>7. CASE p = q /\ s # s0
    <3>1. \A k \in Nat : Spot(p, s, k) # z
      BY <2>4, <2>5, <2>7, SpotFacts
    <3>2. row[q] # s * blkSize
      <4>1. s \in Nat /\ s0 \in Nat /\ blkSize \in Nat \ {0}
        BY Geometry
      <4>2. (s * blkSize) \div blkSize = s /\ (s0 * blkSize) \div blkSize = s0
        BY <4>1, MultipleDiv
      <4> QED
        BY <2>1, <2>7, <4>2
    <3>3. ~Midway(p, s) /\ ~Midway(p, s)'
      BY <2>1, <2>7, <3>2 DEF Midway
    <3>4. Taken(p, s)' = Taken(p, s) /\ Taken(p, s) \in Nat
      BY <2>1, <2>2, <3>3 DEF Taken
    <3> QED
      BY <2>4, <2>5, <3>1, <3>3, <3>4, OthersKeepPass
  <2>8. CASE p = q /\ s = s0
    BY <2>1, <2>8, NextOfPass
  <2> QED
    BY <2>6, <2>7, <2>8
<1>3. CASE UNCHANGED vars
  BY <1>3 DEF vars, pirateVars, Passes, Pass, Midway, Taken, Used, After, waysToSteal, Running
<1> QED
  BY <1>1, <1>2, <1>3 DEF Next

LEMMA PassesCorrect == Spec => []Passes
<1>1. Init => Passes
  <2> SUFFICES ASSUME Init, NEW p \in Running, NEW s \in Sets
               PROVE  Pass(p, s)
    BY DEF Passes
  <2>1. experiment \in Experiment
    BY SharedCacheAssumption DEF Init
  <2>2. p \in Pirates /\ way[p] = 0
    BY <2>1, Shares DEF Init
  <2>3. Spot(p, s, 0) \in Lines /\ SetOf(Spot(p, s, 0)) = s
    BY <2>2, SpotFacts
  <2>4. recency[s] = <<>>
    BY DEF Init
  <2>5. ~Used(Spot(p, s, 0))
    BY <2>3, <2>4 DEF Used, Contains
  <2> QED
    BY <2>2, <2>5 DEF Pass, Midway
<1>2. Positions /\ (Ordered /\ Occupants) /\ Passes /\ [Next]_vars => Passes'
  BY PassesStep
<1> QED
  BY <1>1, <1>2, PositionsCorrect, OccupantsCorrect, PTL DEF Spec

\* The lines of a share, first to last, are the spots of a pass.
LEMMA LootIsSpot ==
  ASSUME waysToSteal \in Nat, NEW p, NEW s, NEW k \in 1 .. waysToSteal
  PROVE  /\ k - 1 \in 0 .. waysToSteal - 1 /\ k - 1 \in Nat
         /\ Loot(p, s)[k] = Spot(p, s, k - 1)
BY DEF Loot, Spot

\* PiratesHold: while the target has used no more lines of a set than it is left
\* with since the pirates' last pass through the set, each line that the pirates
\* took there is in the cache, for any number of ways, pirates and sets.
THEOREM PiratesHoldCorrect == Spec => []PiratesHold
<1>1. Positions /\ (Ordered /\ Occupants) /\ Passes => PiratesHold
  <2> SUFFICES ASSUME Positions, Ordered, Occupants, Passes,
                      waysToSteal > 0, waysToSteal * experiment.team <= cacheAssoc,
                      NEW s \in Sets,
                      \A p \in Running :
                        /\ Passed(p, s)
                        /\ Cardinality({x \in After(Loot(p, s)[1]) : x.owner = Target})
                             <= cacheAssoc - waysToSteal * experiment.team,
                      NEW p \in Running, NEW k \in 1 .. waysToSteal
               PROVE  Resident(Loot(p, s)[k])
    BY DEF PiratesHold
  <2>1. /\ p \in Pirates /\ waysToSteal \in Nat /\ experiment.team \in Nat
        /\ waysToSteal * experiment.team \in Nat
        /\ cacheAssoc \in Nat
    BY Shares, Geometry DEF Positions
  <2>2. PICK x \in Lines, first \in Lines :
          /\ x = Loot(p, s)[k] /\ x = Spot(p, s, k - 1)
          /\ first = Loot(p, s)[1] /\ first = Spot(p, s, 0)
          /\ SetOf(x) = s /\ SetOf(first) = s /\ x.owner = p
    <3>1. 1 \in 1 .. waysToSteal /\ 1 - 1 = 0
      BY <2>1
    <3> QED
      BY <2>1, <3>1, LootIsSpot, SpotFacts
  <2>3. k - 1 \in 0 .. waysToSteal - 1 /\ k - 1 \in Nat
    BY <2>1, LootIsSpot
  <2>4. Used(x) /\ (k - 1 > 0 => x \in After(first))
    <3>1. Used(first) /\ ~Midway(p, s)
      <4>1. Passed(p, s)
        OBVIOUS
      <4>2. Used(first)
        BY <2>2, <4>1 DEF Passed
      <4>3. ~Midway(p, s)
        BY <4>1 DEF Passed, Midway
      <4> QED
        BY <4>2, <4>3
    <3>2. Taken(p, s) = waysToSteal
      BY <3>1 DEF Taken
    <3>3. Pass(p, s)
      BY DEF Passes
    <3> QED
      BY <2>2, <2>3, <3>1, <3>2, <3>3 DEF Pass
  <2>5. /\ recency[s] \in Seq(Lines) /\ IsInjective(recency[s])
        /\ After(x) = Ahead(recency[s], x) /\ After(first) = Ahead(recency[s], first)
    BY <2>2 DEF Ordered, After
  <2>6. /\ IsFiniteSet(After(x)) /\ After(x) \subseteq Range(recency[s]) /\ x \notin After(x)
        /\ IsFiniteSet(After(first))
    BY <2>5, AheadIsOrder
  <2>7. After(x) \subseteq After(first)
    <3>1. CASE k - 1 = 0
      BY <2>2, <3>1
    <3>2. CASE k - 1 > 0
      BY <2>4, <2>5, <3>2, AheadIsOrder
    <3> QED
      BY <2>3, <3>1, <3>2
  <2> DEFINE mine == {y \in After(first) : y.owner = Target}
             others == AllLoot(s) \ {x}
  <2>8. IsFiniteSet(mine) /\ Cardinality(mine) <= cacheAssoc - waysToSteal * experiment.team
    BY <2>2, <2>6, FS_Subset
  <2>9. After(x) \subseteq mine \union others
    BY <2>6, <2>7, OthersAreLoot
  <2>10. /\ IsFiniteSet(others)
         /\ Cardinality(others) <= waysToSteal * experiment.team - 1
    <3>1. /\ IsFiniteSet(AllLoot(s)) /\ Cardinality(AllLoot(s)) \in Nat
          /\ Cardinality(AllLoot(s)) <= waysToSteal * experiment.team
          /\ x \in AllLoot(s)
      BY <2>2, <2>3, LootSize DEF Positions
    <3>2. /\ IsFiniteSet(others)
          /\ Cardinality(others) = Cardinality(AllLoot(s)) - 1
      BY <3>1, FS_RemoveElement
    <3> QED
      BY <2>1, <3>1, <3>2
  <2> HIDE DEF mine, others
  <2>11. /\ Cardinality(After(x)) \in Nat /\ Cardinality(mine) \in Nat
         /\ Cardinality(others) \in Nat
         /\ Cardinality(After(x)) <= Cardinality(mine) + Cardinality(others)
    BY <2>8, <2>9, <2>10, CoveredByTwo
  <2>12. Cardinality(After(x)) < cacheAssoc
    BY <2>1, <2>8, <2>10, <2>11
  <2> QED
    BY <2>2, <2>4, <2>12 DEF Resident
<1> QED
  BY <1>1, PositionsCorrect, OccupantsCorrect, PassesCorrect, PTL

(***************************************************************************)
(* What icar finds in the cache.  It uses its lines one after the other,   *)
(* in turns of two, one of the full iteration and one of the part; so what *)
(* it used since its last use of a line follows from the number of turns.  *)
(***************************************************************************)

\* A turn goes over two lines; it comes to the first element of a line of the
\* full iteration, then of a line of the part, and then to their second ones.
TurnSize == 4 * stride
FullTurns == full_size \div TurnSize
PartTurns == part_size \div TurnSize

\* The k-th line of the full iteration, and of the part.
FullLine(k) == [owner |-> Target, number |-> 2 * k]
PartLine(k) == [owner |-> Target, number |-> 2 * k + 1]

\* The n-th line that icar comes to, from 0 on.
LineOfTurn(t, part) ==
  IF part THEN PartLine((t % FullTurns) % PartTurns) ELSE FullLine(t % FullTurns)
Touched(n) == LineOfTurn(n \div 2, n % 2 = 1)

\* How many lines it has come to.  It uses each of them twice.
TurnsDone == iteration * FullTurns + i \div TurnSize
Touches == 2 * TurnsDone + (CASE access = 1 -> 0 [] access \in {2, 3} -> 1 [] access = 4 -> 2)

\* icar has not come back to the n-th line among the first N.
LastTouch(n, N) == \A k \in n + 1 .. N - 1 : Touched(k) # Touched(n)

\* The lines of the target in the cache after N touches are those touched, and
\* what it used after one of them is what it touched since.
Footprint(N) ==
  /\ \A x \in Lines : x.owner = Target => (Used(x) <=> \E n \in 0 .. N - 1 : Touched(n) = x)
  /\ \A n \in 0 .. N - 1 : \A y \in After(Touched(n)) :
       y.owner = Target => \E m \in n + 1 .. N - 1 : Touched(m) = y
  /\ \A n \in 0 .. N - 1 : LastTouch(n, N) =>
       \A m \in n + 1 .. N - 1 :
         SetOf(Touched(m)) = SetOf(Touched(n)) => Touched(m) \in After(Touched(n))

Trail == \E N \in Nat : N = Touches /\ Footprint(N)

\* Both iterations are whole turns, and at least one.
LEMMA TurnFacts ==
  /\ TurnSize \in Nat \ {0} /\ TurnSize = 2 * blkSize /\ blkSize = 2 * stride
  /\ stride \in Nat \ {0} /\ blkSize \in Nat \ {0}
  /\ FullTurns \in Nat \ {0} /\ PartTurns \in Nat \ {0} /\ PartTurns <= FullTurns
  /\ full_size = FullTurns * TurnSize /\ part_size = PartTurns * TurnSize
<1>1. /\ TurnSize \in Nat \ {0} /\ TurnSize = 2 * blkSize /\ blkSize = 2 * stride
      /\ stride \in Nat \ {0} /\ blkSize \in Nat \ {0}
  BY Sizes, SharedCacheAssumption DEF TurnSize
<1>2. /\ full_size \in Nat \ {0} /\ part_size \in Nat \ {0} /\ part_size <= full_size
      /\ full_size % TurnSize = 0 /\ part_size % TurnSize = 0
  BY Sizes DEF TurnSize
<1>3. \A a \in Nat \ {0} : a % TurnSize = 0 =>
        a \div TurnSize \in Nat \ {0} /\ a = (a \div TurnSize) * TurnSize
  <2> DEFINE d == TurnSize
  <2>1. d \in Nat \ {0}
    BY <1>1
  <2> HIDE DEF d
  <2> TAKE a \in Nat \ {0}
  <2> SUFFICES ASSUME a % d = 0
               PROVE  a \div d \in Nat \ {0} /\ a = (a \div d) * d
    BY DEF d
  <2> DEFINE q == a \div d
  <2>2. q \in Nat /\ a = q * d + 0
    BY <2>1, DivMod
  <2> HIDE DEF q
  <2>3. q # 0 /\ a = q * d
    BY <2>1, <2>2
  <2> QED
    BY <2>2, <2>3 DEF q
<1>4. PartTurns <= FullTurns
  BY <1>1, <1>2, DivMonotone DEF FullTurns, PartTurns
<1> QED
  BY <1>1, <1>2, <1>3, <1>4 DEF FullTurns, PartTurns

\* Whatever icar comes to is a line of its own.
LEMMA TouchedIsLine ==
  ASSUME NEW n \in Nat
  PROVE  Touched(n) \in Lines /\ Touched(n).owner = Target
<1>1. n \div 2 \in Nat
  BY DivMod
<1>2. (n \div 2) % FullTurns \in Nat
  BY <1>1, TurnFacts, DivMod
<1>3. ((n \div 2) % FullTurns) % PartTurns \in Nat
  BY <1>2, TurnFacts, DivMod
<1> QED
  BY <1>2, <1>3 DEF Touched, LineOfTurn, FullLine, PartLine, Lines, Target

\* A new touch: the line goes to the front of its set.
LEMMA FootprintGrows ==
  ASSUME Ordered, NEW N \in Nat, Footprint(N), Use(Touched(N))
  PROVE  Footprint(N + 1)'
<1> DEFINE z == Touched(N)
<1>1. z \in Lines /\ z.owner = Target /\ \A n \in Nat : Touched(n) \in Lines /\ Touched(n).owner = Target
  BY TouchedIsLine
<1>2. /\ \A x \in Lines : Used(x)' <=> Used(x) \/ x = z
      /\ After(z)' = {}
      /\ \A x \in Lines : Used(x) /\ x # z =>
           After(x)' = IF SetOf(x) = SetOf(z) THEN After(x) \union {z} ELSE After(x)
  BY <1>1, UseFacts
<1>3. \A n \in 0 .. N - 1 : n \in Nat /\ Used(Touched(n))
  BY <1>1 DEF Footprint
<1>4. \A n \in 0 .. N - 1 : Touched(n) # z =>
        After(Touched(n))' = IF SetOf(Touched(n)) = SetOf(z) THEN After(Touched(n)) \union {z}
                             ELSE After(Touched(n))
  BY <1>1, <1>2, <1>3
<1>5. \A n \in 0 .. N + 1 - 1 : n = N \/ n \in 0 .. N - 1
  OBVIOUS
<1>6. ASSUME NEW x \in Lines, x.owner = Target
      PROVE  Used(x)' <=> \E n \in 0 .. N + 1 - 1 : Touched(n) = x
  <2>1. Used(x) <=> \E n \in 0 .. N - 1 : Touched(n) = x
    BY <1>6 DEF Footprint
  <2>2. Used(x)' <=> Used(x) \/ x = z
    BY <1>2
  <2>3. (\E n \in 0 .. N - 1 : Touched(n) = x) \/ x = z <=> \E n \in 0 .. N + 1 - 1 : Touched(n) = x
    <3>1. N \in 0 .. N + 1 - 1 /\ \A n \in 0 .. N - 1 : n \in 0 .. N + 1 - 1
      OBVIOUS
    <3> QED
      BY <1>5, <3>1
  <2> QED
    BY <2>1, <2>2, <2>3
<1>7. ASSUME NEW n \in 0 .. N + 1 - 1, NEW y, y \in After(Touched(n))', y.owner = Target
      PROVE  \E m \in n + 1 .. N + 1 - 1 : Touched(m) = y
  <2>1. Touched(n) # z
    BY <1>2, <1>7
  <2>2. n \in 0 .. N - 1 /\ N \in n + 1 .. N + 1 - 1
    BY <1>5, <2>1
  <2>3. y \in After(Touched(n)) \/ y = z
    BY <1>4, <1>7, <2>1, <2>2
  <2>4. CASE y \in After(Touched(n))
    <3>1. PICK m \in n + 1 .. N - 1 : Touched(m) = y
      BY <1>7, <2>2, <2>4 DEF Footprint
    <3>2. m \in n + 1 .. N + 1 - 1
      BY <2>2
    <3> QED
      BY <3>1, <3>2
  <2> QED
    BY <2>2, <2>3, <2>4
<1>8. ASSUME NEW n \in 0 .. N + 1 - 1, LastTouch(n, N + 1), NEW m \in n + 1 .. N + 1 - 1,
             SetOf(Touched(m)) = SetOf(Touched(n))
      PROVE  Touched(m) \in After(Touched(n))'
  <2>1. n \in 0 .. N - 1 /\ N \in n + 1 .. N + 1 - 1
    OBVIOUS
  <2>2. Touched(n) # z
    BY <1>8, <2>1 DEF LastTouch
  <2>3. CASE m = N
    BY <1>4, <1>8, <2>1, <2>2, <2>3
  <2>4. CASE m # N
    <3>1. m \in n + 1 .. N - 1
      BY <2>4
    <3>2. LastTouch(n, N)
      <4>1. \A k \in n + 1 .. N - 1 : k \in n + 1 .. N + 1 - 1
        BY <2>1
      <4> QED
        BY <1>8, <4>1 DEF LastTouch
    <3>3. Touched(m) \in After(Touched(n))
      BY <1>8, <2>1, <3>1, <3>2 DEF Footprint
    <3> QED
      BY <1>4, <2>1, <2>2, <3>3
  <2> QED
    BY <2>3, <2>4
<1> QED
  BY <1>6, <1>7, <1>8 DEF Footprint

\* The second use of a line that was just touched changes nothing for the target.
LEMMA FootprintRepeats ==
  ASSUME Ordered, NEW N \in Nat, N > 0, Footprint(N), Use(Touched(N - 1))
  PROVE  Footprint(N)'
<1> DEFINE z == Touched(N - 1)
<1>0. N - 1 \in Nat /\ N - 1 \in 0 .. N - 1
  OBVIOUS
<1>1. z \in Lines /\ z.owner = Target /\ \A n \in Nat : Touched(n) \in Lines /\ Touched(n).owner = Target
  BY <1>0, TouchedIsLine
<1>2. /\ \A x \in Lines : Used(x)' <=> Used(x) \/ x = z
      /\ After(z)' = {}
      /\ \A x \in Lines : Used(x) /\ x # z =>
           After(x)' = IF SetOf(x) = SetOf(z) THEN After(x) \union {z} ELSE After(x)
  BY <1>1, UseFacts
<1>3. \A n \in 0 .. N - 1 : n \in Nat /\ Used(Touched(n))
  BY <1>1 DEF Footprint
<1>4. \A n \in 0 .. N - 1 : Touched(n) # z =>
        After(Touched(n))' = IF SetOf(Touched(n)) = SetOf(z) THEN After(Touched(n)) \union {z}
                             ELSE After(Touched(n))
  BY <1>1, <1>2, <1>3
<1>6. ASSUME NEW x \in Lines, x.owner = Target
      PROVE  Used(x)' <=> \E n \in 0 .. N - 1 : Touched(n) = x
  BY <1>0, <1>2, <1>3, <1>6 DEF Footprint
<1>7. ASSUME NEW n \in 0 .. N - 1, NEW y, y \in After(Touched(n))', y.owner = Target
      PROVE  \E m \in n + 1 .. N - 1 : Touched(m) = y
  <2>1. Touched(n) # z
    BY <1>2, <1>7
  <2>2. N - 1 \in n + 1 .. N - 1
    <3>1. n # N - 1
      BY <2>1
    <3> QED
      BY <3>1
  <2>3. y \in After(Touched(n)) \/ y = z
    BY <1>4, <1>7, <2>1
  <2>4. CASE y \in After(Touched(n))
    BY <1>7, <2>4 DEF Footprint
  <2> QED
    BY <2>2, <2>3, <2>4
<1>8. ASSUME NEW n \in 0 .. N - 1, LastTouch(n, N), NEW m \in n + 1 .. N - 1,
             SetOf(Touched(m)) = SetOf(Touched(n))
      PROVE  Touched(m) \in After(Touched(n))'
  <2>1. N - 1 \in n + 1 .. N - 1
    OBVIOUS
  <2>2. Touched(n) # z
    BY <1>8, <2>1 DEF LastTouch
  <2>3. Touched(m) \in After(Touched(n))
    BY <1>8 DEF Footprint
  <2> QED
    BY <1>4, <2>2, <2>3
<1> QED
  BY <1>6, <1>7, <1>8 DEF Footprint

\* A line of a pirate leaves the target's in their order.
LEMMA FootprintKept ==
  ASSUME Ordered, NEW N \in Nat, Footprint(N), NEW z \in Lines, Use(z), z.owner # Target
  PROVE  Footprint(N)'
<1>1. \A n \in Nat : Touched(n) \in Lines /\ Touched(n).owner = Target
  BY TouchedIsLine
<1>2. /\ \A x \in Lines : Used(x)' <=> Used(x) \/ x = z
      /\ \A x \in Lines : Used(x) /\ x # z =>
           After(x)' = IF SetOf(x) = SetOf(z) THEN After(x) \union {z} ELSE After(x)
  BY UseFacts
<1>3. \A n \in 0 .. N - 1 : n \in Nat /\ Used(Touched(n))
  BY <1>1 DEF Footprint
<1>4. \A n \in 0 .. N - 1 :
        After(Touched(n))' = IF SetOf(Touched(n)) = SetOf(z) THEN After(Touched(n)) \union {z}
                             ELSE After(Touched(n))
  BY <1>1, <1>2, <1>3
<1>5. ASSUME NEW x \in Lines, x.owner = Target
      PROVE  Used(x)' <=> \E n \in 0 .. N - 1 : Touched(n) = x
  BY <1>2, <1>5 DEF Footprint
<1>6. ASSUME NEW n \in 0 .. N - 1, NEW y, y \in After(Touched(n))', y.owner = Target
      PROVE  \E m \in n + 1 .. N - 1 : Touched(m) = y
  <2>1. y \in After(Touched(n))
    BY <1>4, <1>6
  <2> QED
    BY <1>6, <2>1 DEF Footprint
<1>7. ASSUME NEW n \in 0 .. N - 1, LastTouch(n, N), NEW m \in n + 1 .. N - 1,
             SetOf(Touched(m)) = SetOf(Touched(n))
      PROVE  Touched(m) \in After(Touched(n))'
  <2>1. Touched(m) \in After(Touched(n))
    BY <1>7 DEF Footprint
  <2> QED
    BY <1>4, <2>1
<1> QED
  BY <1>5, <1>6, <1>7 DEF Footprint

\* Within a block the quotient stays.
LEMMA DivOffset ==
  ASSUME NEW a \in Nat, NEW b \in Nat \ {0}, NEW r \in 0 .. b - 1
  PROVE  (a * b + r) \div b = a
OBVIOUS

\* A remainder scales with both its operands.
LEMMA ModScaled ==
  ASSUME NEW k \in Nat, NEW p \in Nat \ {0}, NEW d \in Nat \ {0}
  PROVE  (k * d) % (p * d) = (k % p) * d
<1> DEFINE q == k \div p
           r == k % p
           m == p * d
           rd == r * d
<1>1. q \in Nat /\ r \in 0 .. p - 1 /\ k = q * p + r
  BY DivMod
<1> HIDE DEF q, r
<1>2. m \in Nat \ {0} /\ rd \in Nat /\ rd < m
  <2>1. r * d + d <= p * d
    <3>1. (r + 1) * d <= p * d
      BY <1>1
    <3> QED
      BY <1>1, <3>1
  <2>2. r * d \in Nat /\ p * d \in Nat
    BY <1>1
  <2> QED
    BY <2>1, <2>2
<1>3. k * d = (p * d) * q + r * d
  BY <1>1
<1>4. k * d = m * q + rd
  BY <1>3
<1> HIDE DEF m, rd
<1>5. (m * q + rd) % m = rd % m
  BY <1>1, <1>2, ModOfMultiple
<1>6. rd % m = rd
  BY <1>2
<1>7. (k * d) % m = rd
  BY <1>4, <1>5, <1>6
<1> QED
  BY <1>7 DEF m, rd, r

\* The line of icar's turn at place k of the full iteration.
LEMMA PlaceInTurn ==
  ASSUME Positions
  PROVE  \E k \in Nat : /\ k < FullTurns /\ i = k * TurnSize /\ i \div TurnSize = k
                        /\ TurnsDone = iteration * FullTurns + k /\ TurnsDone \in Nat
                        /\ TurnsDone % FullTurns = k
<1> DEFINE k == i \div TurnSize
<1>1. i \in Nat /\ i < full_size /\ i % TurnSize = 0 /\ iteration \in Nat
  BY Sizes DEF Positions, TurnSize
<1>2. k \in Nat /\ i = k * TurnSize + 0
  BY <1>1, TurnFacts, DivMod
<1> HIDE DEF k
<1>3. i = k * TurnSize
  BY <1>2, TurnFacts
<1>4. k < FullTurns
  <2> DEFINE d == TurnSize
             n == FullTurns
  <2>1. d \in Nat \ {0} /\ n \in Nat /\ k * d < n * d
    BY <1>1, <1>3, TurnFacts
  <2> HIDE DEF d, n
  <2>2. n <= k => n * d <= k * d
    BY <1>2, <2>1
  <2>3. n * d \in Nat /\ k * d \in Nat
    BY <1>2, <2>1
  <2>4. k < n
    BY <1>2, <2>1, <2>2, <2>3
  <2> QED
    BY <2>4 DEF n
<1>5. TurnsDone = iteration * FullTurns + k
  BY DEF TurnsDone, k
<1>6. TurnsDone \in Nat /\ TurnsDone = FullTurns * iteration + k
  BY <1>1, <1>2, <1>5, TurnFacts
<1>7. TurnsDone % FullTurns = k
  <2>1. (FullTurns * iteration + k) % FullTurns = k % FullTurns
    <3> DEFINE n == FullTurns
    <3>1. n \in Nat \ {0} /\ iteration \in Nat /\ k \in Nat
      BY <1>1, <1>2, TurnFacts
    <3> HIDE DEF n
    <3>2. (n * iteration + k) % n = k % n
      BY <3>1, ModOfMultiple
    <3> QED
      BY <3>2 DEF n
  <2>2. k % FullTurns = k
    BY <1>2, <1>4, TurnFacts
  <2> QED
    BY <1>6, <2>1, <2>2
<1> QED
  BY <1>2, <1>3, <1>4, <1>5, <1>6, <1>7 DEF k

\* The touches of a turn.
LEMMA TouchesOfTurn ==
  ASSUME NEW t \in Nat
  PROVE  /\ Touched(2 * t) = LineOfTurn(t, FALSE)
         /\ Touched(2 * t + 1) = LineOfTurn(t, TRUE)
<1>1. (2 * t) \div 2 = t /\ (2 * t) % 2 = 0 /\ (2 * t + 1) \div 2 = t /\ (2 * t + 1) % 2 = 1
  OBVIOUS
<1>2. ((2 * t) % 2 = 1) = FALSE /\ ((2 * t + 1) % 2 = 1) = TRUE
  BY <1>1
<1> QED
  BY <1>1, <1>2 DEF Touched

\* The line that icar is about to use is the next one of these, or the last one
\* once more.
LEMMA NextTouch ==
  ASSUME Positions
  PROVE  /\ Touches \in Nat
         /\ access = 1 => Touches = 2 * TurnsDone
         /\ access \in {2, 3} => Touches = 2 * TurnsDone + 1
         /\ access = 4 => Touches = 2 * TurnsDone + 2
         /\ access \in {1, 3} => Line(Target, arrayIndex) = Touched(Touches)
         /\ access \in {2, 4} => /\ Touches > 0
                                 /\ Line(Target, arrayIndex) = Touched(Touches - 1)
<1>1. PICK k \in Nat : /\ k < FullTurns /\ i = k * TurnSize
                       /\ TurnsDone \in Nat /\ TurnsDone % FullTurns = k
  BY PlaceInTurn
<1>2. /\ access = 1 => Touches = 2 * TurnsDone
      /\ access \in {2, 3} => Touches = 2 * TurnsDone + 1
      /\ access = 4 => Touches = 2 * TurnsDone + 2
  <2>1. TurnsDone \in Int
    BY <1>1
  <2> QED
    BY <2>1 DEF Touches
<1>3. access \in 1 .. 4
  BY DEF Positions
<1>4. Touches \in Nat /\ (access # 1 => Touches > 0)
  BY <1>1, <1>2, <1>3
<1> DEFINE b == blkSize
           p == k % PartTurns
<1>5. b \in Nat \ {0} /\ stride \in 0 .. b - 1 /\ 0 \in 0 .. b - 1 /\ b = 2 * stride
      /\ TurnSize = 2 * b /\ p \in Nat
  BY TurnFacts, DivMod
<1>6. i % part_size = p * TurnSize
  BY <1>1, TurnFacts, ModScaled
<1> HIDE DEF b, p
<1>7. /\ i = (2 * k) * b + 0
      /\ i + stride = (2 * k) * b + stride
      /\ (i % part_size) + 2 * stride = (2 * p + 1) * b + 0
      /\ (i % part_size) + 3 * stride = (2 * p + 1) * b + stride
  <2>1. k * (2 * b) = (2 * k) * b /\ (2 * k) * b \in Nat
    BY <1>5
  <2>2. p * (2 * b) = (2 * p) * b /\ (2 * p + 1) * b = (2 * p) * b + b /\ (2 * p) * b \in Nat
    BY <1>5
  <2>3. i = (2 * k) * b /\ i % part_size = (2 * p) * b
    BY <1>1, <1>5, <1>6, <2>1, <2>2
  <2> QED
    BY <1>5, <2>1, <2>2, <2>3
<1>8. /\ ((2 * k) * b + 0) \div b = 2 * k /\ ((2 * k) * b + stride) \div b = 2 * k
      /\ ((2 * p + 1) * b + 0) \div b = 2 * p + 1
      /\ ((2 * p + 1) * b + stride) \div b = 2 * p + 1
  <2>1. 2 * k \in Nat /\ 2 * p + 1 \in Nat
    BY <1>5
  <2> HIDE DEF b
  <2> QED
    BY <1>5, <2>1, DivOffset
<1>9. /\ access \in {1, 2} => arrayIndex \div b = 2 * k
      /\ access \in {3, 4} => arrayIndex \div b = 2 * p + 1
  <2>1. CASE access = 1
    BY <1>7, <1>8, <2>1 DEF arrayIndex
  <2>2. CASE access = 2
    BY <1>7, <1>8, <2>2 DEF arrayIndex
  <2>3. CASE access = 3
    BY <1>7, <1>8, <2>3 DEF arrayIndex
  <2>4. CASE access = 4
    BY <1>7, <1>8, <2>4 DEF arrayIndex
  <2> QED
    BY <1>3, <2>1, <2>2, <2>3, <2>4
<1>10. /\ access \in {1, 2} => Line(Target, arrayIndex) = LineOfTurn(TurnsDone, FALSE)
       /\ access \in {3, 4} => Line(Target, arrayIndex) = LineOfTurn(TurnsDone, TRUE)
  BY <1>1, <1>9 DEF Line, LineOfTurn, FullLine, PartLine, b, p
<1>11. /\ Touched(2 * TurnsDone) = LineOfTurn(TurnsDone, FALSE)
       /\ Touched(2 * TurnsDone + 1) = LineOfTurn(TurnsDone, TRUE)
  BY <1>1, TouchesOfTurn
<1>12. ASSUME access = 1
       PROVE  Line(Target, arrayIndex) = Touched(Touches)
  <2>1. Line(Target, arrayIndex) = LineOfTurn(TurnsDone, FALSE) /\ Touches = 2 * TurnsDone
    BY <1>2, <1>10, <1>12
  <2> QED
    BY <1>11, <2>1, Zenon
<1>13. ASSUME access = 2
       PROVE  Line(Target, arrayIndex) = Touched(Touches - 1)
  <2>1. Line(Target, arrayIndex) = LineOfTurn(TurnsDone, FALSE) /\ Touches - 1 = 2 * TurnsDone
    BY <1>1, <1>2, <1>10, <1>13
  <2> QED
    BY <1>11, <2>1, Zenon
<1>14. ASSUME access = 3
       PROVE  Line(Target, arrayIndex) = Touched(Touches)
  <2>1. Line(Target, arrayIndex) = LineOfTurn(TurnsDone, TRUE) /\ Touches = 2 * TurnsDone + 1
    BY <1>2, <1>10, <1>14
  <2> QED
    BY <1>11, <2>1, Zenon
<1>15. ASSUME access = 4
       PROVE  Line(Target, arrayIndex) = Touched(Touches - 1)
  <2>1. /\ Line(Target, arrayIndex) = LineOfTurn(TurnsDone, TRUE)
        /\ Touches - 1 = 2 * TurnsDone + 1
    BY <1>1, <1>2, <1>10, <1>15
  <2> QED
    BY <1>11, <2>1, Zenon
<1>16. access \in {1, 3} => Line(Target, arrayIndex) = Touched(Touches)
  BY <1>12, <1>14
<1>17. access \in {2, 4} => Touches > 0 /\ Line(Target, arrayIndex) = Touched(Touches - 1)
  <2>1. access \in {2, 4} => Touches > 0
    BY <1>4
  <2> QED
    BY <1>13, <1>15, <2>1
<1> QED
  BY <1>2, <1>4, <1>16, <1>17

\* The turns follow each other through the end of the iteration.
LEMMA NextTurn ==
  ASSUME Positions, Icar
  PROVE  TurnsDone' = IF access = 4 THEN TurnsDone + 1 ELSE TurnsDone
<1>1. PICK k \in Nat : /\ k < FullTurns /\ i = k * TurnSize /\ i \div TurnSize = k
                       /\ TurnsDone = iteration * FullTurns + k
  BY PlaceInTurn
<1>2. iteration \in Nat /\ access \in 1 .. 4
  BY DEF Positions
<1>3. /\ i' = IF access < 4 THEN i ELSE (i + TurnSize) % full_size
      /\ iteration' = IF access = 4 /\ i' = 0 THEN iteration + 1 ELSE iteration
  BY DEF Icar, TurnSize
<1>4. CASE access # 4
  <2>1. i' = i /\ iteration' = iteration
    BY <1>2, <1>3, <1>4
  <2> QED
    BY <1>4, <2>1 DEF TurnsDone
<1>5. CASE access = 4
  <2> DEFINE d == TurnSize
             n == FullTurns
  <2>1. d \in Nat \ {0} /\ n \in Nat \ {0} /\ full_size = n * d /\ k + 1 \in Nat
    BY TurnFacts
  <2>2. i + d = (k + 1) * d
    BY <1>1, <2>1
  <2>3. (i + d) % full_size = ((k + 1) % n) * d
    <3> HIDE DEF d, n
    <3> QED
      BY ZenonT(60), <2>1, <2>2, ModScaled
  <2>4. i' = ((k + 1) % n) * d
    BY <1>3, <1>5, <2>3
  <2>5. TurnsDone' = iteration' * n + (i' \div d)
    BY DEF TurnsDone, FullTurns, TurnSize
  <2>6. k < n /\ TurnsDone = iteration * n + k
    BY <1>1
  <2> HIDE DEF d, n
  <2>7. CASE k + 1 < n
    <3>1. (k + 1) % n = k + 1
      BY <2>1, <2>7
    <3>2. i' = (k + 1) * d /\ i' # 0 /\ i' \div d = k + 1
      <4>1. i' = (k + 1) * d
        BY <2>4, <3>1
      <4>2. (k + 1) * d # 0
        BY <2>1
      <4>3. ((k + 1) * d) \div d = k + 1
        BY <2>1, MultipleDiv
      <4> QED
        BY <4>1, <4>2, <4>3
    <3>3. iteration' = iteration
      BY <1>3, <3>2
    <3>4. iteration * n \in Nat
      BY <1>2, <2>1
    <3> QED
      BY <1>5, <2>5, <2>6, <3>2, <3>3, <3>4
  <2>8. CASE ~(k + 1 < n)
    <3>1. k + 1 = n
      BY <2>1, <2>6, <2>8
    <3>2. (k + 1) % n = 0
      BY <2>1, <3>1
    <3>3. i' = 0 /\ 0 \div d = 0
      BY <2>1, <2>4, <3>2
    <3>4. iteration' = iteration + 1
      BY <1>3, <1>5, <3>3
    <3>5. (iteration + 1) * n = iteration * n + n /\ iteration * n \in Nat
      BY <1>2, <2>1
    <3> QED
      BY <1>5, <2>1, <2>5, <2>6, <3>1, <3>3, <3>4, <3>5
  <2> QED
    BY <2>7, <2>8
<1> QED
  BY <1>4, <1>5

\* Every step keeps the trail: icar's accesses by one of the two lemmas above,
\* the pirates' by the third, and the others leave the cache alone or empty it.
LEMMA TrailStep ==
  Positions /\ Positions' /\ Ordered /\ Trail /\ [Next]_vars => Trail'
<1> SUFFICES ASSUME Positions, Positions', Ordered, Trail, [Next]_vars
             PROVE  Trail'
  OBVIOUS
<1>1. PICK N \in Nat : N = Touches /\ Footprint(N)
  BY DEF Trail
<1>2. CASE Icar
  <2>1. Use(Line(Target, arrayIndex)) /\ access' = (access % 4) + 1 /\ access \in 1 .. 4
    BY <1>2 DEF Icar, Positions
  <2>2. PICK t \in Nat : t = TurnsDone
    BY PlaceInTurn
  <2>3. TurnsDone' = IF access = 4 THEN t + 1 ELSE t
    BY <1>2, <2>2, NextTurn
  <2>4. /\ access = 1 => N = 2 * t
        /\ access \in {2, 3} => N = 2 * t + 1
        /\ access = 4 => N = 2 * t + 2
        /\ access \in {1, 3} => Line(Target, arrayIndex) = Touched(N)
        /\ access \in {2, 4} => N > 0 /\ Line(Target, arrayIndex) = Touched(N - 1)
    BY <1>1, <2>2, NextTouch
  <2>5. /\ access' = 1 => Touches' = 2 * TurnsDone'
        /\ access' \in {2, 3} => Touches' = 2 * TurnsDone' + 1
        /\ access' = 4 => Touches' = 2 * TurnsDone' + 2
    <3>1. TurnsDone' \in Int
      BY <2>2, <2>3
    <3> QED
      BY <3>1 DEF Touches
  <2>6. CASE access \in {1, 3}
    <3>1. Footprint(N + 1)'
      BY <1>1, <2>1, <2>4, <2>6, FootprintGrows
    <3>2. N + 1 \in Nat /\ Touches' = N + 1
      <4>1. CASE access = 1
        <5>1. access' = 2
          BY <2>1, <4>1
        <5> QED
          BY <2>2, <2>3, <2>4, <2>5, <4>1, <5>1
      <4>2. CASE access = 3
        <5>1. access' = 4
          BY <2>1, <4>2
        <5> QED
          BY <2>2, <2>3, <2>4, <2>5, <4>2, <5>1
      <4> QED
        BY <2>6, <4>1, <4>2
    <3> QED
      BY <3>1, <3>2 DEF Trail
  <2>7. CASE access \in {2, 4}
    <3>1. Footprint(N)'
      BY <1>1, <2>1, <2>4, <2>7, FootprintRepeats
    <3>2. Touches' = N
      <4>1. CASE access = 2
        <5>1. access' = 3
          BY <2>1, <4>1
        <5> QED
          BY <2>2, <2>3, <2>4, <2>5, <4>1, <5>1
      <4>2. CASE access = 4
        <5>1. access' = 1
          BY <2>1, <4>2
        <5> QED
          BY <2>2, <2>3, <2>4, <2>5, <4>2, <5>1
      <4> QED
        BY <2>7, <4>1, <4>2
    <3> QED
      BY <3>1, <3>2 DEF Trail
  <2> QED
    BY <2>1, <2>6, <2>7
<1>3. ASSUME NEW p \in Pirates, Steal(p)
      PROVE  Trail'
  <2>1. PICK s \in Sets :
          /\ Use(Spot(p, s, way[p])) /\ way[p] \in 0 .. waysToSteal - 1 /\ waysToSteal \in Nat
    BY <1>3, PirateUses
  <2>2. PICK z \in Lines : z = Spot(p, s, way[p]) /\ z.owner = p /\ Use(z)
    BY <2>1, SpotFacts
  <2>3. Footprint(N)'
    BY <1>1, <2>2, FootprintKept DEF Pirates, Target
  <2>4. Touches' = Touches
    BY <1>3 DEF Steal, icarVars, Touches, TurnsDone
  <2> QED
    BY <1>1, <2>3, <2>4 DEF Trail
<1>4. CASE UNCHANGED vars
  BY <1>1, <1>4 DEF vars, icarVars, Trail, Touches, TurnsDone, Footprint, Used, After
<1> QED
  BY <1>2, <1>3, <1>4 DEF Next

\* The trail is there in every state.
LEMMA TrailCorrect == Spec => []Trail
<1>1. Init => Trail
  <2> SUFFICES ASSUME Init
               PROVE  Trail
    OBVIOUS
  <2>1. \A x \in Lines : ~Used(x)
    <3> TAKE x \in Lines
    <3>1. recency[SetOf(x)] = <<>>
      BY LineInSet DEF Init
    <3> QED
      BY <3>1 DEF Used, Contains
  <2>2. 0 .. 0 - 1 = {}
    OBVIOUS
  <2>3. Footprint(0)
    BY <2>1, <2>2 DEF Footprint
  <2>4. Touches = 0
    <3>1. 0 \div TurnSize = 0 /\ 0 * FullTurns = 0
      BY TurnFacts
    <3> QED
      BY <3>1 DEF Init, Touches, TurnsDone
  <2> QED
    BY <2>3, <2>4 DEF Trail
<1>2. Positions /\ Positions' /\ (Ordered /\ Occupants) /\ Trail /\ [Next]_vars => Trail'
  BY TrailStep
<1> QED
  BY <1>1, <1>2, PositionsCorrect, OccupantsCorrect, PTL DEF Spec


\* A turn begins at a multiple of its size; the line there, and the one behind it.
LEMMA TurnLines ==
  ASSUME NEW k \in Nat
  PROVE  /\ Line(Target, k * TurnSize) = FullLine(k)
         /\ Line(Target, k * TurnSize + 2 * stride) = PartLine(k)
<1> DEFINE b == blkSize
<1>1. b \in Nat \ {0} /\ TurnSize = 2 * b /\ b = 2 * stride /\ 0 \in 0 .. b - 1
  BY TurnFacts
<1> HIDE DEF b
<1>2. k * TurnSize = (2 * k) * b + 0 /\ k * TurnSize + 2 * stride = (2 * k + 1) * b + 0
  <2>1. k * (2 * b) = (2 * k) * b /\ (2 * k + 1) * b = (2 * k) * b + b /\ (2 * k) * b \in Nat
    BY <1>1
  <2> QED
    BY <1>1, <2>1
<1>3. ((2 * k) * b + 0) \div b = 2 * k /\ ((2 * k + 1) * b + 0) \div b = 2 * k + 1
  <2>1. 2 * k \in Nat /\ 2 * k + 1 \in Nat
    OBVIOUS
  <2> QED
    BY <1>1, <2>1, DivOffset
<1> QED
  BY <1>2, <1>3 DEF Line, FullLine, PartLine, b

\* Which lines the two iterations are made of.
LEMMA TurnsAre ==
  /\ \A u \in Turns : \E k \in 0 .. FullTurns - 1 : u = k * TurnSize
  /\ \A k \in 0 .. FullTurns - 1 : k * TurnSize \in Turns
  /\ \A k \in Nat : k * TurnSize < part_size <=> k < PartTurns
<1> DEFINE d == TurnSize
           n == FullTurns
           p == PartTurns
<1>1. /\ d \in Nat \ {0} /\ n \in Nat \ {0} /\ p \in Nat \ {0} /\ p <= n
      /\ full_size = n * d /\ part_size = p * d
  BY TurnFacts
<1>2. Turns = {t \in 0 .. full_size - 1 : t % d = 0}
  BY DEF Turns, TurnSize
<1> HIDE DEF d, n, p
<1>3. \A k, l \in Nat : k * d < l * d <=> k < l
  <2> TAKE k, l \in Nat
  <2>1. k < l => k * d + d <= l * d
    <3>1. k < l => (k + 1) * d <= l * d
      BY <1>1
    <3> QED
      BY <1>1, <3>1
  <2>2. l <= k => l * d <= k * d
    BY <1>1
  <2>3. k * d \in Nat /\ l * d \in Nat
    BY <1>1
  <2> QED
    BY <1>1, <2>1, <2>2, <2>3
<1>4. ASSUME NEW u \in Turns
      PROVE  \E k \in 0 .. n - 1 : u = k * d
  <2>1. u \in Nat /\ u < n * d /\ u % d = 0
    BY <1>1, <1>2
  <2> DEFINE k == u \div d
  <2>2. k \in Nat /\ u = k * d + 0
    BY <1>1, <2>1, DivMod
  <2> HIDE DEF k
  <2>3. k * d \in Nat
    BY <1>1, <2>2
  <2>4. u = k * d
    BY <2>2, <2>3
  <2>5. k < n
    BY <1>1, <1>3, <2>1, <2>2, <2>4
  <2> QED
    BY <1>1, <2>2, <2>4, <2>5
<1>5. ASSUME NEW k \in 0 .. n - 1
      PROVE  k * d \in Turns
  <2>1. k \in Nat /\ k * d \in Nat /\ n * d \in Nat /\ k * d < n * d
    BY <1>1, <1>3
  <2>2. (d * k + 0) % d = 0 % d
    BY <1>1, <2>1, ModOfMultiple
  <2>3. d * k + 0 = k * d /\ 0 % d = 0
    BY <1>1, <2>1
  <2>4. (k * d) % d = 0
    BY <2>2, <2>3
  <2> QED
    BY <1>1, <1>2, <2>1, <2>4
<1>6. \A k \in Nat : k * d < part_size <=> k < p
  BY <1>1, <1>3
<1> QED
  BY <1>4, <1>5, <1>6 DEF d, n, p

\* The lines of icar that fall into a set.
LEMMA LinesOfSet ==
  ASSUME NEW s, NEW x
  PROVE  /\ x \in FullLines(s) <=> \E k \in 0 .. FullTurns - 1 : x = FullLine(k) /\ SetOf(x) = s
         /\ x \in PartLines(s) <=> \E k \in 0 .. PartTurns - 1 : x = PartLine(k) /\ SetOf(x) = s
         /\ x \in Passing(s) <=> \E k \in 0 .. PartTurns - 1 : x = FullLine(k) /\ SetOf(x) = s
<1>0. /\ FullTurns \in Nat /\ PartTurns \in Nat /\ PartTurns <= FullTurns
      /\ \A k \in 0 .. FullTurns - 1 : k \in Nat
      /\ \A k \in 0 .. PartTurns - 1 : k \in 0 .. FullTurns - 1 /\ k < PartTurns
      /\ \A k \in 0 .. FullTurns - 1 : k < PartTurns => k \in 0 .. PartTurns - 1
  BY TurnFacts
<1>1. \A k \in 0 .. FullTurns - 1 :
        /\ Line(Target, k * TurnSize) = FullLine(k)
        /\ Line(Target, k * TurnSize + 2 * stride) = PartLine(k)
        /\ k * TurnSize \in Turns
        /\ k * TurnSize < part_size <=> k < PartTurns
  BY <1>0, TurnLines, TurnsAre
<1>2. \A u \in Turns : \E k \in 0 .. FullTurns - 1 : u = k * TurnSize
  BY TurnsAre
<1>3. x \in FullLines(s) <=> \E k \in 0 .. FullTurns - 1 : x = FullLine(k) /\ SetOf(x) = s
  BY <1>1, <1>2 DEF FullLines
<1>4. x \in PartLines(s) <=> \E k \in 0 .. PartTurns - 1 : x = PartLine(k) /\ SetOf(x) = s
  <2>1. ASSUME x \in PartLines(s)
        PROVE  \E k \in 0 .. PartTurns - 1 : x = PartLine(k) /\ SetOf(x) = s
    <3>1. PICK u \in Turns : u < part_size /\ x = Line(Target, u + 2 * stride) /\ SetOf(x) = s
      BY <2>1 DEF PartLines
    <3>2. PICK k \in 0 .. FullTurns - 1 : u = k * TurnSize
      BY <1>2
    <3>3. k \in 0 .. PartTurns - 1
      BY <1>0, <1>1, <3>1, <3>2
    <3> QED
      BY <1>1, <3>1, <3>2, <3>3
  <2>2. ASSUME NEW k \in 0 .. PartTurns - 1, x = PartLine(k), SetOf(x) = s
        PROVE  x \in PartLines(s)
    <3>1. k * TurnSize \in Turns /\ k * TurnSize < part_size
      BY <1>0, <1>1
    <3>2. x = Line(Target, k * TurnSize + 2 * stride)
      BY <1>0, <1>1, <2>2
    <3>3. k * TurnSize \in {u \in Turns : u < part_size}
      BY <3>1
    <3> HIDE DEF TurnSize
    <3> QED
      BY <2>2, <3>2, <3>3 DEF PartLines
  <2> QED
    BY <2>1, <2>2
<1>5. x \in Passing(s) <=> \E k \in 0 .. PartTurns - 1 : x = FullLine(k) /\ SetOf(x) = s
  <2>1. ASSUME x \in Passing(s)
        PROVE  \E k \in 0 .. PartTurns - 1 : x = FullLine(k) /\ SetOf(x) = s
    <3>1. PICK u \in Turns : u < part_size /\ x = Line(Target, u) /\ SetOf(x) = s
      BY <2>1 DEF Passing
    <3>2. PICK k \in 0 .. FullTurns - 1 : u = k * TurnSize
      BY <1>2
    <3>3. k \in 0 .. PartTurns - 1
      BY <1>0, <1>1, <3>1, <3>2
    <3> QED
      BY <1>1, <3>1, <3>2, <3>3
  <2>2. ASSUME NEW k \in 0 .. PartTurns - 1, x = FullLine(k), SetOf(x) = s
        PROVE  x \in Passing(s)
    <3>1. k * TurnSize \in Turns /\ k * TurnSize < part_size
      BY <1>0, <1>1
    <3>2. x = Line(Target, k * TurnSize)
      BY <1>0, <1>1, <2>2
    <3>3. k * TurnSize \in {u \in Turns : u < part_size /\ SetOf(Line(Target, u)) = s}
      BY <2>2, <3>1, <3>2
    <3> QED
      BY <3>2, <3>3 DEF Passing
  <2> QED
    BY <2>1, <2>2
<1> QED
  BY <1>3, <1>4, <1>5

\* A line of the full iteration is none of the part, and lines differ as their
\* places do.
LEMMA LinesDiffer ==
  ASSUME NEW k \in Nat, NEW l \in Nat
  PROVE  /\ FullLine(k) # PartLine(l)
         /\ FullLine(k) = FullLine(l) => k = l
         /\ PartLine(k) = PartLine(l) => k = l
<1>1. /\ FullLine(k).number = 2 * k /\ FullLine(l).number = 2 * l
      /\ PartLine(k).number = 2 * k + 1 /\ PartLine(l).number = 2 * l + 1
  BY DEF FullLine, PartLine
<1> QED
  BY <1>1

\* The lines of icar that fall into a set are finitely many.
LEMMA IcarLinesFinite ==
  ASSUME NEW s
  PROVE  IsFiniteSet(FullLines(s)) /\ IsFiniteSet(PartLines(s)) /\ IsFiniteSet(Passing(s))
<1> DEFINE f == [k \in 0 .. FullTurns - 1 |-> FullLine(k)]
           p == [k \in 0 .. PartTurns - 1 |-> PartLine(k)]
           q == [k \in 0 .. PartTurns - 1 |-> FullLine(k)]
<1>1. IsFiniteSet(0 .. FullTurns - 1) /\ IsFiniteSet(0 .. PartTurns - 1)
  BY TurnFacts, FS_Interval
<1>2. /\ IsFiniteSet({f[k] : k \in 0 .. FullTurns - 1})
      /\ IsFiniteSet({p[k] : k \in 0 .. PartTurns - 1})
      /\ IsFiniteSet({q[k] : k \in 0 .. PartTurns - 1})
  BY <1>1, ImageNotLarger
<1>3. /\ FullLines(s) \subseteq {f[k] : k \in 0 .. FullTurns - 1}
      /\ PartLines(s) \subseteq {p[k] : k \in 0 .. PartTurns - 1}
      /\ Passing(s) \subseteq {q[k] : k \in 0 .. PartTurns - 1}
  BY LinesOfSet
<1> QED
  BY <1>2, <1>3, FS_Subset

\* A line of the target is in the cache while what the target used after it fits
\* beside the pirates' loot.
LEMMA FewAfter ==
  ASSUME Positions, Ordered, Occupants, experiment.program = "forkTest",
         NEW x \in Lines, Used(x), NEW M, IsFiniteSet(M),
         \A y \in After(x) : y.owner = Target => y \in M,
         Cardinality(M) + experiment.stealWayNum < cacheAssoc
  PROVE  Resident(x)
<1> DEFINE s == SetOf(x)
<1>1. s \in Sets /\ After(x) = Ahead(recency[s], x)
  BY LineInSet DEF After
<1>2. recency[s] \in Seq(Lines) /\ IsInjective(recency[s])
  BY <1>1 DEF Ordered
<1>3. After(x) \subseteq Range(recency[s])
  BY <1>1, <1>2, AheadIsOrder
<1>4. After(x) \subseteq M \union AllLoot(s)
  <2> HIDE DEF s
  <2> QED
    BY <1>1, <1>3, OthersAreLoot
<1>5. /\ IsFiniteSet(AllLoot(s)) /\ Cardinality(AllLoot(s)) \in Nat
      /\ Cardinality(AllLoot(s)) <= waysToSteal * experiment.team
  BY <1>1, LootSize DEF Positions
<1>6. /\ Cardinality(After(x)) \in Nat /\ Cardinality(M) \in Nat
      /\ Cardinality(After(x)) <= Cardinality(M) + Cardinality(AllLoot(s))
  BY <1>4, <1>5, CoveredByTwo
<1>7. /\ waysToSteal * experiment.team <= experiment.stealWayNum
      /\ waysToSteal * experiment.team \in Nat /\ experiment.stealWayNum \in Nat
      /\ cacheAssoc \in Nat
  BY Shares, Geometry DEF Positions
<1> HIDE DEF s
<1>8. Cardinality(After(x)) < cacheAssoc
  BY <1>5, <1>6, <1>7
<1> QED
  BY <1>8 DEF Resident

\* The second element of a line is in the cache: only pirates came between.
LEMMA SecondHits ==
  ASSUME Positions, Ordered, Occupants, Trail, experiment.program = "forkTest",
         experiment.stealWayNum < cacheAssoc, access \in {2, 4}
  PROVE  Resident(Line(Target, arrayIndex))
<1>1. PICK N \in Nat : N = Touches /\ Footprint(N)
  BY DEF Trail
<1>2. N > 0 /\ Line(Target, arrayIndex) = Touched(N - 1)
  BY <1>1, NextTouch
<1>3. N - 1 \in 0 .. N - 1 /\ N - 1 \in Nat /\ (N - 1) + 1 .. N - 1 = {}
  BY <1>2
<1> DEFINE x == Touched(N - 1)
<1>4. x \in Lines /\ x.owner = Target
  BY <1>3, TouchedIsLine
<1>5. Used(x)
  BY <1>1, <1>3, <1>4 DEF Footprint
<1>6. \A y \in After(x) : y.owner # Target
  BY <1>1, <1>3 DEF Footprint
<1> HIDE DEF x
<1>7. IsFiniteSet({}) /\ Cardinality({}) = 0
  BY FS_EmptySet
<1>8. experiment.stealWayNum \in Nat
  BY Shares DEF Positions
<1>9. Resident(x)
  <2>1. Cardinality({}) + experiment.stealWayNum < cacheAssoc
    BY <1>7, <1>8
  <2> QED
    BY <1>4, <1>5, <1>6, <1>7, <2>1, FewAfter
<1> QED
  BY <1>2, <1>9 DEF x

\* Two turns with the same remainder are a whole number of rounds apart.
LEMMA RoundsApart ==
  ASSUME NEW a \in Nat, NEW b \in Nat, NEW n \in Nat \ {0}, a < b, a % n = b % n
  PROVE  a + n <= b
<1>1. /\ a \div n \in Nat /\ a % n \in 0 .. n - 1 /\ a = (a \div n) * n + (a % n)
      /\ b \div n \in Nat /\ b = (b \div n) * n + (b % n)
  BY DivMod
<1> DEFINE p == a \div n
           q == b \div n
           r == a % n
<1>2. p \in Nat /\ q \in Nat /\ r \in Nat /\ a = p * n + r /\ b = q * n + r
  BY <1>1
<1> HIDE DEF p, q, r
<1>3. p + 1 <= q
  <2>1. q <= p => q * n <= p * n
    BY <1>2
  <2>2. p * n \in Nat /\ q * n \in Nat
    BY <1>2
  <2> QED
    BY <1>2, <2>1, <2>2
<1>4. (p + 1) * n <= q * n /\ (p + 1) * n = p * n + n
  BY <1>2, <1>3
<1>5. p * n \in Nat /\ q * n \in Nat
  BY <1>2
<1> QED
  BY <1>2, <1>4, <1>5

\* The turn that used a line one round before turn t.
LEMMA RoundBefore ==
  ASSUME NEW t \in Nat, NEW n \in Nat \ {0}, n <= t
  PROVE  t - n \in Nat /\ (t - n) % n = t % n
<1>1. t - n \in Nat
  OBVIOUS
<1> DEFINE u == t - n
<1>2. (n * 1 + u) % n = u % n
  BY <1>1, ModOfMultiple
<1>3. n * 1 + u = t
  OBVIOUS
<1> QED
  BY <1>1, <1>2, <1>3

\* Every turn of a round is among the last n before turn t.
LEMMA InLastRound ==
  ASSUME NEW t \in Nat, NEW n \in Nat \ {0}, n <= t, NEW k \in 0 .. n - 1
  PROVE  \E u \in t - n .. t - 1 : u \in Nat /\ u % n = k
<1> DEFINE r == t % n
           q == t \div n
<1>1. r \in 0 .. n - 1 /\ q \in Nat /\ t = q * n + r
  BY DivMod
<1> HIDE DEF r, q
<1>2. q * n \in Nat /\ n * q = q * n /\ (q # 0 => n * (q - 1) = q * n - n)
  BY <1>1
<1>3. q # 0
  <2>1. q = 0 => q * n = 0
    OBVIOUS
  <2> QED
    BY <1>1, <2>1
<1>4. CASE k < r
  <2>1. (n * q + k) % n = k % n
    BY <1>1, ModOfMultiple
  <2>2. k % n = k
    OBVIOUS
  <2>3. n * q + k \in t - n .. t - 1 /\ n * q + k \in Nat
    BY <1>1, <1>2, <1>4
  <2> QED
    BY <2>1, <2>2, <2>3
<1>5. CASE ~(k < r)
  <2>1. (n * (q - 1) + k) % n = k % n
    <3>1. q - 1 \in Nat
      BY <1>1, <1>3
    <3> QED
      BY <3>1, ModOfMultiple
  <2>2. k % n = k
    OBVIOUS
  <2>3. n * (q - 1) + k \in t - n .. t - 1 /\ n * (q - 1) + k \in Nat
    <3>1. n * (q - 1) = q * n - n /\ q * n \in Nat /\ t = q * n + r /\ r \in 0 .. n - 1
      BY <1>1, <1>2, <1>3
    <3>2. q * n - n >= 0
      <4>1. 1 <= q => 1 * n <= q * n
        BY <1>1
      <4> QED
        BY <1>1, <1>3, <4>1, <1>2
    <3> QED
      BY <1>5, <3>1, <3>2
  <2> QED
    BY <2>1, <2>2, <2>3
<1> QED
  BY <1>4, <1>5

\* The first element of a line of the full iteration misses when the iteration
\* and the part are too large for a set: since the line was used, a whole round
\* of turns came to all others of the set.
LEMMA FullMisses ==
  ASSUME Positions, Ordered, Trail, access = 1,
         LET s == SetOf(Line(Target, arrayIndex))
         IN Cardinality(FullLines(s) \union PartLines(s)) > cacheAssoc
  PROVE  ~Resident(Line(Target, arrayIndex))
<1>1. PICK N \in Nat : N = Touches /\ Footprint(N)
  BY DEF Trail
<1>2. PICK t \in Nat : t = TurnsDone
  BY PlaceInTurn
<1>3. N = 2 * t /\ Line(Target, arrayIndex) = Touched(N)
  BY <1>1, <1>2, NextTouch
<1> DEFINE n == FullTurns
           k == t % n
           x == FullLine(k)
           s == SetOf(x)
<1>4. n \in Nat \ {0} /\ k \in 0 .. n - 1 /\ k \in Nat
  BY TurnFacts, DivMod
<1>5. Line(Target, arrayIndex) = x
  <2>1. Touched(2 * t) = LineOfTurn(t, FALSE)
    BY TouchesOfTurn
  <2> QED
    BY <1>3, <2>1 DEF LineOfTurn
<1>6. x \in Lines /\ x.owner = Target
  BY <1>4 DEF Lines, FullLine, Target
<1> SUFFICES ASSUME Used(x)
             PROVE  ~(Cardinality(After(x)) < cacheAssoc)
  BY <1>5 DEF Resident
<1>7. \A u \in Nat : /\ Touched(2 * u) = FullLine(u % n)
                     /\ Touched(2 * u + 1) = PartLine((u % n) % PartTurns)
                     /\ u % n \in Nat /\ (u % n) % PartTurns \in Nat
  <2> TAKE u \in Nat
  <2>1. u % n \in Nat
    BY <1>4, DivMod
  <2>2. (u % n) % PartTurns \in Nat
    BY <2>1, TurnFacts, DivMod
  <2> QED
    BY <2>1, <2>2, TouchesOfTurn DEF LineOfTurn
<1> HIDE DEF k, n
<1>8. ASSUME NEW m \in Nat
      PROVE  \E u \in Nat : m = 2 * u \/ m = 2 * u + 1
  <2>1. m \div 2 \in Nat /\ (m = 2 * (m \div 2) \/ m = 2 * (m \div 2) + 1)
    OBVIOUS
  <2> QED
    BY <2>1
<1>9. ASSUME NEW m \in Nat, Touched(m) = x
      PROVE  \E u \in Nat : m = 2 * u /\ u % n = k
  <2>1. PICK u \in Nat : m = 2 * u \/ m = 2 * u + 1
    BY <1>8
  <2>2. m = 2 * u
    <3> SUFFICES ASSUME m = 2 * u + 1
                 PROVE  FALSE
      BY <2>1
    <3>1. x = PartLine((u % n) % PartTurns)
      BY <1>7, <1>9
    <3> QED
      BY <1>4, <1>7, <3>1, LinesDiffer
  <2>3. FullLine(u % n) = FullLine(k)
    BY <1>7, <1>9, <2>2
  <2>4. u % n = k
    BY <1>4, <1>7, <2>3, LinesDiffer
  <2> QED
    BY <2>2, <2>4
<1>10. n <= t
  <2>1. PICK m \in 0 .. N - 1 : Touched(m) = x
    BY <1>1, <1>6 DEF Footprint
  <2>2. PICK u \in Nat : m = 2 * u /\ u % n = k
    BY <1>9, <2>1
  <2>3. u < t
    BY <1>3, <2>1, <2>2
  <2>4. u + n <= t
    BY <1>4, <2>2, <2>3, RoundsApart DEF k
  <2> QED
    BY <1>4, <2>4
<1> DEFINE p == t - n
<1>11. p \in Nat /\ p % n = k /\ p < t
  <2>1. t - n \in Nat /\ (t - n) % n = t % n
    BY <1>4, <1>10, RoundBefore
  <2>2. t - n < t
    BY <1>4
  <2> QED
    BY <2>1, <2>2 DEF k
<1> DEFINE m0 == 2 * p
<1>12. m0 \in 0 .. N - 1 /\ Touched(m0) = x
  BY <1>3, <1>7, <1>11
<1>13. LastTouch(m0, N)
  <2> SUFFICES ASSUME NEW m \in m0 + 1 .. N - 1, Touched(m) = x
               PROVE  FALSE
    BY <1>12 DEF LastTouch
  <2>1. m \in Nat
    BY <1>11
  <2>2. PICK u \in Nat : m = 2 * u /\ u % n = k
    BY <1>9, <2>1
  <2>3. p < u /\ u < t
    BY <1>3, <1>11, <2>2
  <2>4. p + n <= u
    BY <1>4, <1>11, <2>2, <2>3, RoundsApart
  <2> QED
    BY <1>4, <2>3, <2>4
<1> DEFINE other == (FullLines(s) \union PartLines(s)) \ {x}
<1>14. ASSUME NEW y \in other
       PROVE  y \in After(x)
  <2>1. SetOf(y) = s /\ y # x
    BY LinesOfSet
  <2>2. \E m \in m0 + 1 .. N - 1 : Touched(m) = y
    <3>1. CASE y \in FullLines(s)
      <4>1. PICK l \in 0 .. FullTurns - 1 : y = FullLine(l)
        BY <3>1, LinesOfSet
      <4>2. PICK u \in t - n .. t - 1 : u \in Nat /\ u % n = l
        BY <1>4, <1>10, <4>1, InLastRound DEF n
      <4>3. Touched(2 * u) = y
        BY <1>7, <4>1, <4>2
      <4>4. u # p
        BY <1>11, <2>1, <4>1, <4>2
      <4>5. 2 * u \in m0 + 1 .. N - 1
        <5>1. p < u /\ u < t
          BY <1>4, <1>11, <4>2, <4>4
        <5> QED
          BY <1>3, <1>11, <4>2, <5>1
      <4> QED
        BY <4>3, <4>5
    <3>2. CASE y \in PartLines(s)
      <4>1. PICK l \in 0 .. PartTurns - 1 : y = PartLine(l)
        BY <3>2, LinesOfSet
      <4>2. l \in 0 .. n - 1 /\ l \in Nat /\ l % PartTurns = l
        BY <4>1, TurnFacts DEF n
      <4>3. PICK u \in t - n .. t - 1 : u \in Nat /\ u % n = l
        BY <1>4, <1>10, <4>2, InLastRound
      <4>4. Touched(2 * u + 1) = y
        BY <1>7, <4>1, <4>2, <4>3
      <4>5. 2 * u + 1 \in m0 + 1 .. N - 1
        <5>1. p <= u /\ u < t
          BY <1>4, <1>11, <4>3
        <5> QED
          BY <1>3, <1>11, <4>3, <5>1
      <4> QED
        BY <4>4, <4>5
    <3> QED
      BY <3>1, <3>2
  <2>3. PICK m \in m0 + 1 .. N - 1 : Touched(m) = y
    BY <2>2
  <2> HIDE DEF m0, x, s, other
  <2>4. SetOf(Touched(m)) = SetOf(Touched(m0))
    BY <1>12, <2>1, <2>3 DEF s
  <2>5. Touched(m) \in After(Touched(m0))
    BY <1>1, <1>12, <1>13, <2>3, <2>4 DEF Footprint
  <2> QED
    BY <1>12, <2>3, <2>5
<1>15. x \in FullLines(s)
  <2>1. k \in 0 .. FullTurns - 1
    BY <1>4 DEF n
  <2> QED
    BY <2>1, LinesOfSet
<1>16. IsFiniteSet(FullLines(s) \union PartLines(s))
  BY IcarLinesFinite, FS_Union
<1>17. IsFiniteSet(other) /\ Cardinality(other) = Cardinality(FullLines(s) \union PartLines(s)) - 1
  BY <1>15, <1>16, FS_RemoveElement
<1>18. Cardinality(FullLines(s) \union PartLines(s)) > cacheAssoc
  BY <1>5
<1>19. IsFiniteSet(After(x))
  <2>1. SetOf(x) \in Sets
    BY <1>6, LineInSet
  <2>2. recency[SetOf(x)] \in Seq(Lines) /\ IsInjective(recency[SetOf(x)])
    BY <2>1 DEF Ordered
  <2> HIDE DEF x
  <2> QED
    BY <2>2, AheadIsOrder DEF After
<1>20. Cardinality(other) <= Cardinality(After(x))
  BY <1>14, <1>19, FS_Subset
<1>21. /\ Cardinality(After(x)) \in Nat /\ cacheAssoc \in Nat
       /\ Cardinality(FullLines(s) \union PartLines(s)) \in Nat
  BY <1>16, <1>19, Geometry, FS_CardinalityType
<1> HIDE DEF other, s, x
<1> QED
  BY <1>17, <1>18, <1>20, <1>21


\* The part is a whole number of ways, and the full iteration a whole number of
\* parts: in icar.cc 2 MB are four of the ways of the pirates, and 32 MB sixteen
\* parts.
WholeParts == part_size % waySize = 0 /\ full_size % part_size = 0

\* Then the lines of a round of the part are spread over the sets as those of any
\* other round, and the part begins again where the full iteration does.
LEMMA PartTurnFacts ==
  ASSUME WholeParts
  PROVE  /\ FullTurns % PartTurns = 0
         /\ \A k \in Nat : SetOf(FullLine(k % PartTurns)) = SetOf(FullLine(k))
         /\ \A t \in Nat : (t % FullTurns) % PartTurns = t % PartTurns
<1> DEFINE d == TurnSize
           n == FullTurns
           p == PartTurns
           w == NumSets
           b == blkSize
<1>1. /\ d \in Nat \ {0} /\ n \in Nat \ {0} /\ p \in Nat \ {0} /\ p <= n
      /\ full_size = n * d /\ part_size = p * d
      /\ b \in Nat \ {0} /\ d = 2 * b /\ w \in Nat \ {0} /\ waySize = w * b
  BY TurnFacts, Geometry
<1> HIDE DEF d, n, p, w, b
<1>2. n % p = 0
  <2>1. (n * d) % (p * d) = (n % p) * d
    BY <1>1, ModScaled
  <2>2. (n % p) * d = 0
    BY <1>1, <2>1 DEF WholeParts
  <2>3. n % p \in Nat
    BY <1>1, DivMod
  <2> DEFINE r == n % p
  <2> HIDE DEF r
  <2>4. r \in Nat /\ r * d = 0
    BY <2>2, <2>3 DEF r
  <2>5. r = 0
    BY <1>1, <2>4
  <2> QED
    BY <2>5 DEF r
<1>3. (p * 2) % w = 0
  <2>1. part_size = (p * 2) * b /\ p * 2 \in Nat
    BY <1>1
  <2>2. ((p * 2) * b) % (w * b) = ((p * 2) % w) * b
    BY <1>1, <2>1, ModScaled
  <2>3. ((p * 2) % w) * b = 0
    BY <1>1, <2>1, <2>2 DEF WholeParts
  <2>4. (p * 2) % w \in Nat
    BY <1>1, <2>1, DivMod
  <2> DEFINE r == (p * 2) % w
  <2> HIDE DEF r
  <2>5. r \in Nat /\ r * b = 0
    BY <2>3, <2>4 DEF r
  <2>6. r = 0
    BY <1>1, <2>5
  <2> QED
    BY <2>6 DEF r
<1>4. ASSUME NEW k \in Nat
      PROVE  SetOf(FullLine(k % p)) = SetOf(FullLine(k))
  <2> DEFINE r == k % p
  <2>1. r \in Nat /\ r < p
    BY <1>1, DivMod
  <2>2. (k * 2) % (p * 2) = r * 2
    <3>1. 2 \in Nat \ {0}
      OBVIOUS
    <3> QED
      BY <1>1, <3>1, ModScaled
  <2> HIDE DEF r
  <2>3. (r * 2) % (p * 2) = r * 2
    BY <1>1, <2>1
  <2>4. r * 2 \in Nat /\ k * 2 \in Nat /\ p * 2 \in Nat \ {0}
    BY <1>1, <2>1
  <2>5. (r * 2) % w = (k * 2) % w
    <3>1. (r * 2) % (p * 2) = (k * 2) % (p * 2)
      BY <2>2, <2>3
    <3> DEFINE m == p * 2
               x == r * 2
               y == k * 2
    <3>2. m \in Nat \ {0} /\ m % w = 0 /\ x \in Nat /\ y \in Nat /\ x % m = y % m
      BY <1>3, <2>4, <3>1
    <3>3. w \in Nat \ {0}
      BY <1>1
    <3> HIDE DEF m, x, y
    <3>4. x % w = y % w
      BY <3>2, <3>3, ModOfDivisor
    <3> QED
      BY <3>4 DEF x, y
  <2>6. r * 2 = 2 * r /\ k * 2 = 2 * k
    BY <2>1
  <2>7. SetOf(FullLine(r)) = (2 * r) % w /\ SetOf(FullLine(k)) = (2 * k) % w
    BY DEF SetOf, FullLine, w, NumSets
  <2>8. SetOf(FullLine(r)) = SetOf(FullLine(k))
    BY <2>5, <2>6, <2>7
  <2> QED
    BY <2>8 DEF r
<1>5. ASSUME NEW t \in Nat
      PROVE  (t % n) % p = t % p
  <2> DEFINE r == t % n
  <2>1. r \in Nat /\ r < n
    BY <1>1, DivMod
  <2>2. r % n = t % n
    <3>1. r % n = r
      <4> HIDE DEF r
      <4> QED
        BY <1>1, <2>1
    <3> QED
      BY <3>1
  <2>3. r % p = t % p
    BY <1>1, <1>2, <2>1, <2>2, ModOfDivisor
  <2> QED
    BY <2>3
<1> QED
  BY <1>2, <1>4, <1>5 DEF n, p

\* What passes between two uses of a line of the part: the turns of one round of
\* the part came to other lines of it, and to no more lines of the full iteration
\* than its first round does.
LEMMA PartHits ==
  ASSUME WholeParts, Positions, Ordered, Occupants, Trail,
         experiment.program = "forkTest", access = 3, Used(Line(Target, arrayIndex)),
         LET s == SetOf(Line(Target, arrayIndex))
         IN Cardinality(PartLines(s) \union Passing(s)) + experiment.stealWayNum <= cacheAssoc
  PROVE  Resident(Line(Target, arrayIndex))
<1>1. PICK N \in Nat : N = Touches /\ Footprint(N)
  BY DEF Trail
<1>2. PICK t \in Nat : t = TurnsDone
  BY PlaceInTurn
<1>3. N = 2 * t + 1 /\ Line(Target, arrayIndex) = Touched(N)
  BY <1>1, <1>2, NextTouch
<1> DEFINE n == PartTurns
           x == PartLine(t % n)
           s == SetOf(x)
<1>4. n \in Nat \ {0} /\ t % n \in 0 .. n - 1 /\ t % n \in Nat
  BY TurnFacts, DivMod
<1>5. \A u \in Nat : /\ Touched(2 * u) = FullLine(u % FullTurns)
                     /\ Touched(2 * u + 1) = PartLine(u % n)
                     /\ u % FullTurns \in Nat /\ u % n \in Nat
                     /\ (u % FullTurns) % n = u % n
  <2> TAKE u \in Nat
  <2>1. u % FullTurns \in Nat /\ u % n \in Nat
    BY <1>4, TurnFacts, DivMod
  <2>2. (u % FullTurns) % n = u % n
    BY PartTurnFacts
  <2> QED
    BY <2>1, <2>2, TouchesOfTurn DEF LineOfTurn
<1>6. Line(Target, arrayIndex) = x
  BY <1>3, <1>5
<1>7. x \in Lines /\ x.owner = Target /\ Used(x)
  BY <1>4, <1>6 DEF Lines, PartLine, Target
<1>8. ASSUME NEW m \in Nat
      PROVE  \E u \in Nat : m = 2 * u \/ m = 2 * u + 1
  <2>1. m \div 2 \in Nat /\ (m = 2 * (m \div 2) \/ m = 2 * (m \div 2) + 1)
    OBVIOUS
  <2> QED
    BY <2>1
<1> HIDE DEF n
<1>9. n <= t
  <2>1. PICK m \in 0 .. N - 1 : Touched(m) = x
    BY <1>1, <1>7 DEF Footprint
  <2> m \in Nat
    BY <1>3
  <2>2. PICK u \in Nat : m = 2 * u \/ m = 2 * u + 1
    BY <1>8
  <2>3. m = 2 * u + 1
    <3> SUFFICES ASSUME m = 2 * u
                 PROVE  FALSE
      BY <2>2
    <3>1. FullLine(u % FullTurns) = x
      BY <1>5, <2>1
    <3> QED
      BY <1>4, <1>5, <3>1, LinesDiffer
  <2>4. PartLine(u % n) = PartLine(t % n)
    BY <1>5, <2>1, <2>3
  <2>5. u % n = t % n
    BY <1>4, <1>5, <2>4, LinesDiffer
  <2>6. u < t
    BY <1>3, <2>1, <2>3
  <2>7. u + n <= t
    BY <1>4, <2>5, <2>6, RoundsApart
  <2> QED
    BY <1>4, <2>7
<1> DEFINE p == t - n
           m0 == 2 * p + 1
<1>10. p \in Nat /\ p % n = t % n /\ p < t /\ p + n = t
  <2>1. t - n \in Nat /\ (t - n) % n = t % n
    BY <1>4, <1>9, RoundBefore
  <2>2. t - n < t /\ (t - n) + n = t
    BY <1>4
  <2> QED
    BY <2>1, <2>2
<1> HIDE DEF p
<1>11. m0 \in 0 .. N - 1 /\ Touched(m0) = x
  BY <1>3, <1>5, <1>10
<1> DEFINE own == {y \in After(x) : y.owner = Target}
           passed == own \ PartLines(s)
           rest == PartLines(s) \ {x}
<1>12. SetOf(x) \in Sets
  BY <1>7, LineInSet
<1>13. /\ IsFiniteSet(After(x)) /\ x \notin After(x)
       /\ \A y \in After(x) : SetOf(y) = s
  <2>1. recency[SetOf(x)] \in Seq(Lines) /\ IsInjective(recency[SetOf(x)])
    BY <1>12 DEF Ordered
  <2>2. After(x) = Ahead(recency[SetOf(x)], x)
    BY DEF After
  <2> HIDE DEF x
  <2>3. IsFiniteSet(After(x)) /\ x \notin After(x) /\ After(x) \subseteq Range(recency[SetOf(x)])
    BY <2>1, <2>2, AheadIsOrder
  <2> QED
    BY <1>12, <2>3 DEF Ordered
<1>14. ASSUME NEW y \in own
       PROVE  \/ y \in PartLines(s)
              \/ \E u \in Nat : p < u /\ u <= t /\ y = FullLine(u % FullTurns)
  <2>1. PICK m \in m0 + 1 .. N - 1 : Touched(m) = y
    BY <1>1, <1>11 DEF Footprint
  <2>2. m \in Nat
    BY <1>10
  <2>3. PICK u \in Nat : m = 2 * u \/ m = 2 * u + 1
    BY <1>8, <2>2
  <2>4. CASE m = 2 * u
    <3>1. p < u /\ u <= t
      BY <1>3, <1>10, <2>1, <2>4
    <3> QED
      BY <1>5, <2>1, <2>4, <3>1
  <2>5. CASE m = 2 * u + 1
    <3>1. y = PartLine(u % n) /\ SetOf(y) = s
      BY <1>5, <1>13, <2>1, <2>5
    <3>2. u % n \in 0 .. PartTurns - 1
      BY <1>4, DivMod DEF n
    <3> QED
      BY <3>1, <3>2, LinesOfSet
  <2> QED
    BY <2>3, <2>4, <2>5
<1> DEFINE f == [y \in passed |-> FullLine((y.number \div 2) % n)]
<1>15. ASSUME NEW u \in Nat, NEW y \in passed, y = FullLine(u % FullTurns)
       PROVE  f[y] = FullLine(u % n)
  <2> DEFINE k == u % FullTurns
  <2>1. k \in Nat /\ k % n = u % n
    BY <1>5
  <2>2. y.number = 2 * k
    BY <1>15 DEF FullLine
  <2> HIDE DEF k
  <2>3. (2 * k) \div 2 = k
    BY <2>1
  <2> QED
    BY <2>1, <2>2, <2>3
<1>16. ASSUME NEW y \in passed
       PROVE  \E u \in Nat : p < u /\ u <= t /\ y = FullLine(u % FullTurns) /\ SetOf(y) = s
  BY <1>13, <1>14
<1>17. \A y \in passed : f[y] \in Passing(s)
  <2> TAKE y \in passed
  <2>1. PICK u \in Nat : y = FullLine(u % FullTurns) /\ SetOf(y) = s
    BY <1>16
  <2>2. f[y] = FullLine(u % n)
    BY <1>15, <2>1
  <2>3. SetOf(FullLine(u % n)) = s
    <3>1. u % FullTurns \in Nat /\ (u % FullTurns) % n = u % n
      BY <1>5
    <3>2. SetOf(FullLine((u % FullTurns) % PartTurns)) = SetOf(FullLine(u % FullTurns))
      BY <3>1, PartTurnFacts
    <3> QED
      BY <2>1, <3>1, <3>2 DEF n
  <2>4. u % n \in 0 .. PartTurns - 1
    BY <1>4, DivMod DEF n
  <2> HIDE DEF f
  <2> QED
    BY <2>2, <2>3, <2>4, LinesOfSet
<1>18. \A y, z \in passed : f[y] = f[z] => y = z
  <2> TAKE y, z \in passed
  <2> SUFFICES ASSUME f[y] = f[z]
               PROVE  y = z
    OBVIOUS
  <2>1. PICK u \in Nat : p < u /\ u <= t /\ y = FullLine(u % FullTurns)
    BY <1>16
  <2>2. PICK v \in Nat : p < v /\ v <= t /\ z = FullLine(v % FullTurns)
    BY <1>16
  <2>3. FullLine(u % n) = FullLine(v % n)
    BY <1>15, <2>1, <2>2
  <2>4. u % n = v % n
    BY <1>5, <2>3, LinesDiffer
  <2>5. ~(u < v) /\ ~(v < u)
    <3>1. u < v => u + n <= v
      BY <1>4, <2>4, RoundsApart
    <3>2. v < u => v + n <= u
      BY <1>4, <2>4, RoundsApart
    <3> QED
      BY <1>4, <1>10, <2>1, <2>2, <3>1, <3>2
  <2>6. u = v
    BY <2>5
  <2> QED
    BY <2>1, <2>2, <2>6
<1>19. IsFiniteSet(PartLines(s)) /\ IsFiniteSet(Passing(s))
  BY IcarLinesFinite
<1> HIDE DEF f
<1>20. Cardinality(passed) <= Cardinality(Passing(s))
  BY <1>17, <1>18, <1>19, DistinctImagesFit
<1>21. IsFiniteSet(passed)
  BY <1>13, FS_Subset
<1>22. x \in PartLines(s)
  <2>1. t % n \in 0 .. PartTurns - 1
    BY <1>4 DEF n
  <2> QED
    BY <2>1, LinesOfSet
<1>23. IsFiniteSet(rest) /\ Cardinality(rest) = Cardinality(PartLines(s)) - 1
  BY <1>19, <1>22, FS_RemoveElement
<1>24. Cardinality(PartLines(s) \union Passing(s)) = Cardinality(PartLines(s)) + Cardinality(Passing(s))
  <2>1. PartLines(s) \intersect Passing(s) = {}
    <3> SUFFICES ASSUME NEW y, y \in PartLines(s), y \in Passing(s)
                 PROVE  FALSE
      OBVIOUS
    <3>1. PICK k \in 0 .. PartTurns - 1 : y = PartLine(k)
      BY LinesOfSet
    <3>2. PICK l \in 0 .. PartTurns - 1 : y = FullLine(l)
      BY LinesOfSet
    <3>3. k \in Nat /\ l \in Nat
      OBVIOUS
    <3> QED
      BY <3>1, <3>2, <3>3, LinesDiffer
  <2>2. Cardinality({}) = 0
    BY FS_EmptySet
  <2>3. /\ Cardinality(PartLines(s) \union Passing(s)) =
             Cardinality(PartLines(s)) + Cardinality(Passing(s))
               - Cardinality(PartLines(s) \intersect Passing(s))
        /\ Cardinality(PartLines(s)) \in Nat /\ Cardinality(Passing(s)) \in Nat
    BY <1>19, FS_Union, FS_CardinalityType
  <2>4. Cardinality(PartLines(s) \intersect Passing(s)) = 0
    BY <2>1, <2>2
  <2> HIDE DEF s
  <2> QED
    BY <2>3, <2>4
<1> DEFINE M == rest \union passed
<1>25. /\ IsFiniteSet(M) /\ Cardinality(M) \in Nat
       /\ Cardinality(M) <= Cardinality(rest) + Cardinality(passed)
       /\ Cardinality(rest) \in Nat /\ Cardinality(passed) \in Nat
  <2>1. IsFiniteSet(M)
    BY <1>21, <1>23, FS_Union
  <2> HIDE DEF rest, passed
  <2> QED
    BY <1>21, <1>23, <2>1, CoveredByTwo
<1>26. \A y \in After(x) : y.owner = Target => y \in M
  BY <1>13
<1>27. /\ Cardinality(PartLines(s)) \in Nat /\ Cardinality(Passing(s)) \in Nat
       /\ experiment.stealWayNum \in Nat /\ cacheAssoc \in Nat
  BY <1>19, FS_CardinalityType, Shares, Geometry DEF Positions
<1>28. Cardinality(PartLines(s) \union Passing(s)) + experiment.stealWayNum <= cacheAssoc
  BY <1>6
<1> HIDE DEF M, rest, passed, s, own
<1>29. Cardinality(M) + experiment.stealWayNum < cacheAssoc
  BY <1>20, <1>23, <1>24, <1>25, <1>27, <1>28
<1>30. Resident(x)
  <2> HIDE DEF x
  <2> QED
    BY <1>7, <1>25, <1>26, <1>29, FewAfter
<1> QED
  BY <1>6, <1>30

\* WorkingSets: the second element of a line always hits, a line of the part that
\* was used before hits as long as the part and what passes fits into the ways
\* that the pirates leave, and a line of the full iteration always misses if
\* icar's lines do not fit at all, for every geometry, however pirates and icar
\* are interleaved.
THEOREM WorkingSetsCorrect ==
  ASSUME WholeParts
  PROVE  Spec => []WorkingSets
<1>1. Positions /\ (Ordered /\ Occupants) /\ Trail => WorkingSets
  <2> SUFFICES ASSUME Positions, Ordered, Occupants, Trail,
                      IcarRuns, experiment.stealWayNum < cacheAssoc
               PROVE  LET line == Line(Target, arrayIndex)
                          s == SetOf(line)
                      IN /\ access \in {2, 4} => Resident(line)
                         /\ /\ access = 3 /\ Used(line)
                            /\ Cardinality(PartLines(s) \union Passing(s))
                                 + experiment.stealWayNum <= cacheAssoc
                            => Resident(line)
                         /\ access = 1 /\ Cardinality(FullLines(s) \union PartLines(s)) > cacheAssoc
                            => ~Resident(line)
    BY DEF WorkingSets
  <2>1. experiment.program = "forkTest"
    BY DEF IcarRuns
  <2> QED
    BY <2>1, SecondHits, PartHits, FullMisses
<1> QED
  BY <1>1, PositionsCorrect, OccupantsCorrect, TrailCorrect, PTL
=============================================================================
