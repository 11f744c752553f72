-------------------------- MODULE LlvmTracerProofs --------------------------
(***************************************************************************)
(* The LLVM pass and the program that it instruments, for every program of *)
(* any number of blocks of any length, every skip and every access limit.  *)
(*                                                                         *)
(* A block that a loop has transformed is FlattenSeq of short sequences:   *)
(* first, what that puts where; then what each loop makes of a block (it   *)
(* embeds it), the invariant of the pass, and that of the run.             *)
(***************************************************************************)
EXTENDS LlvmTracer, CacheArithmetic, FiniteSetTheorems, SequenceTheorems, TLAPS

-----------------------------------------------------------------------------
(* Sequences, joined.                                                      *)

\* f[i] is the first i sequences of S, joined.
Joins(S, f, n) == f = [i \in 1 .. n |-> IF i = 1 THEN S[i] ELSE f[i-1] \o S[i]]

\* The function that FlattenSeq chooses satisfies its equation at every index, ...
LEMMA JoinsEquation ==
  ASSUME NEW S, NEW f, NEW n \in Nat, Joins(S, f, n)
  PROVE  \A i \in 1 .. n : f[i] = IF i = 1 THEN S[i] ELSE f[i-1] \o S[i]
<1> DEFINE G == [i \in 1 .. n |-> IF i = 1 THEN S[i] ELSE f[i-1] \o S[i]]
<1>1. f = G
  BY DEF Joins
<1>2. \A i \in 1 .. n : G[i] = IF i = 1 THEN S[i] ELSE f[i-1] \o S[i]
  OBVIOUS
<1> HIDE DEF G
<1> QED
  BY <1>1, <1>2

\* ... there is one for every sequence of sequences, ...
LEMMA JoinsExist ==
  ASSUME NEW S, NEW n \in Nat, n >= 1
  PROVE  \E f : Joins(S, f, n)
<1> DEFINE Bad == {m \in Nat : m >= 1 /\ ~\E f : Joins(S, f, m)}
<1> SUFFICES ASSUME Bad # {} PROVE FALSE
  OBVIOUS
<1>1. PICK m \in Bad : \A k \in Bad : m <= k
  <2> HIDE DEF Bad
  <2>1. Bad \subseteq Nat
    BY DEF Bad
  <2> QED
    BY <2>1, LeastExists
<1>2. m # 1
  <2>1. Joins(S, [i \in 1 .. 1 |-> S[i]], 1)
    BY DEF Joins
  <2> QED
    BY <2>1
<1>3. m - 1 \in Nat /\ m - 1 >= 1 /\ m - 1 \notin Bad
  BY <1>1, <1>2
<1>4. PICK g : Joins(S, g, m - 1)
  BY <1>3
<1>8. \A i \in 1 .. m - 1 : g[i] = IF i = 1 THEN S[i] ELSE g[i-1] \o S[i]
  BY <1>3, <1>4, JoinsEquation
<1> DEFINE f == [i \in 1 .. m |-> IF i < m THEN g[i] ELSE g[m-1] \o S[m]]
<1>5. ASSUME NEW i \in 1 .. m
      PROVE  f[i] = IF i = 1 THEN S[i] ELSE f[i-1] \o S[i]
  <2>1. CASE i = m
    <3>1. i - 1 \in 1 .. m /\ i - 1 < m /\ i # 1 /\ ~(i < m)
      BY <1>2, <1>3, <2>1
    <3>2. f[i-1] = g[i-1]
      BY <3>1
    <3>3. f[i] = g[i-1] \o S[i]
      BY <3>1, <2>1
    <3> HIDE DEF f
    <3> QED
      BY <3>1, <3>2, <3>3
  <2>2. CASE i # m
    <3>1. i \in 1 .. m - 1 /\ (i # 1 => i - 1 \in 1 .. m - 1)
      BY <1>3, <2>2
    <3> QED
      BY <3>1, <1>3, <1>8
  <2> QED
    BY <2>1, <2>2
<1>6. f = [i \in 1 .. m |-> f[i]]
  OBVIOUS
<1>7. Joins(S, f, m)
  <2> HIDE DEF f
  <2> QED
    BY <1>5, <1>6 DEF Joins
<1> QED
  BY <1>7

\* ... and FlattenSeq is its last value.
LEMMA FlattenJoins ==
  ASSUME NEW S, Len(S) \in Nat, Len(S) >= 1
  PROVE  \E f : Joins(S, f, Len(S)) /\ FlattenSeq(S) = f[Len(S)]
<1> DEFINE F == CHOOSE f : Joins(S, f, Len(S))
<1>1. Joins(S, F, Len(S))
  BY JoinsExist
<1>2. FlattenSeq(S) = F[Len(S)]
  BY DEF FlattenSeq, Joins
<1> QED
  BY <1>1, <1>2

\* Where the sequences of S lie in F, which joins them.
Layout(S, F, start) ==
  /\ start \in [1 .. Len(S) + 1 -> Nat]
  /\ start[1] = 0 /\ start[Len(S) + 1] = Len(F)
  /\ \A k \in 1 .. Len(S) :
       /\ start[k+1] = start[k] + Len(S[k])
       /\ \A j \in 1 .. Len(S[k]) : F[start[k] + j] = S[k][j]

\* What is where in two sequences joined.
LEMMA JoinedElements ==
  ASSUME NEW X, NEW s \in Seq(X), NEW t \in Seq(X)
  PROVE  /\ s \o t \in Seq(X) /\ Len(s \o t) = Len(s) + Len(t)
         /\ \A p \in 1 .. Len(s) : (s \o t)[p] = s[p]
         /\ \A j \in 1 .. Len(t) : (s \o t)[Len(s) + j] = t[j]
<1>1. Len(s) \in Nat /\ Len(t) \in Nat
  OBVIOUS
<1>2. \A i \in 1 .. Len(s) + Len(t) :
        (s \o t)[i] = IF i <= Len(s) THEN s[i] ELSE t[i - Len(s)]
  BY ConcatProperties
<1>3. s \o t \in Seq(X) /\ Len(s \o t) = Len(s) + Len(t)
  BY ConcatProperties
<1>4. ASSUME NEW p \in 1 .. Len(s)
      PROVE  (s \o t)[p] = s[p]
  BY <1>1, <1>2
<1>5. ASSUME NEW j \in 1 .. Len(t)
      PROVE  (s \o t)[Len(s) + j] = t[j]
  <2>1. /\ Len(s) + j \in 1 .. Len(s) + Len(t) /\ ~(Len(s) + j <= Len(s))
        /\ (Len(s) + j) - Len(s) = j
    BY <1>1
  <2> QED
    BY <1>2, <2>1
<1> QED
  BY <1>3, <1>4, <1>5

\* FlattenSeq puts the sequences of S one behind the other.
LEMMA FlattenLayout ==
  ASSUME NEW X, NEW S \in Seq(Seq(X)), Len(S) >= 1
  PROVE  FlattenSeq(S) \in Seq(X) /\ \E start : Layout(S, FlattenSeq(S), start)
<1> DEFINE n == Len(S)
<1>1. n \in Nat /\ n >= 1 /\ \A k \in 1 .. n : S[k] \in Seq(X)
  OBVIOUS
<1>2. PICK f : Joins(S, f, n) /\ FlattenSeq(S) = f[n]
  BY <1>1, FlattenJoins
<1>3. \A i \in 1 .. n : f[i] = IF i = 1 THEN S[i] ELSE f[i-1] \o S[i]
  BY <1>1, <1>2, JoinsEquation
<1> HIDE DEF n
<1> DEFINE start == [k \in 1 .. n + 1 |-> IF k = 1 THEN 0 ELSE Len(f[k-1])]
           Good(i) == /\ f[i] \in Seq(X)
                      /\ Len(f[i]) = start[i] + Len(S[i])
                      /\ \A k \in 1 .. i : \A j \in 1 .. Len(S[k]) :
                           /\ start[k] + j \in 1 .. Len(f[i])
                           /\ f[i][start[k] + j] = S[k][j]
           Bad == {i \in 1 .. n : ~Good(i)}
<1>4. start[1] = 0 /\ \A k \in 1 .. n : start[k+1] = Len(f[k])
  BY <1>1
<1>5. Good(1)
  <2>1. f[1] = S[1] /\ S[1] \in Seq(X)
    BY <1>1, <1>3
  <2> HIDE DEF start
  <2> QED
    BY <1>1, <1>4, <2>1
<1>6. ASSUME NEW i \in 2 .. n, Good(i-1)
      PROVE  Good(i)
  <2>1. /\ i \in 1 .. n /\ i - 1 \in 1 .. n /\ i # 1
        /\ f[i] = f[i-1] \o S[i] /\ S[i] \in Seq(X) /\ f[i-1] \in Seq(X)
        /\ start[i] = Len(f[i-1])
    <3>1. i \in 1 .. n /\ i - 1 \in 1 .. n /\ i # 1
      BY <1>1
    <3> HIDE DEF start
    <3>2. start[(i-1)+1] = Len(f[i-1]) /\ (i-1)+1 = i
      BY <1>4, <3>1
    <3> QED
      BY <1>1, <1>3, <1>6, <3>1, <3>2
  <2> HIDE DEF start
  <2>2. /\ f[i] \in Seq(X) /\ Len(f[i]) = Len(f[i-1]) + Len(S[i])
        /\ \A p \in 1 .. Len(f[i-1]) : f[i][p] = f[i-1][p]
        /\ \A j \in 1 .. Len(S[i]) : f[i][Len(f[i-1]) + j] = S[i][j]
    <3> DEFINE h == f[i-1]
               t == S[i]
    <3>1. h \in Seq(X) /\ t \in Seq(X) /\ f[i] = h \o t
      BY <2>1
    <3> HIDE DEF h, t
    <3>2. /\ h \o t \in Seq(X) /\ Len(h \o t) = Len(h) + Len(t)
          /\ \A p \in 1 .. Len(h) : (h \o t)[p] = h[p]
          /\ \A j \in 1 .. Len(t) : (h \o t)[Len(h) + j] = t[j]
      BY <3>1, JoinedElements
    <3> QED
      BY <3>1, <3>2 DEF h, t
  <2>3. Len(f[i-1]) \in Nat /\ Len(S[i]) \in Nat
    BY <2>1
  <2>4. ASSUME NEW k \in 1 .. i, NEW j \in 1 .. Len(S[k])
        PROVE  /\ start[k] + j \in 1 .. Len(f[i])
               /\ f[i][start[k] + j] = S[k][j]
    <3>1. CASE k = i
      <4>1. start[k] = Len(f[i-1]) /\ j \in 1 .. Len(S[i])
        BY <2>1, <3>1
      <4>2. f[i][Len(f[i-1]) + j] = S[i][j]
        BY <2>2, <4>1
      <4>3. Len(f[i-1]) + j \in 1 .. Len(f[i])
        <5> DEFINE u == Len(f[i])
                   v == Len(f[i-1])
                   w == Len(S[i])
        <5>1. u = v + w /\ v \in Nat /\ w \in Nat /\ j \in 1 .. w
          BY <2>2, <2>3, <4>1
        <5> HIDE DEF u, v, w
        <5>2. v + j \in 1 .. u
          BY <5>1
        <5> QED
          BY <5>2 DEF u, v
      <4> QED
        BY <4>1, <4>2, <4>3, <3>1
    <3>2. CASE k # i
      <4>1. k \in 1 .. i - 1
        BY <2>1, <3>2
      <4>2. start[k] + j \in 1 .. Len(f[i-1]) /\ f[i-1][start[k] + j] = S[k][j]
        BY <4>1, <1>6
      <4>3. f[i][start[k] + j] = f[i-1][start[k] + j]
        BY <4>2, <2>2
      <4>4. start[k] + j \in 1 .. Len(f[i])
        <5> DEFINE u == Len(f[i])
                   v == Len(f[i-1])
                   w == Len(S[i])
                   x == start[k] + j
        <5>1. u = v + w /\ v \in Nat /\ w \in Nat /\ x \in 1 .. v
          BY <2>2, <2>3, <4>2
        <5> HIDE DEF u, v, w, x
        <5>2. x \in 1 .. u
          BY <5>1
        <5> QED
          BY <5>2 DEF u, x
      <4> QED
        BY <4>2, <4>3, <4>4
    <3> QED
      BY <3>1, <3>2
  <2> QED
    BY <2>1, <2>2, <2>4
<1>7. \A i \in 1 .. n : Good(i)
  <2> HIDE DEF Good
  <2> SUFFICES ASSUME Bad # {} PROVE FALSE
    OBVIOUS
  <2>1. PICK i \in Bad : \A k \in Bad : i <= k
    <3>1. Bad \subseteq Nat
      BY <1>1
    <3> HIDE DEF Bad
    <3> QED
      BY <3>1, LeastExists
  <2>2. i \in 2 .. n /\ i - 1 \notin Bad /\ i - 1 \in 1 .. n
    BY <1>1, <1>5, <2>1
  <2> QED
    BY <1>6, <2>1, <2>2
<1>8. Good(n)
  <2> HIDE DEF Good
  <2> QED
    BY <1>1, <1>7
<1>9. start \in [1 .. n + 1 -> Nat]
  <2>1. ASSUME NEW k \in 1 .. n + 1, k # 1
        PROVE  Len(f[k-1]) \in Nat
    <3>1. k - 1 \in 1 .. n
      BY <1>1, <2>1
    <3> HIDE DEF start
    <3> QED
      BY <3>1, <1>7
  <2> QED
    BY <2>1
<1>10. Layout(S, f[n], start)
  <2>1. ASSUME NEW k \in 1 .. n
        PROVE  /\ start[k+1] = start[k] + Len(S[k])
               /\ \A j \in 1 .. Len(S[k]) : f[n][start[k] + j] = S[k][j]
    <3> HIDE DEF start
    <3> QED
      BY <1>4, <1>7, <1>8
  <2>2. start[n+1] = Len(f[n])
    <3> HIDE DEF start
    <3> QED
      BY <1>1, <1>4
  <2> HIDE DEF start
  <2> QED
    BY <1>4, <1>9, <2>1, <2>2 DEF Layout, n
<1> QED
  BY <1>2, <1>8, <1>10

\* They lie in their order, and there is nothing else in F.
LayoutOrder(S, F, start) ==
  /\ \A k, l \in 1 .. Len(S) + 1 : k < l => start[k+1] <= start[l]
  /\ \A p \in 1 .. Len(F) : \E k \in 1 .. Len(S) : \E j \in 1 .. Len(S[k]) :
       p = start[k] + j

\* So they do not overlap, keep their order, and fill what they are joined to.
LEMMA LayoutFacts ==
  ASSUME NEW S, NEW F, NEW start, Layout(S, F, start),
         Len(S) \in Nat, \A k \in 1 .. Len(S) : Len(S[k]) \in Nat
  PROVE  LayoutOrder(S, F, start)
<1> DEFINE n == Len(S)
<1>1. /\ n \in Nat /\ start \in [1 .. n + 1 -> Nat]
      /\ start[1] = 0 /\ start[n+1] = Len(F)
      /\ \A k \in 1 .. n : start[k+1] = start[k] + Len(S[k]) /\ Len(S[k]) \in Nat
  BY DEF Layout
<1> HIDE DEF n
<1>2. ASSUME NEW k \in 1 .. n + 1, NEW l \in 1 .. n + 1, k < l
      PROVE  start[k+1] <= start[l]
  <2> DEFINE Bad == {m \in 1 .. n + 1 : k < m /\ ~(start[k+1] <= start[m])}
  <2> SUFFICES ASSUME Bad # {} PROVE FALSE
    BY <1>2
  <2>1. PICK m \in Bad : \A h \in Bad : m <= h
    <3>1. Bad \subseteq Nat
      BY <1>1
    <3> HIDE DEF Bad
    <3> QED
      BY <3>1, LeastExists
  <2>2. m # k + 1
    BY <1>1, <2>1
  <2>3. m - 1 \in 1 .. n /\ k < m - 1 /\ m - 1 \notin Bad /\ (m-1)+1 = m
    BY <1>1, <2>1, <2>2
  <2>4. start[m] = start[m-1] + Len(S[m-1]) /\ Len(S[m-1]) \in Nat
    BY <1>1, <2>3
  <2>5. start[k+1] \in Nat /\ start[m] \in Nat /\ start[m-1] \in Nat
    BY <1>1, <2>1, <2>3
  <2>6. start[k+1] <= start[m-1]
    BY <1>1, <2>3
  <2>7. ~(start[k+1] <= start[m])
    BY <2>1
  <2> HIDE DEF Bad
  <2> QED
    BY <2>4, <2>5, <2>6, <2>7
<1>3. ASSUME NEW p \in 1 .. Len(F)
      PROVE  \E k \in 1 .. n : \E j \in 1 .. Len(S[k]) : p = start[k] + j
  <2> DEFINE L == {l \in 1 .. n + 1 : start[l] >= p}
  <2>1. PICK l \in L : \A h \in L : l <= h
    <3>1. L \subseteq Nat /\ n + 1 \in L
      BY <1>1, <1>3
    <3> HIDE DEF L
    <3> QED
      BY <3>1, LeastExists
  <2>2. l # 1
    BY <1>1, <2>1
  <2>3. l - 1 \in 1 .. n /\ l - 1 \notin L /\ (l-1)+1 = l
    BY <1>1, <2>1, <2>2
  <2>4. start[l] = start[l-1] + Len(S[l-1]) /\ Len(S[l-1]) \in Nat /\ start[l-1] \in Nat
    BY <1>1, <2>3
  <2>5. start[l-1] < p /\ p <= start[l]
    BY <1>1, <2>1, <2>3, <2>4
  <2>6. p - start[l-1] \in 1 .. Len(S[l-1]) /\ p = start[l-1] + (p - start[l-1])
    BY <1>1, <2>4, <2>5
  <2> QED
    BY <2>3, <2>6
<1> QED
  BY <1>2, <1>3 DEF n, LayoutOrder

-----------------------------------------------------------------------------
(* What a loop of the pass makes of a block.                               *)

Coded == [kind : Kinds \union Inserted, constants : Nat, own : BOOLEAN]

\* A block, as it is transformed: its end is last and nowhere else.
Block(B) ==
  /\ B \in Seq(Coded) /\ Len(B) >= 1
  /\ \A k \in 1 .. Len(B) : B[k].kind \in Ends <=> k = Len(B)
  /\ \A k \in 1 .. Len(B) : B[k].own \/ B[k].kind \in Inserted

\* F is B with instructions of those kinds added: instruction k is at place[k].
Embeds(B, F, place, kinds) ==
  /\ place \in [1 .. Len(B) -> 1 .. Len(F)]
  /\ \A k, l \in 1 .. Len(B) : k < l => place[k] < place[l]
  /\ \A k \in 1 .. Len(B) : F[place[k]] = B[k]
  /\ \A p \in 1 .. Len(F) : \/ \E k \in 1 .. Len(B) : p = place[k]
                            \/ \E kind \in kinds : F[p] = Added(kind)
  /\ place[Len(B)] = Len(F)

\* F is B with one of the kind behind each instruction of K.
Behind(B, F, place, K, kind) ==
  /\ Embeds(B, F, place, {kind})
  /\ place[1] = 1
  /\ \A k \in 1 .. Len(B) - 1 : place[k+1] = place[k] + IF k \in K THEN 2 ELSE 1
  /\ \A k \in K : F[place[k] + 1] = Added(kind)
  /\ \A p \in 1 .. Len(F) : \/ \E k \in 1 .. Len(B) : p = place[k]
                            \/ \E k \in K : p = place[k] + 1

\* An inserted instruction is not one of the program, no PHI node and no end.
LEMMA AddedFacts ==
  ASSUME NEW kind \in Inserted
  PROVE  /\ Added(kind) \in Coded /\ Added(kind).kind = kind /\ Added(kind).own = FALSE
         /\ kind # "phi" /\ kind \notin Ends
BY DEF Added, Coded, Inserted, Ends

\* What the end of a block says of its indices.
LEMMA BlockFacts ==
  ASSUME NEW B, Block(B)
  PROVE  /\ Len(B) \in Nat /\ Len(B) >= 1 /\ DOMAIN B = 1 .. Len(B)
         /\ \A k \in 1 .. Len(B) : /\ B[k] \in Coded
                                   /\ B[k].own \/ B[k].kind \in Inserted
                                   /\ B[k].kind \in Ends <=> k = Len(B)
         /\ Last(B) = B[Len(B)]
BY DEF Block, Last

\* S is the instructions of B, those of K with one of the kind.
PairsFor(S, B, K, kind) ==
  S = [k \in 1 .. Len(B) |-> IF k \in K THEN <<B[k], Added(kind)>> ELSE <<B[k]>>]

\* A loop that puts one instruction behind some: FlattenSeq of the pairs is that.
LEMMA InsertBehind ==
  ASSUME NEW B, Block(B), NEW K \in SUBSET (1 .. Len(B)), Len(B) \notin K,
         NEW kind \in Inserted, NEW S, PairsFor(S, B, K, kind)
  PROVE  FlattenSeq(S) \in Seq(Coded) /\ \E place : Behind(B, FlattenSeq(S), place, K, kind)
<1> DEFINE n == Len(B)
           F == FlattenSeq(S)
<1>1. n \in Nat /\ n >= 1 /\ \A k \in 1 .. n : B[k] \in Coded
  BY BlockFacts
<1>2. Added(kind) \in Coded
  BY AddedFacts
<1>3. \A k \in 1 .. n : IF k \in K THEN <<B[k], Added(kind)>> \in Seq(Coded)
                       ELSE <<B[k]>> \in Seq(Coded)
  BY <1>1, <1>2
<1>4. S \in Seq(Seq(Coded)) /\ Len(S) = n
  <2>1. S \in [1 .. n -> Seq(Coded)]
    BY <1>3 DEF PairsFor
  <2> QED
    BY <1>1, <2>1
<1>5. F \in Seq(Coded) /\ \E start : Layout(S, F, start)
  BY <1>1, <1>4, FlattenLayout
<1>6. PICK start : Layout(S, F, start)
  BY <1>5
<1>7. \A k \in 1 .. n :
        /\ S[k][1] = B[k]
        /\ k \in K => Len(S[k]) = 2 /\ S[k][2] = Added(kind)
        /\ k \notin K => Len(S[k]) = 1
  BY DEF PairsFor
<1> DEFINE place == [k \in 1 .. n |-> start[k] + 1]
<1> HIDE DEF n, F
<1>8. /\ start \in [1 .. n + 1 -> Nat] /\ start[1] = 0 /\ start[n+1] = Len(F)
      /\ \A k \in 1 .. n : start[k+1] = start[k] + IF k \in K THEN 2 ELSE 1
      /\ \A k \in 1 .. n : \A j \in 1 .. Len(S[k]) : F[start[k] + j] = S[k][j]
  BY <1>4, <1>6, <1>7 DEF Layout
<1>9. /\ \A k, l \in 1 .. n + 1 : k < l => start[k+1] <= start[l]
      /\ \A p \in 1 .. Len(F) : \E k \in 1 .. n : \E j \in 1 .. Len(S[k]) : p = start[k] + j
  <2>1. Len(S) \in Nat /\ \A k \in 1 .. Len(S) : Len(S[k]) \in Nat
    BY <1>1, <1>4
  <2>2. LayoutOrder(S, F, start)
    BY <2>1, <1>6, LayoutFacts, Zenon
  <2> QED
    BY <1>4, <2>2 DEF LayoutOrder
<1>10. \A k \in 1 .. n : place[k] = start[k] + 1
  OBVIOUS
<1>11. ASSUME NEW k \in 1 .. n
       PROVE  /\ place[k] \in 1 .. Len(F) /\ F[place[k]] = B[k]
              /\ k \in K => F[place[k] + 1] = Added(kind)
  <2>1. start[k] \in Nat /\ start[k+1] \in Nat /\ start[n+1] \in Nat
    BY <1>1, <1>8
  <2>2. start[k+1] <= start[n+1]
    <3>1. CASE k = n
      BY <2>1, <3>1
    <3>2. CASE k # n
      BY <1>1, <1>9, <3>2
    <3> QED
      BY <3>1, <3>2
  <2>3. start[k+1] = start[k] + IF k \in K THEN 2 ELSE 1
    BY <1>8
  <2>4. start[k] + 1 \in 1 .. Len(F)
    BY <1>8, <2>1, <2>2, <2>3
  <2>7. \A j \in 1 .. Len(S[k]) : F[start[k] + j] = S[k][j]
    BY <1>8
  <2>8. /\ S[k][1] = B[k]
        /\ k \in K => Len(S[k]) = 2 /\ S[k][2] = Added(kind)
        /\ k \notin K => Len(S[k]) = 1
    BY <1>7
  <2>5. F[start[k] + 1] = B[k]
    <3>1. 1 \in 1 .. Len(S[k])
      BY <2>8
    <3> QED
      BY <2>7, <2>8, <3>1
  <2>6. ASSUME k \in K
        PROVE  F[(start[k] + 1) + 1] = Added(kind)
    <3>1. F[start[k] + 2] = Added(kind)
      <4>1. 2 \in 1 .. Len(S[k])
        BY <2>6, <2>8
      <4> QED
        BY <2>6, <2>7, <2>8, <4>1
    <3>2. start[k] + 2 = (start[k] + 1) + 1
      BY <2>1
    <3> QED
      BY <3>1, <3>2
  <2> HIDE DEF place
  <2> QED
    BY <1>10, <2>4, <2>5, <2>6
<1>12. ASSUME NEW k \in 1 .. n, NEW l \in 1 .. n, k < l
       PROVE  place[k] < place[l]
  <2>1. start[k+1] <= start[l] /\ start[k] \in Nat /\ start[k+1] \in Nat /\ start[l] \in Nat
    BY <1>1, <1>8, <1>9, <1>12
  <2>2. start[k] < start[k+1]
    BY <1>8, <2>1
  <2> QED
    BY <2>1, <2>2, <1>10
<1>13. \A k \in 1 .. n - 1 : place[k+1] = place[k] + IF k \in K THEN 2 ELSE 1
  <2> TAKE k \in 1 .. n - 1
  <2>1. k \in 1 .. n /\ k + 1 \in 1 .. n
    BY <1>1
  <2>2. start[k] \in Nat /\ start[k+1] = start[k] + IF k \in K THEN 2 ELSE 1
    BY <1>1, <1>8, <2>1
  <2>3. place[k] = start[k] + 1 /\ place[k+1] = start[k+1] + 1
    BY <2>1, <1>10
  <2> HIDE DEF place
  <2> QED
    BY <2>2, <2>3
<1>14. place[1] = 1 /\ place[n] = Len(F)
  <2>1. start[n] \in Nat /\ start[n+1] = start[n] + 1
    BY <1>1, <1>8 DEF n
  <2> QED
    BY <2>1, <1>1, <1>8, <1>10
<1>15. ASSUME NEW p \in 1 .. Len(F)
       PROVE  \/ \E k \in 1 .. n : p = place[k]
              \/ \E k \in K : p = place[k] + 1
  <2>0. PICK k \in 1 .. n : \E j \in 1 .. Len(S[k]) : p = start[k] + j
    BY <1>9
  <2>1. PICK j \in 1 .. Len(S[k]) : p = start[k] + j
    BY <2>0
  <2>2. start[k] \in Nat
    BY <1>1, <1>8
  <2>5. (k \in K => Len(S[k]) = 2) /\ (k \notin K => Len(S[k]) = 1)
    BY <1>7
  <2>3. j = 1 \/ (j = 2 /\ k \in K)
    <3> DEFINE w == Len(S[k])
    <3>1. j \in 1 .. w /\ (w = 1 \/ (w = 2 /\ k \in K))
      BY <2>5
    <3> HIDE DEF w
    <3> QED
      BY <3>1
  <2>4. place[k] = start[k] + 1
    BY <1>10
  <2> HIDE DEF place
  <2> QED
    BY <2>1, <2>2, <2>3, <2>4
<1>16. Embeds(B, F, place, {kind})
  <2>1. place \in [1 .. n -> 1 .. Len(F)]
    BY <1>10, <1>11
  <2>2. K \subseteq 1 .. n
    BY DEF n
  <2> HIDE DEF place
  <2> QED
    BY SMTT(60), <2>1, <2>2, <1>11, <1>12, <1>14, <1>15 DEF Embeds, n
<1>17. Behind(B, F, place, K, kind)
  <2>2. K \subseteq 1 .. n
    BY DEF n
  <2> HIDE DEF place
  <2> QED
    BY <2>2, <1>11, <1>13, <1>14, <1>15, <1>16 DEF Behind, n
<1> QED
  BY <1>5, <1>17 DEF F

\* F is B with GEPs in front of the instructions that have constant operands.
Before(B, F, place) ==
  /\ Embeds(B, F, place, {"gep"})
  /\ \A p \in 1 .. Len(F) :
       \/ \E k \in 1 .. Len(B) : p = place[k]
       \/ \E k \in 1 .. Len(B) : /\ B[k].constants # 0
                                 /\ p < place[k] /\ \A l \in 1 .. k - 1 : place[l] < p

\* S is what the instructions of B expand to.
ExpansionOf(S, B) == S = [k \in 1 .. Len(B) |-> Expanded(B, k)]

\* The instructions that a user of constant GEPs expands to: itself, last.
LEMMA ExpandedFacts ==
  ASSUME NEW B, Block(B), NEW k \in 1 .. Len(B)
  PROVE  LET e == Expanded(B, k)
             c == B[k].constants
         IN /\ e \in Seq(Coded) /\ Len(e) = c + 1 /\ c \in Nat
            /\ e[c + 1] = B[k]
            /\ \A j \in 1 .. c : e[j] = Added("gep")
<1> DEFINE c == B[k].constants
           g == [i \in 1 .. c |-> Added("gep")]
<1>1. B[k] \in Coded /\ c \in Nat
  BY BlockFacts DEF Coded
<1>2. Added("gep") \in Coded
  BY AddedFacts DEF Inserted
<1>3. g \in Seq(Coded) /\ Len(g) = c
  BY <1>1, <1>2
<1>4. <<B[k]>> \in Seq(Coded) /\ Len(<<B[k]>>) = 1 /\ <<B[k]>>[1] = B[k]
  BY <1>1
<1>5. \A j \in 1 .. c : g[j] = Added("gep")
  OBVIOUS
<1> HIDE DEF g, c
<1>6. /\ g \o <<B[k]>> \in Seq(Coded) /\ Len(g \o <<B[k]>>) = c + 1
      /\ \A p \in 1 .. c : (g \o <<B[k]>>)[p] = g[p]
      /\ (g \o <<B[k]>>)[c + 1] = B[k]
  <2> DEFINE t == <<B[k]>>
  <2>1. t \in Seq(Coded) /\ Len(t) = 1 /\ t[1] = B[k]
    BY <1>4
  <2> HIDE DEF t
  <2>2. /\ g \o t \in Seq(Coded) /\ Len(g \o t) = Len(g) + Len(t)
        /\ \A p \in 1 .. Len(g) : (g \o t)[p] = g[p]
        /\ \A j \in 1 .. Len(t) : (g \o t)[Len(g) + j] = t[j]
    <3>1. g \in Seq(Coded) /\ t \in Seq(Coded)
      BY <1>3, <2>1
    <3> QED
      BY <3>1, JoinedElements
  <2> QED
    BY <1>1, <1>3, <2>1, <2>2 DEF t
<1>7. Expanded(B, k) = g \o <<B[k]>>
  BY DEF Expanded, g, c
<1> QED
  BY <1>1, <1>5, <1>6, <1>7 DEF c

\* The loop that expands them: FlattenSeq puts each behind its new GEPs.
LEMMA InsertBefore ==
  ASSUME NEW B, Block(B), NEW S, ExpansionOf(S, B)
  PROVE  FlattenSeq(S) \in Seq(Coded) /\ \E place : Before(B, FlattenSeq(S), place)
<1> DEFINE n == Len(B)
           F == FlattenSeq(S)
           c(k) == B[k].constants
<1>1. n \in Nat /\ n >= 1
  BY BlockFacts
<1>2. \A k \in 1 .. n :
        /\ S[k] \in Seq(Coded) /\ Len(S[k]) = c(k) + 1 /\ c(k) \in Nat
        /\ S[k][c(k) + 1] = B[k]
        /\ \A j \in 1 .. c(k) : S[k][j] = Added("gep")
  BY ExpandedFacts DEF ExpansionOf
<1>3. S \in Seq(Seq(Coded)) /\ Len(S) = n
  <2>1. S \in [1 .. n -> Seq(Coded)]
    BY ExpandedFacts DEF ExpansionOf
  <2> QED
    BY <1>1, <2>1
<1> HIDE DEF n, F, c
<1>4. F \in Seq(Coded) /\ \E start : Layout(S, F, start)
  BY <1>1, <1>3, FlattenLayout DEF F
<1>5. PICK start : Layout(S, F, start)
  BY <1>4
<1>6. /\ start \in [1 .. n + 1 -> Nat] /\ start[n+1] = Len(F)
      /\ \A k \in 1 .. n : start[k+1] = start[k] + Len(S[k])
      /\ \A k \in 1 .. n : \A j \in 1 .. Len(S[k]) : F[start[k] + j] = S[k][j]
  BY <1>3, <1>5 DEF Layout
<1>7. LayoutOrder(S, F, start)
  <2>1. Len(S) \in Nat /\ \A k \in 1 .. Len(S) : Len(S[k]) \in Nat
    BY <1>1, <1>3
  <2> QED
    BY <2>1, <1>5, LayoutFacts, Zenon
<1>8. /\ \A k, l \in 1 .. n + 1 : k < l => start[k+1] <= start[l]
      /\ \A p \in 1 .. Len(F) : \E k \in 1 .. n : \E j \in 1 .. Len(S[k]) : p = start[k] + j
  BY <1>3, <1>7 DEF LayoutOrder
<1> DEFINE place == [k \in 1 .. n |-> start[k+1]]
<1>9. \A k \in 1 .. n : /\ place[k] = start[k+1] /\ start[k] \in Nat /\ start[k+1] \in Nat
                        /\ start[k+1] = (start[k] + c(k)) + 1
  <2> TAKE k \in 1 .. n
  <2>1. start[k] \in Nat /\ start[k+1] \in Nat /\ start[k+1] = start[k] + Len(S[k])
    BY <1>1, <1>6
  <2>2. Len(S[k]) = c(k) + 1 /\ c(k) \in Nat
    BY <1>2
  <2> QED
    BY <2>1, <2>2
<1>10. place[n] = Len(F)
  BY <1>1, <1>6
<1> HIDE DEF place
<1>11. ASSUME NEW k \in 1 .. n
       PROVE  place[k] \in 1 .. Len(F) /\ F[place[k]] = B[k]
  <2>1. start[k+1] <= start[n+1]
    <3>1. CASE k = n
      BY <1>1, <1>9, <3>1
    <3>2. CASE k # n
      BY <1>1, <1>8, <3>2
    <3> QED
      BY <3>1, <3>2
  <2>2. start[k] + (c(k) + 1) = place[k]
    BY <1>2, <1>9
  <2>3. c(k) + 1 \in 1 .. Len(S[k])
    BY <1>2
  <2>4. F[start[k] + (c(k) + 1)] = S[k][c(k) + 1]
    BY <1>6, <2>3
  <2>5. F[place[k]] = B[k]
    BY <1>2, <2>2, <2>4
  <2>6. place[k] \in 1 .. Len(F)
    <3>1. start[n+1] \in Nat
      BY <1>1, <1>6
    <3>2. place[k] = (start[k] + c(k)) + 1 /\ start[k] \in Nat /\ c(k) \in Nat
      BY <1>2, <1>9
    <3> QED
      BY <1>6, <1>9, <2>1, <3>1, <3>2
  <2> QED
    BY <2>5, <2>6
<1>12. ASSUME NEW k \in 1 .. n, NEW l \in 1 .. n, k < l
       PROVE  place[k] < place[l] /\ place[k] <= start[l]
  <2>1. start[k+1] <= start[l]
    BY <1>1, <1>8, <1>12
  <2>2. /\ place[l] = (start[l] + c(l)) + 1 /\ start[l] \in Nat /\ c(l) \in Nat
        /\ place[k] = start[k+1] /\ start[k+1] \in Nat
    BY <1>2, <1>9
  <2> QED
    BY <2>1, <2>2
<1>13. ASSUME NEW p \in 1 .. Len(F)
       PROVE  \/ \E k \in 1 .. n : p = place[k]
              \/ \E k \in 1 .. n : /\ c(k) # 0 /\ F[p] = Added("gep")
                                   /\ p < place[k] /\ \A l \in 1 .. k - 1 : place[l] < p
  <2>1. PICK k \in 1 .. n : \E j \in 1 .. Len(S[k]) : p = start[k] + j
    BY <1>8
  <2>2. PICK j \in 1 .. Len(S[k]) : p = start[k] + j
    BY <2>1
  <2>3. /\ Len(S[k]) = c(k) + 1 /\ c(k) \in Nat /\ start[k] \in Nat
        /\ place[k] = (start[k] + c(k)) + 1
    BY <1>2, <1>9
  <2>4. j \in 1 .. c(k) + 1
    BY <2>3
  <2>5. CASE j = c(k) + 1
    BY <2>2, <2>3, <2>5
  <2>6. CASE j # c(k) + 1
    <3>1. j \in 1 .. c(k) /\ c(k) # 0 /\ p < place[k] /\ start[k] < p
      BY <2>2, <2>3, <2>4, <2>6
    <3>2. F[p] = Added("gep")
      <4>1. F[start[k] + j] = S[k][j]
        BY <1>6
      <4>2. S[k][j] = Added("gep")
        BY <1>2, <3>1
      <4> QED
        BY <2>2, <4>1, <4>2
    <3>3. ASSUME NEW l \in 1 .. k - 1
          PROVE  place[l] < p
      <4>1. l \in 1 .. n /\ l < k
        BY <1>1
      <4>2. place[l] <= start[k] /\ place[l] = start[l+1] /\ start[l+1] \in Nat
        BY <1>9, <1>12, <4>1
      <4> QED
        BY <4>2, <3>1, <2>2, <2>3
    <3> QED
      BY <3>1, <3>2, <3>3
  <2> QED
    BY <2>5, <2>6
<1>14. Embeds(B, F, place, {"gep"})
  <2>1. place \in [1 .. n -> 1 .. Len(F)]
    <3>1. DOMAIN place = 1 .. n /\ place = [k \in 1 .. n |-> place[k]]
      BY DEF place
    <3> QED
      BY <1>11, <3>1
  <2>2. \A k, l \in 1 .. n : k < l => place[k] < place[l]
    BY <1>12
  <2>3. \A p \in 1 .. Len(F) : \/ \E k \in 1 .. n : p = place[k]
                               \/ \E kind \in {"gep"} : F[p] = Added(kind)
    BY <1>13
  <2> QED
    BY <2>1, <2>2, <2>3, <1>10, <1>11 DEF Embeds, n
<1>15. Before(B, F, place)
  <2>1. \A p \in 1 .. Len(F) :
          \/ \E k \in 1 .. n : p = place[k]
          \/ \E k \in 1 .. n : /\ B[k].constants # 0
                               /\ p < place[k] /\ \A l \in 1 .. k - 1 : place[l] < p
    BY <1>13 DEF c
  <2> QED
    BY <1>14, <2>1 DEF Before, n
<1> QED
  BY <1>4, <1>15 DEF F

\* What follows from that for two blocks.
Embedded(B, F, place, kinds) ==
  /\ \A k \in 1 .. Len(B) : place[k] \in 1 .. Len(F) /\ F[place[k]] = B[k]
  /\ \A k, l \in 1 .. Len(B) : place[k] <= place[l] => k <= l
  /\ \A k, l \in 1 .. Len(B) : place[k] = place[l] => k = l
  /\ \A p \in 1 .. Len(F) : \/ \E k \in 1 .. Len(B) : p = place[k]
                            \/ ~F[p].own /\ F[p].kind \in kinds
  /\ place[Len(B)] = Len(F) /\ Len(F) \in Nat /\ Len(F) >= 1

\* Whatever is added, the instructions keep their places apart and in order.
LEMMA EmbedsFacts ==
  ASSUME NEW B, Block(B), NEW F \in Seq(Coded), NEW place, NEW kinds \in SUBSET Inserted,
         Embeds(B, F, place, kinds)
  PROVE  Embedded(B, F, place, kinds)
<1>1. Len(B) \in Nat /\ Len(B) >= 1 /\ Len(F) \in Nat
  BY BlockFacts
<1>2. /\ \A k \in 1 .. Len(B) : place[k] \in 1 .. Len(F) /\ F[place[k]] = B[k]
      /\ \A k, l \in 1 .. Len(B) : k < l => place[k] < place[l]
      /\ place[Len(B)] = Len(F)
  BY DEF Embeds
<1>3. \A k, l \in 1 .. Len(B) : place[k] <= place[l] => k <= l
  <2> TAKE k, l \in 1 .. Len(B)
  <2>1. l < k => place[l] < place[k]
    BY <1>2
  <2>2. place[k] \in 1 .. Len(F) /\ place[l] \in 1 .. Len(F)
    BY <1>2
  <2> QED
    BY <1>1, <2>1, <2>2
<1>4. \A k, l \in 1 .. Len(B) : place[k] = place[l] => k = l
  <2> TAKE k, l \in 1 .. Len(B)
  <2>1. (l < k => place[l] < place[k]) /\ (k < l => place[k] < place[l])
    BY <1>2
  <2>2. place[k] \in 1 .. Len(F) /\ place[l] \in 1 .. Len(F)
    BY <1>2
  <2> QED
    BY <1>1, <2>1, <2>2
<1>5. \A p \in 1 .. Len(F) : \/ \E k \in 1 .. Len(B) : p = place[k]
                             \/ ~F[p].own /\ F[p].kind \in kinds
  <2> TAKE p \in 1 .. Len(F)
  <2>1. (\E k \in 1 .. Len(B) : p = place[k]) \/ \E kind \in kinds : F[p] = Added(kind)
    BY DEF Embeds
  <2>2. CASE \E kind \in kinds : F[p] = Added(kind)
    <3>1. PICK kind \in kinds : F[p] = Added(kind)
      BY <2>2
    <3>2. F[p].kind = kind /\ F[p].own = FALSE
      BY <3>1, AddedFacts
    <3> QED
      BY <3>2
  <2> QED
    BY <2>1, <2>2
<1>6. Len(F) >= 1
  <2>1. Len(B) \in 1 .. Len(B)
    BY <1>1
  <2> QED
    BY <1>1, <1>2, <2>1
<1> QED
  BY <1>1, <1>2, <1>3, <1>4, <1>5, <1>6 DEF Embedded

\* A block to which instructions were added is a block, ...
LEMMA EmbedsBlock ==
  ASSUME NEW B, Block(B), NEW F \in Seq(Coded), NEW place, NEW kinds \in SUBSET Inserted,
         Embeds(B, F, place, kinds)
  PROVE  Block(F)
<1>1. /\ \A k \in 1 .. Len(B) : place[k] \in 1 .. Len(F) /\ F[place[k]] = B[k]
      /\ \A k, l \in 1 .. Len(B) : place[k] = place[l] => k = l
      /\ \A p \in 1 .. Len(F) : \/ \E k \in 1 .. Len(B) : p = place[k]
                                \/ ~F[p].own /\ F[p].kind \in kinds
      /\ place[Len(B)] = Len(F) /\ Len(F) \in Nat /\ Len(F) >= 1
  BY EmbedsFacts DEF Embedded
<1>2. /\ Len(B) \in 1 .. Len(B)
      /\ \A k \in 1 .. Len(B) : /\ B[k].own \/ B[k].kind \in Inserted
                                /\ B[k].kind \in Ends <=> k = Len(B)
  BY BlockFacts
<1>3. \A kind \in kinds : kind \notin Ends
  BY AddedFacts
<1>4. ASSUME NEW p \in 1 .. Len(F)
      PROVE  (F[p].kind \in Ends <=> p = Len(F)) /\ (F[p].own \/ F[p].kind \in Inserted)
  <2>1. CASE \E k \in 1 .. Len(B) : p = place[k]
    <3>1. PICK k \in 1 .. Len(B) : p = place[k]
      BY <2>1
    <3>2. F[p] = B[k]
      BY <1>1, <3>1
    <3>3. p = Len(F) <=> k = Len(B)
      BY <1>1, <1>2, <3>1
    <3> QED
      BY <1>2, <3>2, <3>3
  <2>2. CASE ~\E k \in 1 .. Len(B) : p = place[k]
    <3>1. ~F[p].own /\ F[p].kind \in kinds
      BY <1>1, <2>2
    <3>2. p # Len(F)
      BY <1>1, <1>2, <2>2
    <3> QED
      BY <1>3, <3>1, <3>2
  <2> QED
    BY <2>1, <2>2
<1> QED
  BY <1>1, <1>4 DEF Block

\* The program's instructions P lie in B in their order, and no other own ones.
Keeps(P, B, at_) ==
  /\ at_ \in [1 .. Len(P) -> 1 .. Len(B)]
  /\ \A i, j \in 1 .. Len(P) : i < j => at_[i] < at_[j]
  /\ \A i \in 1 .. Len(P) : B[at_[i]] = Own(P[i])
  /\ \A k \in 1 .. Len(B) : B[k].own => \E i \in 1 .. Len(P) : k = at_[i]

\* ... still has the instructions of the program, in their order, ...
LEMMA EmbedsKeeps ==
  ASSUME NEW B, Block(B), NEW F \in Seq(Coded), NEW place, NEW kinds \in SUBSET Inserted,
         Embeds(B, F, place, kinds),
         NEW P, NEW at_, Keeps(P, B, at_)
  PROVE  \E e : Keeps(P, F, e)
<1>1. /\ \A k \in 1 .. Len(B) : place[k] \in 1 .. Len(F) /\ F[place[k]] = B[k]
      /\ \A p \in 1 .. Len(F) : \/ \E k \in 1 .. Len(B) : p = place[k]
                                \/ ~F[p].own /\ F[p].kind \in kinds
  BY EmbedsFacts DEF Embedded
<1>2. \A k, l \in 1 .. Len(B) : k < l => place[k] < place[l]
  BY DEF Embeds
<1> DEFINE e == [i \in 1 .. Len(P) |-> place[at_[i]]]
<1>3. \A i \in 1 .. Len(P) : at_[i] \in 1 .. Len(B) /\ B[at_[i]] = Own(P[i])
  BY DEF Keeps
<1>4. e \in [1 .. Len(P) -> 1 .. Len(F)]
  BY <1>1, <1>3
<1>5. \A i \in 1 .. Len(P) : e[i] = place[at_[i]]
  OBVIOUS
<1> HIDE DEF e
<1>6. \A i, j \in 1 .. Len(P) : i < j => e[i] < e[j]
  BY <1>2, <1>3, <1>5 DEF Keeps
<1>7. \A i \in 1 .. Len(P) : F[e[i]] = Own(P[i])
  BY <1>1, <1>3, <1>5
<1>8. ASSUME NEW p \in 1 .. Len(F), F[p].own
      PROVE  \E i \in 1 .. Len(P) : p = e[i]
  <2>1. PICK k \in 1 .. Len(B) : p = place[k]
    BY <1>1, <1>8
  <2>2. B[k].own
    BY <1>1, <1>8, <2>1
  <2>3. PICK i \in 1 .. Len(P) : k = at_[i]
    BY <2>2 DEF Keeps
  <2> QED
    BY <1>5, <2>1, <2>3
<1> QED
  BY <1>4, <1>6, <1>7, <1>8 DEF Keeps

\* The load of the counter: one in what returns from main, none elsewhere.
LoadsPlaced(b, B) ==
  IF b \in Main /\ B[Len(B)].kind = "return"
  THEN \E k \in 1 .. Len(B) : \A j \in 1 .. Len(B) : B[j].kind = "load" <=> j = k
  ELSE \A j \in 1 .. Len(B) : B[j].kind # "load"

NoneOf(B, kinds) == \A k \in 1 .. Len(B) : B[k].kind \notin kinds

\* ... has the load where it was, unless loads were added, ...
LEMMA EmbedsLoads ==
  ASSUME NEW B, Block(B), NEW F \in Seq(Coded), NEW place, NEW kinds \in SUBSET Inserted,
         Embeds(B, F, place, kinds), "load" \notin kinds,
         NEW b, LoadsPlaced(b, B)
  PROVE  LoadsPlaced(b, F)
<1>1. /\ \A k \in 1 .. Len(B) : place[k] \in 1 .. Len(F) /\ F[place[k]] = B[k]
      /\ \A k, l \in 1 .. Len(B) : place[k] = place[l] => k = l
      /\ \A p \in 1 .. Len(F) : \/ \E k \in 1 .. Len(B) : p = place[k]
                                \/ ~F[p].own /\ F[p].kind \in kinds
      /\ place[Len(B)] = Len(F)
  BY EmbedsFacts DEF Embedded
<1>2. F[Len(F)] = B[Len(B)]
  <2>1. Len(B) \in 1 .. Len(B)
    BY BlockFacts
  <2> QED
    BY <1>1, <2>1
<1>3. \A p \in 1 .. Len(F) : F[p].kind = "load" => \E k \in 1 .. Len(B) : p = place[k]
  BY <1>1
<1>4. CASE b \in Main /\ B[Len(B)].kind = "return"
  <2>1. PICK k \in 1 .. Len(B) : \A j \in 1 .. Len(B) : B[j].kind = "load" <=> j = k
    BY <1>4 DEF LoadsPlaced
  <2>2. \A p \in 1 .. Len(F) : F[p].kind = "load" <=> p = place[k]
    <3> TAKE p \in 1 .. Len(F)
    <3>1. F[place[k]].kind = "load"
      BY <1>1, <2>1
    <3>2. ASSUME F[p].kind = "load"
          PROVE  p = place[k]
      <4>1. PICK j \in 1 .. Len(B) : p = place[j]
        BY <1>3, <3>2
      <4>2. B[j].kind = "load"
        BY <1>1, <3>2, <4>1
      <4> QED
        BY <2>1, <4>1, <4>2
    <3> QED
      BY <3>1, <3>2
  <2>3. place[k] \in 1 .. Len(F)
    BY <1>1
  <2> QED
    BY <1>2, <1>4, <2>2, <2>3 DEF LoadsPlaced
<1>5. CASE ~(b \in Main /\ B[Len(B)].kind = "return")
  <2>1. \A j \in 1 .. Len(B) : B[j].kind # "load"
    BY <1>5 DEF LoadsPlaced
  <2>2. \A p \in 1 .. Len(F) : F[p].kind # "load"
    BY <1>1, <1>3, <2>1
  <2> QED
    BY <1>2, <1>5, <2>2 DEF LoadsPlaced
<1> QED
  BY <1>4, <1>5

\* ... and nothing of a kind that was not added.
LEMMA EmbedsNoneOf ==
  ASSUME NEW B, Block(B), NEW F \in Seq(Coded), NEW place, NEW kinds \in SUBSET Inserted,
         Embeds(B, F, place, kinds),
         NEW others, NoneOf(B, others), others \intersect kinds = {}
  PROVE  NoneOf(F, others)
<1>1. /\ \A k \in 1 .. Len(B) : F[place[k]] = B[k]
      /\ \A p \in 1 .. Len(F) : \/ \E k \in 1 .. Len(B) : p = place[k]
                                \/ ~F[p].own /\ F[p].kind \in kinds
  BY EmbedsFacts DEF Embedded
<1> QED
  BY <1>1 DEF NoneOf

\* PHI nodes stay first: nothing is put behind one, ...
LEMMA BehindPhis ==
  ASSUME NEW B, Block(B), NEW F \in Seq(Coded), NEW place, NEW K \in SUBSET (1 .. Len(B)),
         NEW kind \in Inserted, Behind(B, F, place, K, kind),
         \A k \in K : B[k].kind # "phi", PhisLead(B)
  PROVE  PhisLead(F)
<1>1. Embeds(B, F, place, {kind}) /\ {kind} \in SUBSET Inserted
  BY DEF Behind
<1>2. /\ \A k \in 1 .. Len(B) : place[k] \in 1 .. Len(F) /\ F[place[k]] = B[k]
      /\ \A k, l \in 1 .. Len(B) : place[k] <= place[l] => k <= l
      /\ \A p \in 1 .. Len(F) : \/ \E k \in 1 .. Len(B) : p = place[k]
                                \/ ~F[p].own /\ F[p].kind \in {kind}
      /\ Len(F) \in Nat
  <2>1. Embedded(B, F, place, {kind})
    BY <1>1, EmbedsFacts, Zenon
  <2> QED
    BY <2>1 DEF Embedded
<1>3. \A p \in 1 .. Len(F) : \/ \E k \in 1 .. Len(B) : p = place[k]
                             \/ \E k \in K : p = place[k] + 1
  BY DEF Behind
<1>4. DOMAIN B = 1 .. Len(B) /\ DOMAIN F = 1 .. Len(F) /\ kind # "phi" /\ Len(B) \in Nat
  <2>1. DOMAIN B = 1 .. Len(B) /\ Len(B) \in Nat
    BY BlockFacts
  <2>2. kind # "phi"
    BY AddedFacts
  <2> QED
    BY <2>1, <2>2
<1>5. \A k \in 1 .. Len(B) : B[k].kind = "phi" => \A j \in 1 .. k : B[j].kind = "phi"
  BY <1>4 DEF PhisLead
<1>6. SUFFICES ASSUME NEW p \in 1 .. Len(F), F[p].kind = "phi", NEW q \in 1 .. p
               PROVE  F[q].kind = "phi"
  BY <1>4 DEF PhisLead
<1>7. PICK k \in 1 .. Len(B) : p = place[k]
  BY <1>2, <1>4, <1>6
<1>8. B[k].kind = "phi"
  BY <1>2, <1>6, <1>7
<1>9. q \in 1 .. Len(F) /\ q <= place[k]
  BY <1>2, <1>7
<1>10. ASSUME NEW l \in 1 .. Len(B), place[l] <= place[k]
       PROVE  B[l].kind = "phi"
  <2>1. l \in 1 .. k
    BY <1>2, <1>4, <1>10
  <2> QED
    BY <1>5, <1>8, <2>1
<1>11. CASE \E l \in 1 .. Len(B) : q = place[l]
  BY <1>2, <1>9, <1>10, <1>11
<1>12. CASE \E l \in K : q = place[l] + 1
  <2>1. PICK l \in K : q = place[l] + 1
    BY <1>12
  <2>2. l \in 1 .. Len(B) /\ place[l] \in 1 .. Len(F) /\ place[k] \in 1 .. Len(F)
    BY <1>2
  <2>3. place[l] <= place[k]
    BY <1>9, <2>1, <2>2
  <2> QED
    BY <1>10, <2>2, <2>3
<1> QED
  BY <1>3, <1>9, <1>11, <1>12

\* ... and nothing in front of one that has no operand to expand.
LEMMA BeforePhis ==
  ASSUME NEW B, Block(B), NEW F \in Seq(Coded), NEW place, Before(B, F, place),
         \A k \in 1 .. Len(B) : B[k].kind = "phi" => B[k].constants = 0, PhisLead(B)
  PROVE  PhisLead(F)
<1>1. Embeds(B, F, place, {"gep"}) /\ {"gep"} \in SUBSET Inserted
  BY DEF Before, Inserted
<1>2. /\ \A k \in 1 .. Len(B) : place[k] \in 1 .. Len(F) /\ F[place[k]] = B[k]
      /\ \A k, l \in 1 .. Len(B) : place[k] <= place[l] => k <= l
      /\ \A p \in 1 .. Len(F) : \/ \E k \in 1 .. Len(B) : p = place[k]
                                \/ ~F[p].own /\ F[p].kind \in {"gep"}
      /\ Len(F) \in Nat
  <2>1. Embedded(B, F, place, {"gep"})
    BY <1>1, EmbedsFacts, Zenon
  <2> QED
    BY <2>1 DEF Embedded
<1>3. \A p \in 1 .. Len(F) :
       \/ \E k \in 1 .. Len(B) : p = place[k]
       \/ \E k \in 1 .. Len(B) : /\ B[k].constants # 0
                                 /\ p < place[k] /\ \A l \in 1 .. k - 1 : place[l] < p
  BY DEF Before
<1>4. DOMAIN B = 1 .. Len(B) /\ DOMAIN F = 1 .. Len(F) /\ Len(B) \in Nat
  BY BlockFacts
<1>5. \A k \in 1 .. Len(B) : B[k].kind = "phi" => \A j \in 1 .. k : B[j].kind = "phi"
  BY <1>4 DEF PhisLead
<1>6. SUFFICES ASSUME NEW p \in 1 .. Len(F), F[p].kind = "phi", NEW q \in 1 .. p
               PROVE  F[q].kind = "phi"
  BY <1>4 DEF PhisLead
<1>7. PICK k \in 1 .. Len(B) : p = place[k]
  BY <1>2, <1>6
<1>8. B[k].kind = "phi"
  BY <1>2, <1>6, <1>7
<1>9. q \in 1 .. Len(F) /\ q <= place[k]
  BY <1>2, <1>7
<1>10. ASSUME NEW l \in 1 .. Len(B), place[l] <= place[k] \/ l <= k
       PROVE  B[l].kind = "phi"
  <2>1. l \in 1 .. k
    BY <1>2, <1>4, <1>10
  <2> QED
    BY <1>5, <1>8, <2>1
<1>11. CASE \E l \in 1 .. Len(B) : q = place[l]
  BY <1>2, <1>9, <1>10, <1>11
<1>12. CASE \E l \in 1 .. Len(B) : /\ B[l].constants # 0
                                  /\ q < place[l] /\ \A h \in 1 .. l - 1 : place[h] < q
  <2>1. PICK l \in 1 .. Len(B) : /\ B[l].constants # 0
                                 /\ q < place[l] /\ \A h \in 1 .. l - 1 : place[h] < q
    BY <1>12
  <2>2. l <= k
    <3>1. SUFFICES ASSUME k < l PROVE FALSE
      BY <1>4
    <3>2. k \in 1 .. l - 1
      BY <1>4, <3>1
    <3>3. place[k] < q /\ place[k] \in 1 .. Len(F)
      BY <1>2, <2>1, <3>2
    <3> QED
      BY <1>9, <3>3
  <2> QED
    BY <1>10, <2>1, <2>2
<1> QED
  BY <1>3, <1>9, <1>11, <1>12

\* The count is behind every instruction but PHI nodes and the last, and only
\* there.
CountsPlaced(B) ==
  /\ B[1].kind # "count"
  /\ \A k \in 1 .. Len(B) - 1 :
       B[k+1].kind = "count" <=> B[k].kind \notin {"phi", "count"}

\* The call is between a GEP and its count, and only there.
CallsPlaced(B) ==
  /\ B[1].kind \notin {"count", "trace"}
  /\ \A k \in 1 .. Len(B) - 1 :
       /\ B[k+1].kind = "trace" <=> B[k].kind = "gep"
       /\ B[k+1].kind = "count" <=> B[k].kind \notin {"phi", "gep", "count"}

\* What follows an instruction in a block that was inserted behind.
NextIn(B, F, K, kind) ==
  /\ F[1] = B[1]
  /\ \A p \in 1 .. Len(F) - 1 : \E k \in 1 .. Len(B) - 1 :
       \/ k \in K /\ F[p] = B[k] /\ F[p+1] = Added(kind)
       \/ k \in K /\ F[p] = Added(kind) /\ F[p+1] = B[k+1]
       \/ k \notin K /\ F[p] = B[k] /\ F[p+1] = B[k+1]

\* What stands behind what, once a loop has inserted behind K.
LEMMA NextBehind ==
  ASSUME NEW B, Block(B), NEW F \in Seq(Coded), NEW place, NEW K \in SUBSET (1 .. Len(B)),
         NEW kind \in Inserted, Behind(B, F, place, K, kind), Len(B) \notin K
  PROVE  NextIn(B, F, K, kind)
<1>1. Embeds(B, F, place, {kind}) /\ {kind} \in SUBSET Inserted
  BY DEF Behind
<1>2. /\ \A k \in 1 .. Len(B) : place[k] \in 1 .. Len(F) /\ F[place[k]] = B[k]
      /\ place[Len(B)] = Len(F) /\ Len(F) \in Nat
  <2>1. Embedded(B, F, place, {kind})
    BY <1>1, EmbedsFacts, Zenon
  <2> QED
    BY <2>1 DEF Embedded
<1>3. /\ place[1] = 1
      /\ \A k \in 1 .. Len(B) - 1 : place[k+1] = place[k] + IF k \in K THEN 2 ELSE 1
      /\ \A k \in K : F[place[k] + 1] = Added(kind)
      /\ \A p \in 1 .. Len(F) : \/ \E k \in 1 .. Len(B) : p = place[k]
                                \/ \E k \in K : p = place[k] + 1
  BY DEF Behind
<1>4. Len(B) \in Nat /\ Len(B) >= 1 /\ K \subseteq 1 .. Len(B) - 1
  <2>1. Len(B) \in Nat /\ Len(B) >= 1
    BY BlockFacts
  <2> QED
    BY <2>1
<1>5. F[1] = B[1]
  BY <1>2, <1>3, <1>4
<1>6. ASSUME NEW p \in 1 .. Len(F) - 1
      PROVE  \E k \in 1 .. Len(B) - 1 :
               \/ k \in K /\ F[p] = B[k] /\ F[p+1] = Added(kind)
               \/ k \in K /\ F[p] = Added(kind) /\ F[p+1] = B[k+1]
               \/ k \notin K /\ F[p] = B[k] /\ F[p+1] = B[k+1]
  <2>0. p \in 1 .. Len(F) /\ p # Len(F)
    BY <1>2
  <2>1. CASE \E k \in 1 .. Len(B) : p = place[k]
    <3>1. PICK k \in 1 .. Len(B) : p = place[k]
      BY <2>1
    <3>2. k \in 1 .. Len(B) - 1 /\ k + 1 \in 1 .. Len(B)
      BY <1>2, <1>4, <2>0, <3>1
    <3>3. F[p] = B[k] /\ F[place[k+1]] = B[k+1]
      BY <1>2, <3>1, <3>2
    <3>4. k \in K => F[p+1] = Added(kind)
      BY <1>3, <3>1
    <3>5. k \notin K => p + 1 = place[k+1]
      BY <1>3, <3>1, <3>2
    <3> QED
      BY <3>2, <3>3, <3>4, <3>5
  <2>2. CASE \E k \in K : p = place[k] + 1
    <3>1. PICK k \in K : p = place[k] + 1
      BY <2>2
    <3>2. k \in 1 .. Len(B) - 1 /\ k + 1 \in 1 .. Len(B) /\ k \in 1 .. Len(B)
      BY <1>4
    <3>3. place[k] \in 1 .. Len(F) /\ place[k+1] = place[k] + 2
      BY <1>2, <1>3, <3>2
    <3>4. p + 1 = place[k+1]
      BY <1>2, <3>1, <3>3
    <3>5. F[p] = Added(kind) /\ F[p+1] = B[k+1]
      BY <1>2, <1>3, <3>1, <3>2, <3>4
    <3> QED
      BY <3>2, <3>5
  <2> QED
    BY <1>3, <2>0, <2>1, <2>2
<1> QED
  BY <1>5, <1>6 DEF NextIn

\* The counting loop: every instruction that counts is followed by its counter.
LEMMA CountsArePlaced ==
  ASSUME NEW B, Block(B), NEW F \in Seq(Coded), NEW place,
         NEW K, K = {k \in 1 .. Len(B) : Countable(B, k)},
         Behind(B, F, place, K, "count"), NoneOf(B, {"count", "trace"})
  PROVE  CountsPlaced(F)
<1>1. Len(B) \in Nat /\ Len(B) >= 1 /\ K \subseteq 1 .. Len(B) /\ Len(B) \notin K
  BY BlockFacts DEF Countable
<1>2. "count" \in Inserted /\ Added("count").kind = "count"
  BY DEF Inserted, Added
<1>3. /\ F[1] = B[1]
      /\ \A p \in 1 .. Len(F) - 1 : \E k \in 1 .. Len(B) - 1 :
           \/ k \in K /\ F[p] = B[k] /\ F[p+1] = Added("count")
           \/ k \in K /\ F[p] = Added("count") /\ F[p+1] = B[k+1]
           \/ k \notin K /\ F[p] = B[k] /\ F[p+1] = B[k+1]
  <2>1. NextIn(B, F, K, "count")
    BY <1>1, <1>2, NextBehind
  <2> QED
    BY <2>1 DEF NextIn
<1>4. \A k \in 1 .. Len(B) : B[k].kind \notin {"count", "trace"}
  BY DEF NoneOf
<1>5. \A k \in 1 .. Len(B) - 1 : k \in K <=> B[k].kind # "phi"
  BY <1>1 DEF Countable
<1>6. ASSUME NEW p \in 1 .. Len(F) - 1
      PROVE  F[p+1].kind = "count" <=> F[p].kind \notin {"phi", "count"}
  <2>1. PICK k \in 1 .. Len(B) - 1 :
           \/ k \in K /\ F[p] = B[k] /\ F[p+1] = Added("count")
           \/ k \in K /\ F[p] = Added("count") /\ F[p+1] = B[k+1]
           \/ k \notin K /\ F[p] = B[k] /\ F[p+1] = B[k+1]
    BY <1>3
  <2>2. k \in 1 .. Len(B) /\ k + 1 \in 1 .. Len(B)
    BY <1>1
  <2>3. B[k].kind # "count" /\ B[k+1].kind # "count" /\ (k \in K <=> B[k].kind # "phi")
    BY <1>4, <1>5, <2>2
  <2> QED
    BY <1>2, <2>1, <2>3
<1>7. F[1].kind # "count"
  BY <1>1, <1>3, <1>4
<1> QED
  BY <1>6, <1>7 DEF CountsPlaced

\* The tracing loop: every GEP is followed by its call, then by its counter.
LEMMA CallsArePlaced ==
  ASSUME NEW B, Block(B), NEW F \in Seq(Coded), NEW place,
         NEW K, K = {k \in 1 .. Len(B) : B[k].kind = "gep"},
         Behind(B, F, place, K, "trace"), NoneOf(B, {"trace"}), CountsPlaced(B)
  PROVE  CallsPlaced(F)
<1>1. Len(B) \in Nat /\ Len(B) >= 1 /\ K \subseteq 1 .. Len(B) /\ Len(B) \notin K
  <2>1. Len(B) \in Nat /\ Len(B) >= 1 /\ B[Len(B)].kind \in Ends
    BY BlockFacts
  <2> QED
    BY <2>1 DEF Ends
<1>2. "trace" \in Inserted /\ Added("trace").kind = "trace"
  BY DEF Inserted, Added
<1>3. /\ F[1] = B[1]
      /\ \A p \in 1 .. Len(F) - 1 : \E k \in 1 .. Len(B) - 1 :
           \/ k \in K /\ F[p] = B[k] /\ F[p+1] = Added("trace")
           \/ k \in K /\ F[p] = Added("trace") /\ F[p+1] = B[k+1]
           \/ k \notin K /\ F[p] = B[k] /\ F[p+1] = B[k+1]
  <2>1. NextIn(B, F, K, "trace")
    BY <1>1, <1>2, NextBehind
  <2> QED
    BY <2>1 DEF NextIn
<1>4. \A k \in 1 .. Len(B) : B[k].kind # "trace"
  BY DEF NoneOf
<1>5. /\ B[1].kind # "count"
      /\ \A k \in 1 .. Len(B) - 1 :
           B[k+1].kind = "count" <=> B[k].kind \notin {"phi", "count"}
  BY DEF CountsPlaced
<1>6. ASSUME NEW p \in 1 .. Len(F) - 1
      PROVE  /\ F[p+1].kind = "trace" <=> F[p].kind = "gep"
             /\ F[p+1].kind = "count" <=> F[p].kind \notin {"phi", "gep", "count"}
  <2>1. PICK k \in 1 .. Len(B) - 1 :
           \/ k \in K /\ F[p] = B[k] /\ F[p+1] = Added("trace")
           \/ k \in K /\ F[p] = Added("trace") /\ F[p+1] = B[k+1]
           \/ k \notin K /\ F[p] = B[k] /\ F[p+1] = B[k+1]
    BY <1>3
  <2>2. k \in 1 .. Len(B) /\ k + 1 \in 1 .. Len(B)
    BY <1>1
  <2>3. /\ B[k].kind # "trace" /\ B[k+1].kind # "trace" /\ (k \in K <=> B[k].kind = "gep")
        /\ B[k+1].kind = "count" <=> B[k].kind \notin {"phi", "count"}
    BY <1>4, <1>5, <2>2
  <2> QED
    BY <1>2, <2>1, <2>3
<1>7. F[1].kind \notin {"count", "trace"}
  BY <1>1, <1>3, <1>4, <1>5
<1> QED
  BY <1>6, <1>7 DEF CallsPlaced

PrintedFrom(F, B) == F = Front(B) \o <<Added("load"), Added("printf"), Last(B)>>

\* What main prints with goes between the last instruction and the others.
LEMMA PrintedBlock ==
  ASSUME NEW B, Block(B), NEW F, PrintedFrom(F, B)
  PROVE  /\ F \in Seq(Coded)
         /\ \E place : Embeds(B, F, place, {"load", "printf"})
         /\ Len(F) = Len(B) + 2 /\ F[Len(B)] = Added("load")
         /\ F[Len(B) + 1] = Added("printf") /\ F[Len(B) + 2] = B[Len(B)]
         /\ \A k \in 1 .. Len(B) - 1 : F[k] = B[k]
<1> DEFINE n == Len(B)
           h == Front(B)
           t == <<Added("load"), Added("printf"), Last(B)>>
<1>1. n \in Nat /\ n >= 1 /\ (\A k \in 1 .. n : B[k] \in Coded) /\ Last(B) = B[n]
  BY BlockFacts
<1>2. h \in Seq(Coded) /\ Len(h) = n - 1 /\ \A k \in 1 .. n - 1 : h[k] = B[k]
  <2>1. h = SubSeq(B, 1, n - 1)
    BY DEF Front
  <2>2. \A k \in 1 .. n - 1 : B[k] \in Coded
    BY <1>1
  <2>3. /\ SubSeq(B, 1, n - 1) \in Seq(Coded)
        /\ Len(SubSeq(B, 1, n - 1)) = IF 1 <= n - 1 THEN (n - 1) - 1 + 1 ELSE 0
        /\ \A k \in 1 .. (n - 1) - 1 + 1 : SubSeq(B, 1, n - 1)[k] = B[1 + k - 1]
    <3> HIDE DEF n
    <3> QED
      BY <1>1, <2>2, SubSeqProperties
  <2>4. ASSUME NEW k \in 1 .. n - 1
        PROVE  h[k] = B[k]
    <3>1. k \in 1 .. (n - 1) - 1 + 1 /\ 1 + k - 1 = k
      BY <1>1
    <3> HIDE DEF n, h
    <3> QED
      BY <2>1, <2>3, <3>1
  <2>5. Len(h) = n - 1
    <3> HIDE DEF n, h
    <3> QED
      BY <1>1, <2>1, <2>3
  <2> HIDE DEF n, h
  <2> QED
    BY <2>1, <2>3, <2>4, <2>5
<1>3. Added("load") \in Coded /\ Added("printf") \in Coded
  BY AddedFacts DEF Inserted
<1>4. /\ t \in Seq(Coded) /\ Len(t) = 3
      /\ t[1] = Added("load") /\ t[2] = Added("printf") /\ t[3] = B[n]
  BY <1>1, <1>3
<1> HIDE DEF n, h, t
<1>5. /\ h \o t \in Seq(Coded) /\ Len(h \o t) = Len(h) + Len(t)
      /\ \A p \in 1 .. Len(h) : (h \o t)[p] = h[p]
      /\ \A j \in 1 .. Len(t) : (h \o t)[Len(h) + j] = t[j]
  <2>1. h \in Seq(Coded) /\ t \in Seq(Coded)
    BY <1>2, <1>4
  <2> QED
    BY <2>1, JoinedElements
<1>6. F = h \o t
  BY DEF h, t, PrintedFrom
<1>7. /\ F \in Seq(Coded) /\ Len(F) = n + 2
      /\ F[n] = Added("load") /\ F[n+1] = Added("printf") /\ F[n+2] = B[n]
      /\ \A k \in 1 .. n - 1 : F[k] = B[k]
  <2>1. Len(F) = n + 2
    BY <1>1, <1>2, <1>4, <1>5, <1>6
  <2>2. (n - 1) + 1 = n /\ (n - 1) + 2 = n + 1 /\ (n - 1) + 3 = n + 2
    BY <1>1
  <2>3. F[(n-1)+1] = t[1] /\ F[(n-1)+2] = t[2] /\ F[(n-1)+3] = t[3]
    <3>1. 1 \in 1 .. Len(t) /\ 2 \in 1 .. Len(t) /\ 3 \in 1 .. Len(t)
      BY <1>4
    <3>2. \A j \in 1 .. Len(t) : F[(n-1)+j] = t[j]
      BY <1>2, <1>5, <1>6
    <3> QED
      BY <3>1, <3>2
  <2>4. \A k \in 1 .. n - 1 : F[k] = B[k]
    BY <1>1, <1>2, <1>5, <1>6
  <2> QED
    BY <1>4, <1>5, <1>6, <2>1, <2>2, <2>3, <2>4
<1> DEFINE place == [k \in 1 .. n |-> IF k = n THEN n + 2 ELSE k]
<1>8. /\ place \in [1 .. n -> 1 .. Len(F)] /\ place[n] = Len(F)
      /\ \A k, l \in 1 .. n : k < l => place[k] < place[l]
  BY <1>1, <1>7
<1>9. \A k \in 1 .. n : F[place[k]] = B[k]
  <2> TAKE k \in 1 .. n
  <2>1. CASE k = n
    BY <1>1, <1>7, <2>1
  <2>2. CASE k # n
    <3>1. place[k] = k /\ k \in 1 .. n - 1
      BY <1>1, <2>2
    <3> HIDE DEF place
    <3> QED
      BY <1>7, <3>1
  <2> QED
    BY <2>1, <2>2
<1>10. \A p \in 1 .. Len(F) : \/ \E k \in 1 .. n : p = place[k]
                              \/ \E kind \in {"load", "printf"} : F[p] = Added(kind)
  <2> TAKE p \in 1 .. Len(F)
  <2>1. p \in 1 .. n - 1 \/ p = n \/ p = n + 1 \/ p = n + 2
    BY <1>1, <1>7
  <2>2. CASE p \in 1 .. n - 1
    <3>1. p \in 1 .. n /\ p = place[p]
      BY <1>1, <2>2
    <3> HIDE DEF place
    <3> QED
      BY <3>1
  <2>3. CASE p = n + 2
    <3>1. n \in 1 .. n /\ p = place[n]
      BY <1>1, <2>3
    <3> HIDE DEF place
    <3> QED
      BY <3>1
  <2> HIDE DEF place
  <2>4. CASE p = n
    <3>1. F[p] = Added("load")
      BY <1>7, <2>4
    <3>2. \E kind \in {"load", "printf"} : F[p] = Added(kind)
      <4> WITNESS "load" \in {"load", "printf"}
      <4> QED
        BY <3>1
    <3> QED
      BY <3>2
  <2>5. CASE p = n + 1
    <3>1. F[p] = Added("printf")
      BY <1>7, <2>5
    <3>2. \E kind \in {"load", "printf"} : F[p] = Added(kind)
      <4> WITNESS "printf" \in {"load", "printf"}
      <4> QED
        BY <3>1
    <3> QED
      BY <3>2
  <2> QED
    BY <2>1, <2>2, <2>3, <2>4, <2>5
<1>11. Embeds(B, F, place, {"load", "printf"})
  <2> HIDE DEF place
  <2> QED
    BY <1>8, <1>9, <1>10 DEF Embeds, n
<1> QED
  BY <1>7, <1>11 DEF n

\* ... which is behind the PHI nodes.
LEMMA PrintedPhis ==
  ASSUME NEW B, Block(B), PhisLead(B), NEW F, PrintedFrom(F, B)
  PROVE  PhisLead(F)
<1>1. /\ F \in Seq(Coded) /\ Len(F) = Len(B) + 2 /\ F[Len(B)] = Added("load")
      /\ F[Len(B) + 1] = Added("printf") /\ F[Len(B) + 2] = B[Len(B)]
      /\ \A k \in 1 .. Len(B) - 1 : F[k] = B[k]
  BY PrintedBlock
<1>2. /\ Len(B) \in Nat /\ Len(B) >= 1 /\ DOMAIN B = 1 .. Len(B)
      /\ B[Len(B)].kind \in Ends
  BY BlockFacts
<1>3. Added("load").kind # "phi" /\ Added("printf").kind # "phi" /\ B[Len(B)].kind # "phi"
  BY <1>2 DEF Added, Ends
<1>4. DOMAIN F = 1 .. Len(B) + 2
  BY <1>1
<1>5. ASSUME NEW p \in 1 .. Len(B) + 2, F[p].kind = "phi", NEW q \in 1 .. p
      PROVE  F[q].kind = "phi"
  <2>1. p \in 1 .. Len(B) - 1
    <3>2. /\ F[Len(B)].kind # "phi" /\ F[Len(B) + 1].kind # "phi"
          /\ F[Len(B) + 2].kind # "phi"
      BY <1>1, <1>3
    <3>1. p # Len(B) /\ p # Len(B) + 1 /\ p # Len(B) + 2
      BY <1>5, <3>2
    <3> DEFINE n == Len(B)
    <3>3. n \in Nat /\ p \in 1 .. n + 2 /\ p # n /\ p # n + 1 /\ p # n + 2
      BY <1>2, <3>1
    <3> HIDE DEF n
    <3>4. p \in 1 .. n - 1
      BY <3>3
    <3> QED
      BY <3>4 DEF n
  <2>2. p \in DOMAIN B /\ q \in 1 .. Len(B) - 1
    BY <1>2, <2>1
  <2>3. B[p].kind = "phi"
    BY <1>1, <1>5, <2>1
  <2>4. B[q].kind = "phi"
    BY <2>2, <2>3 DEF PhisLead
  <2> QED
    BY <1>1, <2>2, <2>4
<1> QED
  BY <1>4, <1>5 DEF PhisLead

\* How many own instructions there are, and where, is what ProgramKept counts.
LEMMA KeepsCounts ==
  ASSUME NEW P, Len(P) \in Nat, NEW B, Block(B), NEW at_, Keeps(P, B, at_)
  PROVE  /\ Cardinality(OwnAt(B)) = Len(P)
         /\ \A k \in OwnAt(B) : B[k] = Own(P[OwnUpTo(B, k)])
<1> DEFINE T(m) == {at_[i] : i \in 1 .. m}
<1>1. /\ at_ \in [1 .. Len(P) -> 1 .. Len(B)]
      /\ \A i, j \in 1 .. Len(P) : i < j => at_[i] < at_[j]
      /\ \A i \in 1 .. Len(P) : B[at_[i]] = Own(P[i])
      /\ \A k \in 1 .. Len(B) : B[k].own => \E i \in 1 .. Len(P) : k = at_[i]
  BY DEF Keeps
<1>2. Len(B) \in Nat /\ DOMAIN B = 1 .. Len(B)
  BY BlockFacts
<1>3. ASSUME NEW i \in 1 .. Len(P), NEW j \in 1 .. Len(P)
      PROVE  (at_[i] = at_[j] => i = j) /\ (at_[j] <= at_[i] => j <= i)
  <2>1. at_[i] \in Nat /\ at_[j] \in Nat
    BY <1>1, <1>2
  <2>2. (i < j => at_[i] < at_[j]) /\ (j < i => at_[j] < at_[i])
    BY <1>1
  <2> QED
    BY <2>1, <2>2
<1>4. ASSUME NEW m \in 0 .. Len(P)
      PROVE  Cardinality(T(m)) = m
  <2> DEFINE f == [i \in 1 .. m |-> at_[i]]
  <2>1. \A i \in 1 .. m : i \in 1 .. Len(P)
    OBVIOUS
  <2>2. f \in [1 .. m -> T(m)] /\ \A t \in T(m) : \E i \in 1 .. m : f[i] = t
    OBVIOUS
  <2>3. ASSUME NEW i \in 1 .. m, NEW j \in 1 .. m, f[i] = f[j]
        PROVE  i = j
    <3>1. at_[i] = at_[j] /\ i \in 1 .. Len(P) /\ j \in 1 .. Len(P)
      BY <2>1, <2>3
    <3> QED
      BY <1>3, <3>1
  <2>4. DOMAIN f = 1 .. m
    OBVIOUS
  <2> HIDE DEF f, T
  <2>5. f \in Bijection(1 .. m, T(m))
    BY <2>2, <2>3, <2>4 DEF Bijection, Injection, Surjection, IsInjective
  <2>6. ExistsBijection(1 .. m, T(m))
    BY <2>5 DEF ExistsBijection
  <2> QED
    BY <2>6, FS_CountingElements
<1>5. \A i \in 1 .. Len(P) : Own(P[i]).own
  BY DEF Own
<1>6. OwnAt(B) = T(Len(P))
  BY <1>1, <1>2, <1>5 DEF OwnAt
<1>7. ASSUME NEW k \in OwnAt(B)
      PROVE  B[k] = Own(P[OwnUpTo(B, k)])
  <2>1. PICK i \in 1 .. Len(P) : k = at_[i]
    BY <1>6
  <2>2. {j \in OwnAt(B) : j <= k} = T(i)
    <3>1. \A j \in 1 .. Len(P) : at_[j] <= at_[i] <=> j \in 1 .. i
      <4> TAKE j \in 1 .. Len(P)
      <4>1. at_[j] \in Nat /\ at_[i] \in Nat /\ (j < i => at_[j] < at_[i])
        BY <1>1, <1>2
      <4>2. at_[j] <= at_[i] => j <= i
        BY <1>3
      <4> QED
        BY <4>1, <4>2
    <3>2. \A j \in 1 .. i : j \in 1 .. Len(P)
      BY <2>1
    <3> QED
      BY <1>6, <2>1, <3>1, <3>2
  <2>3. OwnUpTo(B, k) = i
    <3>1. i \in 0 .. Len(P)
      BY <2>1
    <3> HIDE DEF T
    <3> QED
      BY <1>4, <2>2, <3>1 DEF OwnUpTo
  <2> QED
    BY <1>1, <2>1, <2>3
<1>8. Cardinality(OwnAt(B)) = Len(P)
  <2>1. Len(P) \in 0 .. Len(P)
    OBVIOUS
  <2> HIDE DEF T
  <2> QED
    BY <1>4, <1>6, <2>1
<1> QED
  BY <1>7, <1>8

-----------------------------------------------------------------------------
(* The pass: every block keeps its program, and what each loop adds is in  *)
(* its place.                                                              *)

Kept(b, B) == \E e : Keeps(program[b], B, e)

PhisKept(b, B) ==
  (\A k \in DOMAIN program[b] : program[b][k].kind = "phi" => program[b][k].constants = 0) =>
    PhisLead(B)

Placed(b, B, st) ==
  /\ st = "print" => NoneOf(B, {"load", "count", "trace"})
  /\ st \in {"expand", "count"} => LoadsPlaced(b, B) /\ NoneOf(B, {"count", "trace"})
  /\ st = "trace" => LoadsPlaced(b, B) /\ NoneOf(B, {"trace"}) /\ CountsPlaced(B)
  /\ st \in {"verify", "rejected", "run", "ended"} => LoadsPlaced(b, B) /\ CallsPlaced(B)

BlockInv(b, B, st) == Block(B) /\ Kept(b, B) /\ PhisKept(b, B) /\ Placed(b, B, st)

Stages == {"print", "expand", "count", "trace", "verify", "rejected", "run", "ended"}

PassInv ==
  /\ program \in Programs /\ DOMAIN code = DOMAIN program
  /\ block \in DOMAIN code /\ stage \in Stages
  /\ \A b \in DOMAIN code : BlockInv(b, code[b], stage)

\* A block of the program as the pass finds it.
LEMMA ProgramFacts ==
  ASSUME program \in Programs, NEW b \in DOMAIN program
  PROVE  /\ program[b] \in Seq(Instr) /\ Len(program[b]) \in Nat /\ Len(program[b]) >= 1
         /\ DOMAIN program[b] = 1 .. Len(program[b])
         /\ \A k \in 1 .. Len(program[b]) : /\ program[b][k] \in Instr
                                            /\ program[b][k].kind \in Ends <=> k = Len(program[b])
         /\ PhisLead(program[b])
<1>1. IsBlock(program[b])
  BY LlvmAssumption
<1>2. program[b] \in Seq(Instr) /\ program[b] # <<>>
  BY <1>1 DEF IsBlock
<1>3. DOMAIN program[b] = 1 .. Len(program[b]) /\ Len(program[b]) \in Nat
  BY <1>2
<1>4. Len(program[b]) >= 1
  BY <1>2
<1>5. \A k \in 1 .. Len(program[b]) : program[b][k] \in Instr
  BY <1>2
<1>6. /\ \A k \in DOMAIN program[b] : program[b][k].kind \in Ends <=> k = Len(program[b])
      /\ PhisLead(program[b])
  BY <1>1 DEF IsBlock
<1> QED
  BY <1>2, <1>3, <1>4, <1>5, <1>6

\* Before the pass, every block is its program.
LEMMA InitPass == Init => PassInv
<1> SUFFICES ASSUME Init PROVE PassInv
  OBVIOUS
<1>1. /\ program \in Programs /\ DOMAIN code = DOMAIN program
      /\ block \in DOMAIN code /\ stage = "print"
  BY DEF Init
<1>2. ASSUME NEW b \in DOMAIN program
      PROVE  BlockInv(b, code[b], "print")
  <2> DEFINE P == program[b]
             B == code[b]
  <2>1. /\ P \in Seq(Instr) /\ Len(P) \in Nat /\ Len(P) >= 1 /\ DOMAIN P = 1 .. Len(P)
        /\ \A k \in 1 .. Len(P) : P[k] \in Instr /\ (P[k].kind \in Ends <=> k = Len(P))
        /\ PhisLead(P)
    BY <1>1, ProgramFacts
  <2>2. B = [k \in 1 .. Len(P) |-> Own(P[k])]
    BY <2>1 DEF Init
  <2> HIDE DEF P, B
  <2>3. \A k \in 1 .. Len(P) : /\ Own(P[k]) \in Coded /\ Own(P[k]).kind = P[k].kind
                               /\ Own(P[k]).own /\ P[k].kind \in Kinds
    BY <2>1 DEF Own, Coded, Instr
  <2>4. /\ B \in Seq(Coded) /\ Len(B) = Len(P) /\ DOMAIN B = 1 .. Len(P)
        /\ \A k \in 1 .. Len(P) : B[k] = Own(P[k])
    <3> DEFINE n == Len(P)
    <3>1. n \in Nat
      BY <2>1
    <3>2. B = [k \in 1 .. n |-> Own(P[k])]
      BY <2>2
    <3>3. \A k \in 1 .. n : Own(P[k]) \in Coded
      BY <2>3
    <3> HIDE DEF n
    <3>4. B \in [1 .. n -> Coded]
      BY <3>2, <3>3
    <3>5. B \in Seq(Coded) /\ Len(B) = n
      BY <3>1, <3>4
    <3> QED
      BY <3>1, <3>2, <3>5 DEF n
  <2>5. Block(B)
    BY <2>1, <2>3, <2>4 DEF Block
  <2>6. Keeps(P, B, [i \in 1 .. Len(P) |-> i])
    BY <2>1, <2>4 DEF Keeps
  <2>7. PhisLead(B)
    BY <2>1, <2>3, <2>4 DEF PhisLead
  <2>8. NoneOf(B, {"load", "count", "trace"})
    BY <2>3, <2>4 DEF NoneOf, Kinds
  <2> QED
    BY <2>5, <2>6, <2>7, <2>8 DEF BlockInv, Kept, PhisKept, Placed, P, B
<1> QED
  BY <1>1, <1>2 DEF PassInv, Stages

\* The first loop adds to the blocks of main that return, and to no other.
LEMMA PrintStep ==
  ASSUME PassInv, PrintAtReturn
  PROVE  PassInv'
<1>1. /\ stage = "print" /\ stage' = "expand" /\ program' = program /\ block' = block
      /\ DOMAIN code' = DOMAIN code
      /\ \A b \in DOMAIN code : code'[b] =
           IF b \in Main /\ Last(code[b]).kind = "return"
           THEN Front(code[b]) \o <<Added("load"), Added("printf"), Last(code[b])>>
           ELSE code[b]
  BY DEF PrintAtReturn
<1>2. ASSUME NEW b \in DOMAIN code
      PROVE  BlockInv(b, code'[b], "expand")
  <2> DEFINE B == code[b]
             F == code'[b]
  <2>1. /\ Block(B) /\ Kept(b, B) /\ PhisKept(b, B)
        /\ NoneOf(B, {"load", "count", "trace"})
    BY <1>1 DEF PassInv, BlockInv, Placed
  <2>2. Last(B) = B[Len(B)]
    BY <2>1, BlockFacts
  <2>3. CASE b \in Main /\ B[Len(B)].kind = "return"
    <3>1. PrintedFrom(F, B)
      BY <1>1, <2>2, <2>3 DEF PrintedFrom
    <3> HIDE DEF B, F
    <3>2. /\ F \in Seq(Coded) /\ \E place : Embeds(B, F, place, {"load", "printf"})
          /\ Len(F) = Len(B) + 2 /\ F[Len(B)] = Added("load")
          /\ F[Len(B) + 1] = Added("printf") /\ F[Len(B) + 2] = B[Len(B)]
          /\ \A k \in 1 .. Len(B) - 1 : F[k] = B[k]
      BY <2>1, <3>1, PrintedBlock
    <3>3. PICK place : Embeds(B, F, place, {"load", "printf"})
      BY <3>2
    <3>4. {"load", "printf"} \in SUBSET Inserted
      BY DEF Inserted
    <3>5. Block(F)
      BY <2>1, <3>2, <3>3, <3>4, EmbedsBlock
    <3>6. Kept(b, F)
      BY <2>1, <3>2, <3>3, <3>4, EmbedsKeeps DEF Kept
    <3>7. NoneOf(F, {"count", "trace"})
      <4>1. NoneOf(B, {"count", "trace"}) /\ {"count", "trace"} \intersect {"load", "printf"} = {}
        BY <2>1 DEF NoneOf
      <4> QED
        BY <2>1, <3>2, <3>3, <3>4, <4>1, EmbedsNoneOf
    <3>8. PhisKept(b, F)
      BY <2>1, <3>1, PrintedPhis DEF PhisKept
    <3>9. LoadsPlaced(b, F)
      <4>1. Len(B) \in Nat /\ Len(B) >= 1
        BY <2>1, BlockFacts
      <4>2. F[Len(F)].kind = "return"
        BY <2>3, <3>2
      <4>3. \A j \in 1 .. Len(F) : F[j].kind = "load" <=> j = Len(B)
        <5> TAKE j \in 1 .. Len(F)
        <5>1. j \in 1 .. Len(B) - 1 \/ j = Len(B) \/ j = Len(B) + 1 \/ j = Len(B) + 2
          BY <3>2, <4>1
        <5>2. CASE j \in 1 .. Len(B) - 1
          <6>1. F[j] = B[j] /\ B[j].kind # "load" /\ j # Len(B)
            BY <2>1, <3>2, <4>1, <5>2 DEF NoneOf
          <6> QED
            BY <6>1
        <5>3. CASE j = Len(B)
          BY <3>2, <5>3 DEF Added
        <5>4. CASE j = Len(B) + 1
          <6>1. F[j].kind = "printf" /\ j # Len(B)
            BY <3>2, <4>1, <5>4 DEF Added
          <6> QED
            BY <6>1
        <5>5. CASE j = Len(B) + 2
          <6>1. F[j].kind = "return" /\ j # Len(B)
            BY <2>3, <3>2, <4>1, <5>5
          <6> QED
            BY <6>1
        <5> QED
          BY <5>1, <5>2, <5>3, <5>4, <5>5
      <4>4. Len(B) \in 1 .. Len(F)
        BY <3>2, <4>1
      <4> QED
        BY <2>3, <4>2, <4>3, <4>4 DEF LoadsPlaced
    <3> QED
      BY <3>5, <3>6, <3>7, <3>8, <3>9 DEF BlockInv, Placed, F
  <2>4. CASE ~(b \in Main /\ B[Len(B)].kind = "return")
    <3>1. F = B
      BY <1>1, <2>2, <2>4
    <3> HIDE DEF B, F
    <3>2. LoadsPlaced(b, B) /\ NoneOf(B, {"count", "trace"})
      BY <2>1, <2>4 DEF LoadsPlaced, NoneOf
    <3> QED
      BY <2>1, <3>1, <3>2 DEF BlockInv, Placed, F
  <2> QED
    BY <2>3, <2>4
<1>3. \A b \in DOMAIN code' : BlockInv(b, code[b], stage)'
  BY <1>1, <1>2 DEF BlockInv, Kept, PhisKept, Placed
<1> QED
  BY <1>1, <1>3 DEF PassInv, Stages

\* A loop that inserts behind leaves a block its end and its instructions.
LEMMA BehindStep ==
  ASSUME NEW b, NEW B, Block(B), Kept(b, B), PhisKept(b, B), LoadsPlaced(b, B),
         NEW F \in Seq(Coded), NEW place, NEW K \in SUBSET (1 .. Len(B)),
         NEW kind \in Inserted, kind # "load", Behind(B, F, place, K, kind),
         \A k \in K : B[k].kind # "phi"
  PROVE  Block(F) /\ Kept(b, F) /\ PhisKept(b, F) /\ LoadsPlaced(b, F)
<1>1. Embeds(B, F, place, {kind}) /\ {kind} \in SUBSET Inserted
  BY DEF Behind
<1>2. Block(F)
  BY <1>1, EmbedsBlock, Zenon
<1>3. Kept(b, F)
  <2>1. PICK e : Keeps(program[b], B, e)
    BY DEF Kept
  <2>2. \E h : Keeps(program[b], F, h)
    BY <1>1, <2>1, EmbedsKeeps, Zenon
  <2> QED
    BY <2>2 DEF Kept
<1>4. PhisKept(b, F)
  BY BehindPhis DEF PhisKept
<1>5. LoadsPlaced(b, F)
  <2>1. "load" \notin {kind}
    OBVIOUS
  <2> QED
    BY <1>1, <2>1, EmbedsLoads, Zenon
<1> QED
  BY <1>2, <1>3, <1>4, <1>5

\* The second loop: new GEPs in front of their users.
LEMMA ExpandStep ==
  ASSUME PassInv, ExpandConstants
  PROVE  PassInv'
<1>1. /\ stage = "expand" /\ stage' = "count" /\ program' = program /\ block' = block
      /\ DOMAIN code' = DOMAIN code
      /\ \A b \in DOMAIN code : code'[b] = FlattenSeq([k \in DOMAIN code[b] |-> Expanded(code[b], k)])
  BY DEF ExpandConstants, Loop, Spliced
<1>2. ASSUME NEW b \in DOMAIN code
      PROVE  BlockInv(b, code'[b], "count")
  <2> DEFINE B == code[b]
             F == code'[b]
             S == [k \in DOMAIN B |-> Expanded(B, k)]
  <2>1. /\ Block(B) /\ Kept(b, B) /\ PhisKept(b, B)
        /\ LoadsPlaced(b, B) /\ NoneOf(B, {"count", "trace"})
    BY <1>1 DEF PassInv, BlockInv, Placed
  <2>2. ExpansionOf(S, B)
    BY <2>1, BlockFacts DEF ExpansionOf
  <2>3. F = FlattenSeq(S)
    BY <1>1
  <2>4. program \in Programs /\ b \in DOMAIN program
    BY DEF PassInv
  <2> HIDE DEF B, F, S
  <2>5. F \in Seq(Coded) /\ \E place : Before(B, F, place)
    BY <2>1, <2>2, <2>3, InsertBefore
  <2>6. PICK place : Before(B, F, place)
    BY <2>5
  <2>7. Embeds(B, F, place, {"gep"}) /\ {"gep"} \in SUBSET Inserted
    BY <2>6 DEF Before, Inserted
  <2>8. Block(F)
    BY <2>1, <2>5, <2>7, EmbedsBlock, Zenon
  <2>9. Kept(b, F)
    <3>1. PICK e : Keeps(program[b], B, e)
      BY <2>1 DEF Kept
    <3>2. \E h : Keeps(program[b], F, h)
      BY <2>1, <2>5, <2>7, <3>1, EmbedsKeeps, Zenon
    <3> QED
      BY <3>2 DEF Kept
  <2>10. PhisKept(b, F)
    <3> SUFFICES ASSUME \A k \in DOMAIN program[b] :
                          program[b][k].kind = "phi" => program[b][k].constants = 0
                 PROVE  PhisLead(F)
      BY DEF PhisKept
    <3>1. PhisLead(B)
      BY <2>1 DEF PhisKept
    <3>2. ASSUME NEW k \in 1 .. Len(B), B[k].kind = "phi"
          PROVE  B[k].constants = 0
      <4>1. B[k].own
        BY <2>1, <3>2, BlockFacts DEF Inserted
      <4>2. PICK e : Keeps(program[b], B, e)
        BY <2>1 DEF Kept
      <4>3. PICK i \in 1 .. Len(program[b]) : B[k] = Own(program[b][i])
        BY <4>1, <4>2 DEF Keeps
      <4>4. i \in DOMAIN program[b]
        BY <2>4, ProgramFacts
      <4>5. program[b][i].kind = "phi"
        BY <3>2, <4>3 DEF Own
      <4> QED
        BY <4>3, <4>4, <4>5 DEF Own
    <3> QED
      BY <2>1, <2>5, <2>6, <3>1, <3>2, BeforePhis
  <2>11. LoadsPlaced(b, F)
    <3>1. "load" \notin {"gep"}
      OBVIOUS
    <3> QED
      BY <2>1, <2>5, <2>7, <3>1, EmbedsLoads, Zenon
  <2>12. NoneOf(F, {"count", "trace"})
    <3>1. {"count", "trace"} \intersect {"gep"} = {}
      OBVIOUS
    <3> QED
      BY <2>1, <2>5, <2>7, <3>1, EmbedsNoneOf, Zenon
  <2> QED
    BY <2>8, <2>9, <2>10, <2>11, <2>12 DEF BlockInv, Placed, F
<1>3. \A b \in DOMAIN code' : BlockInv(b, code[b], stage)'
  BY <1>1, <1>2 DEF BlockInv, Kept, PhisKept, Placed
<1> QED
  BY <1>1, <1>3 DEF PassInv, Stages

\* The third loop: counters behind.
LEMMA CountStep ==
  ASSUME PassInv, CountInstructions
  PROVE  PassInv'
<1>1. /\ stage = "count" /\ stage' = "trace" /\ program' = program /\ block' = block
      /\ DOMAIN code' = DOMAIN code
      /\ \A b \in DOMAIN code : code'[b] = FlattenSeq([k \in DOMAIN code[b] |-> Counted(code[b], k)])
  BY DEF CountInstructions, Loop, Spliced
<1>2. ASSUME NEW b \in DOMAIN code
      PROVE  BlockInv(b, code'[b], "trace")
  <2> DEFINE B == code[b]
             F == code'[b]
             S == [k \in DOMAIN B |-> Counted(B, k)]
             K == {k \in 1 .. Len(B) : Countable(B, k)}
  <2>1. /\ Block(B) /\ Kept(b, B) /\ PhisKept(b, B)
        /\ LoadsPlaced(b, B) /\ NoneOf(B, {"count", "trace"})
    BY <1>1 DEF PassInv, BlockInv, Placed
  <2>2. PairsFor(S, B, K, "count")
    BY <2>1, BlockFacts DEF PairsFor, Counted
  <2>3. F = FlattenSeq(S)
    BY <1>1
  <2>4. /\ K \in SUBSET (1 .. Len(B)) /\ Len(B) \notin K
        /\ \A k \in K : B[k].kind # "phi"
    BY <2>1, BlockFacts DEF Countable
  <2>5. "count" \in Inserted
    BY DEF Inserted
  <2> HIDE DEF B, F, S
  <2>6. F \in Seq(Coded) /\ \E place : Behind(B, F, place, K, "count")
    <3> HIDE DEF K
    <3> QED
      BY <2>1, <2>2, <2>3, <2>4, <2>5, InsertBehind
  <2>7. PICK place : Behind(B, F, place, K, "count")
    BY <2>6
  <2>8. CountsPlaced(F)
    BY <2>1, <2>6, <2>7, CountsArePlaced
  <2> HIDE DEF K
  <2>9. Block(F) /\ Kept(b, F) /\ PhisKept(b, F) /\ LoadsPlaced(b, F)
    BY <2>1, <2>4, <2>5, <2>6, <2>7, BehindStep
  <2>10. NoneOf(F, {"trace"})
    <3>1. Embeds(B, F, place, {"count"}) /\ {"count"} \in SUBSET Inserted
      BY <2>5, <2>7 DEF Behind
    <3>2. NoneOf(B, {"trace"}) /\ {"trace"} \intersect {"count"} = {}
      BY <2>1 DEF NoneOf
    <3> QED
      BY <2>1, <2>6, <3>1, <3>2, EmbedsNoneOf, Zenon
  <2> QED
    BY <2>8, <2>9, <2>10 DEF BlockInv, Placed, F
<1>3. \A b \in DOMAIN code' : BlockInv(b, code[b], stage)'
  BY <1>1, <1>2 DEF BlockInv, Kept, PhisKept, Placed
<1> QED
  BY <1>1, <1>3 DEF PassInv, Stages

\* The fourth loop: calls behind the GEPs, in front of their counters.
LEMMA TraceStep ==
  ASSUME PassInv, TraceGeps
  PROVE  PassInv'
<1>1. /\ stage = "trace" /\ stage' = "verify" /\ program' = program /\ block' = block
      /\ DOMAIN code' = DOMAIN code
      /\ \A b \in DOMAIN code : code'[b] = FlattenSeq([k \in DOMAIN code[b] |-> Traced(code[b], k)])
  BY DEF TraceGeps, Loop, Spliced
<1>2. ASSUME NEW b \in DOMAIN code
      PROVE  BlockInv(b, code'[b], "verify")
  <2> DEFINE B == code[b]
             F == code'[b]
             S == [k \in DOMAIN B |-> Traced(B, k)]
             K == {k \in 1 .. Len(B) : B[k].kind = "gep"}
  <2>1. /\ Block(B) /\ Kept(b, B) /\ PhisKept(b, B)
        /\ LoadsPlaced(b, B) /\ NoneOf(B, {"trace"}) /\ CountsPlaced(B)
    BY <1>1 DEF PassInv, BlockInv, Placed
  <2>2. PairsFor(S, B, K, "trace")
    BY <2>1, BlockFacts DEF PairsFor, Traced
  <2>3. F = FlattenSeq(S)
    BY <1>1
  <2>4. /\ K \in SUBSET (1 .. Len(B)) /\ Len(B) \notin K
        /\ \A k \in K : B[k].kind # "phi"
    <3>1. Len(B) \in 1 .. Len(B) => B[Len(B)].kind \in Ends
      BY <2>1, BlockFacts
    <3> QED
      BY <3>1 DEF Ends
  <2>5. "trace" \in Inserted
    BY DEF Inserted
  <2> HIDE DEF B, F, S
  <2>6. F \in Seq(Coded) /\ \E place : Behind(B, F, place, K, "trace")
    <3> HIDE DEF K
    <3> QED
      BY <2>1, <2>2, <2>3, <2>4, <2>5, InsertBehind
  <2>7. PICK place : Behind(B, F, place, K, "trace")
    BY <2>6
  <2>8. CallsPlaced(F)
    BY <2>1, <2>6, <2>7, CallsArePlaced
  <2> HIDE DEF K
  <2>9. Block(F) /\ Kept(b, F) /\ PhisKept(b, F) /\ LoadsPlaced(b, F)
    BY <2>1, <2>4, <2>5, <2>6, <2>7, BehindStep
  <2> QED
    BY <2>8, <2>9 DEF BlockInv, Placed, F
<1>3. \A b \in DOMAIN code' : BlockInv(b, code[b], stage)'
  BY <1>1, <1>2 DEF BlockInv, Kept, PhisKept, Placed
<1> QED
  BY <1>1, <1>3 DEF PassInv, Stages

\* Running it changes nothing of that.
LEMMA RunPass ==
  ASSUME PassInv, UNCHANGED pass, block' \in DOMAIN code,
         stage \in {"verify", "run", "ended"}, stage' \in {"rejected", "run", "ended"}
  PROVE  PassInv'
<1>1. program' = program /\ code' = code
  BY DEF pass
<1>2. \A b \in DOMAIN code : BlockInv(b, code[b], stage')
  BY DEF PassInv, BlockInv, Placed
<1>3. stage' \in Stages
  BY DEF Stages
<1> QED
  BY <1>1, <1>2, <1>3 DEF PassInv, BlockInv, Kept, PhisKept, Placed

\* Every step of the pass and of the program it made.
LEMMA PassStep == PassInv /\ [Next]_vars => PassInv'
<1> SUFFICES ASSUME PassInv, [Next]_vars PROVE PassInv'
  OBVIOUS
<1>1. block \in DOMAIN code
  BY DEF PassInv
<1>2. CASE Pass
  <2>1. CASE Verify
    BY <1>1, <2>1, RunPass DEF Verify
  <2> QED
    BY <1>2, <2>1, PrintStep, ExpandStep, CountStep, TraceStep DEF Pass
<1>3. CASE Execute
  BY <1>1, <1>3, RunPass DEF Execute, Running
<1>4. CASE End
  BY <1>1, <1>4, RunPass DEF End, Running
<1>5. CASE Count
  BY <1>1, <1>5, RunPass DEF Count, Running
<1>6. CASE LoadCounter
  BY <1>1, <1>6, RunPass DEF LoadCounter, Running
<1>7. CASE Printf
  BY <1>1, <1>7, RunPass DEF Printf, Running
<1>8. CASE Skip
  BY <1>1, <1>8, RunPass DEF Skip, Running
<1>9. CASE Write
  BY <1>1, <1>9, RunPass DEF Write, Running
<1>10. CASE Exit
  BY <1>1, <1>10, RunPass DEF Exit, Running
<1>11. CASE UNCHANGED vars
  BY <1>11 DEF vars, pass, PassInv, BlockInv, Kept, PhisKept, Placed
<1> QED
  BY <1>2, <1>3, <1>4, <1>5, <1>6, <1>7, <1>8, <1>9, <1>10, <1>11 DEF Next

\* The pass leaves every block its instructions and its end, and puts what it
\* adds where it belongs.
THEOREM PassCorrect == Spec => []PassInv
<1>1. Init => PassInv
  BY InitPass
<1>2. PassInv /\ [Next]_vars => PassInv'
  BY PassStep
<1> QED
  BY <1>1, <1>2, PTL DEF Spec

\* That is all that ProgramKept asks: as many own instructions, in their order.
LEMMA KeptWhole == PassInv => ProgramKept
<1> SUFFICES ASSUME PassInv, NEW b \in DOMAIN code
             PROVE  /\ Cardinality(OwnAt(code[b])) = Len(program[b])
                    /\ \A k \in OwnAt(code[b]) :
                         code[b][k] = Own(program[b][OwnUpTo(code[b], k)])
                    /\ Last(code[b]).kind \in Ends
  BY DEF ProgramKept
<1>1. Block(code[b]) /\ \E e : Keeps(program[b], code[b], e)
  BY DEF PassInv, BlockInv, Kept
<1>2. PICK e : Keeps(program[b], code[b], e)
  BY <1>1
<1>3. Len(program[b]) \in Nat
  BY ProgramFacts DEF PassInv
<1>4. Last(code[b]).kind \in Ends
  BY <1>1, BlockFacts
<1> QED
  BY <1>1, <1>2, <1>3, <1>4, KeepsCounts

\* No loop of the pass loses, repeats or reorders an instruction of the
\* program, and every block ends as it did.
THEOREM PassKeepsProgram == Spec => []ProgramKept
<1>1. PassInv => ProgramKept
  BY KeptWhole
<1> QED
  BY <1>1, PassCorrect, PTL

\* PHI nodes lead in every block of a program that has no constant GEP in one.
LEMMA PhisLeadAll == PassInv => PhisFirst
BY DEF PassInv, BlockInv, PhisKept, PhisFirst

\* PHI nodes stay in front of a block none of whose PHI nodes has a constant
\* GEP for an operand.
THEOREM PassKeepsPhis == Spec => []PhisFirst
<1>1. PassInv => PhisFirst
  BY PhisLeadAll
<1> QED
  BY <1>1, PassCorrect, PTL

-----------------------------------------------------------------------------
(* The program that the pass made: what it counts, writes and prints.      *)

PrintedCount == [count : Nat, of : Nat]

RunTypeOK ==
  /\ counter \in Nat /\ retired \in Nat /\ memoryInstcounter \in Nat
  /\ trace \in Seq(Addrs) /\ wanted \in Seq(Addrs) /\ printed \in Seq(PrintedCount)

\* Nothing has been executed.
Fresh ==
  /\ at = 1 /\ counter = 0 /\ retired = 0 /\ memoryInstcounter = 0
  /\ trace = <<>> /\ wanted = <<>> /\ printed = <<>>

\* The counter of the instruction behind this one is still to run.
Behindhand == IF Current.kind \in {"count", "trace"} THEN 1 ELSE 0

\* main's load has been executed.
Loaded == \E k \in 1 .. at - 1 : code[block][k].kind = "load"

RunsOn ==
  /\ at \in 1 .. Len(code[block])
  /\ counter = retired - Behindhand
  /\ memoryInstcounter = Len(trace) /\ Len(trace) <= memoryAccessLimit
  /\ Len(wanted) = Len(trace) + (IF Pending THEN 1 ELSE 0)
  /\ Pending => address = wanted[Len(wanted)]
  /\ Len(printed) = IF Loaded THEN 1 ELSE 0

HasEnded ==
  /\ \/ Len(printed) = 1
     \/ Len(printed) = 2 /\ memoryInstcounter > memoryAccessLimit
  /\ \/ Len(wanted) = Len(trace)
     \/ Len(trace) = memoryAccessLimit /\ Len(wanted) = Len(trace) + 1

RunInv ==
  /\ RunTypeOK
  /\ stage \notin {"run", "ended"} => Fresh
  /\ stage = "run" => RunsOn
  /\ stage = "ended" => HasEnded
  /\ Len(trace) <= Len(wanted) /\ \A k \in 1 .. Len(trace) : trace[k] = wanted[k]
  /\ \A k \in 1 .. Len(printed) : printed[k].count = printed[k].of

\* Nothing runs before the pass is done.
LEMMA InitRun == Init => RunInv
<1> SUFFICES ASSUME Init PROVE RunInv
  OBVIOUS
<1>1. RunTypeOK
  BY DEF Init, RunTypeOK
<1>2. stage = "print" /\ Fresh
  BY DEF Init, Fresh
<1>3. Len(trace) = 0 /\ Len(wanted) = 0 /\ Len(printed) = 0
  BY DEF Init
<1> QED
  BY <1>1, <1>2, <1>3 DEF RunInv

\* From an instruction that does not end its block the program goes on to the
\* next one: the call when this is a GEP, the counter when this one counts.
LEMMA Advance ==
  ASSUME PassInv, RunsOn, stage = "run", code' = code, block' = block, at' = at + 1,
         Current.kind \notin Ends
  PROVE  /\ at' \in 1 .. Len(code[block]')
         /\ Current'.kind = "trace" <=> Current.kind = "gep"
         /\ Current'.kind = "count" <=> Current.kind \notin {"phi", "gep", "count"}
         /\ Loaded' <=> Loaded \/ Current.kind = "load"
         /\ Current.kind = "load" => ~Loaded
<1> DEFINE B == code[block]
           n == Len(B)
<1>1. Block(B) /\ LoadsPlaced(block, B) /\ CallsPlaced(B)
  BY DEF PassInv, BlockInv, Placed
<1>2. n \in Nat /\ at \in 1 .. n /\ Current = B[at] /\ (Current.kind \in Ends <=> at = n)
  BY <1>1, BlockFacts DEF RunsOn, Current
<1>3. at \in 1 .. n - 1 /\ at + 1 \in 1 .. n
  BY <1>2
<1>4. Current' = B[at+1] /\ code[block]' = B
  BY DEF Current
<1>5. /\ B[at+1].kind = "trace" <=> B[at].kind = "gep"
      /\ B[at+1].kind = "count" <=> B[at].kind \notin {"phi", "gep", "count"}
  BY <1>1, <1>3 DEF CallsPlaced
<1>6. (at + 1) - 1 = at
  BY <1>2
<1>7. Loaded' <=> \E k \in 1 .. at : B[k].kind = "load"
  BY <1>6 DEF Loaded
<1>8. Loaded <=> \E k \in 1 .. at - 1 : B[k].kind = "load"
  BY DEF Loaded
<1>9. \A j, k \in 1 .. n : B[j].kind = "load" /\ B[k].kind = "load" => j = k
  BY <1>1 DEF LoadsPlaced
<1> HIDE DEF B, n
<1>10. \A k \in 1 .. at : k = at \/ k \in 1 .. at - 1
  BY <1>2
<1>11. Loaded' <=> Loaded \/ B[at].kind = "load"
  <2>1. \A k \in 1 .. at - 1 : k \in 1 .. at
    BY <1>2
  <2>2. at \in 1 .. at
    BY <1>2
  <2> QED
    BY <1>7, <1>8, <1>10, <2>1, <2>2, Zenon
<1>12. B[at].kind = "load" => ~Loaded
  <2>1. \A k \in 1 .. at - 1 : k \in 1 .. n /\ k # at
    BY <1>2
  <2> QED
    BY <1>2, <1>8, <1>9, <2>1
<1> QED
  BY <1>2, <1>3, <1>4, <1>5, <1>11, <1>12 DEF n

\* What is where in a sequence that has grown by one.
LEMMA Appended ==
  ASSUME NEW X, NEW s \in Seq(X), NEW x \in X
  PROVE  /\ Append(s, x) \in Seq(X) /\ Len(Append(s, x)) = Len(s) + 1
         /\ Append(s, x)[Len(s) + 1] = x /\ Len(s) \in Nat
         /\ \A k \in 1 .. Len(s) : Append(s, x)[k] = s[k]
OBVIOUS

\* An instruction of the program: retired, and still to be counted unless a GEP.
LEMMA ExecuteStep ==
  ASSUME PassInv, RunInv, Execute
  PROVE  RunInv'
<1>1. /\ stage = "run" /\ stage' = "run" /\ code' = code /\ block' = block /\ at' = at + 1
      /\ Current.kind \in Kinds \ Ends
      /\ counter' = counter /\ memoryInstcounter' = memoryInstcounter
      /\ trace' = trace /\ printed' = printed
      /\ retired' = IF Current.kind = "phi" THEN retired ELSE retired + 1
  BY DEF Execute, Running, pass, globals
<1>2. RunTypeOK /\ RunsOn
  BY <1>1 DEF RunInv
<1>3. /\ at' \in 1 .. Len(code[block]')
      /\ Current'.kind = "trace" <=> Current.kind = "gep"
      /\ Current'.kind = "count" <=> Current.kind \notin {"phi", "gep", "count"}
      /\ Loaded' <=> Loaded \/ Current.kind = "load"
  BY <1>1, <1>2, Advance
<1>4. Current.kind \notin {"load", "count", "trace"}
  BY <1>1 DEF Kinds
<1>5. counter' = retired' - Behindhand'
  BY <1>1, <1>2, <1>3, <1>4 DEF RunsOn, Behindhand, RunTypeOK
<1>6. Pending' <=> Current.kind = "gep" /\ retired > skipInstrLimit
  BY <1>1, <1>2, <1>3 DEF Pending, RunTypeOK
<1>7. ~Pending /\ Len(wanted) = Len(trace)
  <2>1. ~Pending
    BY <1>4 DEF Pending
  <2>2. Len(trace) \in Nat
    BY <1>2 DEF RunTypeOK
  <2> QED
    BY <1>2, <2>1, <2>2 DEF RunsOn
<1>8. /\ wanted' \in Seq(Addrs)
      /\ Len(wanted') = Len(trace') + (IF Pending' THEN 1 ELSE 0)
      /\ Pending' => address' = wanted'[Len(wanted')]
      /\ \A k \in 1 .. Len(trace') : trace'[k] = wanted'[k]
      /\ Len(trace') <= Len(wanted')
  <2>1. wanted \in Seq(Addrs) /\ Len(trace) \in Nat
    BY <1>2 DEF RunTypeOK
  <2>2. \A k \in 1 .. Len(trace) : trace[k] = wanted[k]
    BY DEF RunInv
  <2>3. CASE Pending'
    <3>1. address' \in Addrs /\ wanted' = Append(wanted, address')
      BY <1>6, <2>3 DEF Execute
    <3>2. /\ wanted' \in Seq(Addrs) /\ Len(wanted') = Len(wanted) + 1
          /\ wanted'[Len(wanted) + 1] = address'
          /\ \A k \in 1 .. Len(wanted) : wanted'[k] = wanted[k]
      BY <2>1, <3>1, Appended
    <3> QED
      BY <1>1, <1>7, <2>1, <2>2, <2>3, <3>2
  <2>4. CASE ~Pending'
    <3>1. wanted' = wanted
      BY <1>6, <2>4 DEF Execute
    <3> QED
      BY <1>1, <1>7, <2>1, <2>2, <2>4, <3>1
  <2> QED
    BY <2>3, <2>4
<1>9. RunTypeOK'
  BY <1>1, <1>2, <1>8 DEF RunTypeOK
<1>10. RunsOn'
  <2>1. /\ memoryInstcounter' = Len(trace') /\ Len(trace') <= memoryAccessLimit
        /\ Len(printed') = IF Loaded' THEN 1 ELSE 0
    BY <1>1, <1>2, <1>3, <1>4 DEF RunsOn
  <2> QED
    BY <1>3, <1>5, <1>8, <2>1 DEF RunsOn
<1>11. \A k \in 1 .. Len(printed') : printed'[k].count = printed'[k].of
  BY <1>1 DEF RunInv
<1> QED
  BY <1>1, <1>8, <1>9, <1>10, <1>11 DEF RunInv

\* A step that adds nothing to the trace and is not one of a GEP.
LEMMA QuietStep ==
  ASSUME PassInv, RunInv, stage = "run", stage' = "run", code' = code, block' = block,
         at' = at + 1, Current.kind \notin Ends, Current.kind # "gep", ~Pending,
         trace' = trace, wanted' = wanted, memoryInstcounter' = memoryInstcounter,
         counter' \in Nat, retired' \in Nat, counter' = retired' - Behindhand',
         \/ Current.kind # "load" /\ printed' = printed
         \/ /\ Current.kind = "load"
            /\ \E c \in Nat : printed' = Append(printed, [count |-> c, of |-> c])
  PROVE  RunInv'
<1>1. RunTypeOK /\ RunsOn
  BY DEF RunInv
<1>2. /\ at' \in 1 .. Len(code[block]')
      /\ Current'.kind = "trace" <=> Current.kind = "gep"
      /\ Loaded' <=> Loaded \/ Current.kind = "load"
      /\ Current.kind = "load" => ~Loaded
  BY <1>1, Advance
<1>3. ~Pending'
  BY <1>2 DEF Pending
<1>4. /\ printed' \in Seq(PrintedCount)
      /\ Len(printed') = IF Loaded' THEN 1 ELSE 0
      /\ \A k \in 1 .. Len(printed') : printed'[k].count = printed'[k].of
  <2>1. /\ printed \in Seq(PrintedCount) /\ Len(printed) = IF Loaded THEN 1 ELSE 0
        /\ \A k \in 1 .. Len(printed) : printed[k].count = printed[k].of
    BY <1>1 DEF RunTypeOK, RunsOn, RunInv
  <2>2. CASE Current.kind # "load"
    BY <1>2, <2>1, <2>2
  <2>3. CASE Current.kind = "load"
    <3>1. PICK c \in Nat : printed' = Append(printed, [count |-> c, of |-> c])
      BY <2>3
    <3> DEFINE r == [count |-> c, of |-> c]
    <3>2. r \in PrintedCount /\ r.count = r.of
      BY DEF PrintedCount
    <3>3. printed' = Append(printed, r)
      BY <3>1
    <3> HIDE DEF r
    <3>4. /\ printed' \in Seq(PrintedCount) /\ Len(printed') = Len(printed) + 1
          /\ printed'[Len(printed) + 1] = r
          /\ \A k \in 1 .. Len(printed) : printed'[k] = printed[k]
      BY <2>1, <3>2, <3>3, Appended
    <3>5. Len(printed) = 0
      BY <1>2, <2>1, <2>3
    <3>6. Len(printed') = 1 /\ printed'[1] = r
      BY <3>4, <3>5
    <3>7. Loaded'
      BY <1>2, <2>3
    <3>8. \A k \in 1 .. Len(printed') : k = 1
      BY <3>6
    <3> QED
      BY <3>2, <3>4, <3>6, <3>7, <3>8
  <2> QED
    BY <2>2, <2>3
<1>5. RunTypeOK'
  BY <1>1, <1>4 DEF RunTypeOK
<1>6. RunsOn'
  <2>1. Len(wanted') = Len(trace') + 0
    BY <1>1 DEF RunsOn
  <2> QED
    BY <1>1, <1>2, <1>3, <1>4, <2>1 DEF RunsOn
<1> QED
  BY <1>4, <1>5, <1>6 DEF RunInv

\* The counter catches up.
LEMMA CountRun ==
  ASSUME PassInv, RunInv, Count
  PROVE  RunInv'
<1>1. /\ stage = "run" /\ stage' = "run" /\ code' = code /\ block' = block /\ at' = at + 1
      /\ Current.kind = "count" /\ counter' = counter + 1 /\ retired' = retired
      /\ memoryInstcounter' = memoryInstcounter /\ trace' = trace /\ wanted' = wanted
      /\ printed' = printed
  BY DEF Count, Running, pass, history
<1>2. RunTypeOK /\ RunsOn
  BY <1>1 DEF RunInv
<1>3. Current.kind \notin Ends /\ ~Pending
  BY <1>1 DEF Ends, Pending
<1>4. /\ Current'.kind = "trace" <=> Current.kind = "gep"
      /\ Current'.kind = "count" <=> Current.kind \notin {"phi", "gep", "count"}
  BY <1>1, <1>2, <1>3, Advance
<1>5. counter' \in Nat /\ retired' \in Nat /\ counter' = retired' - Behindhand'
  BY <1>1, <1>2, <1>4 DEF RunTypeOK, RunsOn, Behindhand
<1> QED
  BY <1>1, <1>3, <1>5, QuietStep

\* main prints the counter that it has loaded: all behind it has been counted.
LEMMA LoadRun ==
  ASSUME PassInv, RunInv, LoadCounter
  PROVE  RunInv'
<1>1. /\ stage = "run" /\ stage' = "run" /\ code' = code /\ block' = block /\ at' = at + 1
      /\ Current.kind = "load" /\ counter' = counter /\ retired' = retired + 1
      /\ memoryInstcounter' = memoryInstcounter /\ trace' = trace /\ wanted' = wanted
      /\ printed' = Append(printed, [count |-> counter, of |-> retired])
  BY DEF LoadCounter, Running, pass
<1>2. RunTypeOK /\ RunsOn
  BY <1>1 DEF RunInv
<1>3. Current.kind \notin Ends /\ ~Pending
  BY <1>1 DEF Ends, Pending
<1>4. /\ Current'.kind = "trace" <=> Current.kind = "gep"
      /\ Current'.kind = "count" <=> Current.kind \notin {"phi", "gep", "count"}
  BY <1>1, <1>2, <1>3, Advance
<1>5. counter \in Nat /\ counter = retired
  BY <1>1, <1>2 DEF RunTypeOK, RunsOn, Behindhand
<1>6. counter' \in Nat /\ retired' \in Nat /\ counter' = retired' - Behindhand'
  BY <1>1, <1>4, <1>5 DEF Behindhand
<1>7. \E c \in Nat : printed' = Append(printed, [count |-> c, of |-> c])
  BY <1>1, <1>5
<1> QED
  BY <1>1, <1>3, <1>6, <1>7, QuietStep

\* The printf itself is counted, as any instruction is.
LEMMA PrintfRun ==
  ASSUME PassInv, RunInv, Printf
  PROVE  RunInv'
<1>1. /\ stage = "run" /\ stage' = "run" /\ code' = code /\ block' = block /\ at' = at + 1
      /\ Current.kind = "printf" /\ counter' = counter /\ retired' = retired + 1
      /\ memoryInstcounter' = memoryInstcounter /\ trace' = trace /\ wanted' = wanted
      /\ printed' = printed
  BY DEF Printf, Running, pass, globals
<1>2. RunTypeOK /\ RunsOn
  BY <1>1 DEF RunInv
<1>3. Current.kind \notin Ends /\ ~Pending
  BY <1>1 DEF Ends, Pending
<1>4. /\ Current'.kind = "trace" <=> Current.kind = "gep"
      /\ Current'.kind = "count" <=> Current.kind \notin {"phi", "gep", "count"}
  BY <1>1, <1>2, <1>3, Advance
<1>5. counter' \in Nat /\ retired' \in Nat /\ counter' = retired' - Behindhand'
  BY <1>1, <1>2, <1>4 DEF RunTypeOK, RunsOn, Behindhand
<1> QED
  BY <1>1, <1>3, <1>5, QuietStep

\* A call that skips was made for an address that is not wanted: the counter is
\* behind by the GEP alone.
LEMMA SkipRun ==
  ASSUME PassInv, RunInv, Skip
  PROVE  RunInv'
<1>1. /\ stage = "run" /\ stage' = "run" /\ code' = code /\ block' = block /\ at' = at + 1
      /\ Current.kind = "trace" /\ counter' = counter /\ retired' = retired
      /\ memoryInstcounter' = memoryInstcounter /\ trace' = trace /\ wanted' = wanted
      /\ printed' = printed
  BY DEF Skip, Running, pass, globals, history
<1>2. RunTypeOK /\ RunsOn
  BY <1>1 DEF RunInv
<1>3. Current.kind \notin Ends
  BY <1>1 DEF Ends
<1>4. counter = retired - 1 /\ counter <= skipInstrLimit
  BY <1>1, <1>2 DEF RunsOn, Behindhand, Skip, Skipping
<1>5. ~Pending
  BY <1>2, <1>4, LlvmAssumption DEF Pending, RunTypeOK
<1>6. /\ Current'.kind = "trace" <=> Current.kind = "gep"
      /\ Current'.kind = "count" <=> Current.kind \notin {"phi", "gep", "count"}
  BY <1>1, <1>2, <1>3, Advance
<1>7. counter' \in Nat /\ retired' \in Nat /\ counter' = retired' - Behindhand'
  BY <1>1, <1>2, <1>4, <1>6 DEF RunTypeOK, Behindhand
<1> QED
  BY <1>1, <1>3, <1>5, <1>7, QuietStep

\* One that writes was made for the last address that is wanted.
LEMMA WriteRun ==
  ASSUME PassInv, RunInv, Write
  PROVE  RunInv'
<1>1. /\ stage = "run" /\ stage' = "run" /\ code' = code /\ block' = block /\ at' = at + 1
      /\ Current.kind = "trace" /\ counter' = counter /\ retired' = retired
      /\ memoryInstcounter' = memoryInstcounter + 1 /\ trace' = Append(trace, address)
      /\ wanted' = wanted /\ printed' = printed
  BY DEF Write, Running, pass, history
<1>2. RunTypeOK /\ RunsOn
  BY <1>1 DEF RunInv
<1>3. Current.kind \notin Ends
  BY <1>1 DEF Ends
<1>4. counter = retired - 1 /\ counter \in Nat /\ ~(counter <= skipInstrLimit)
  BY <1>1, <1>2 DEF RunsOn, RunTypeOK, Behindhand, Write, Skipping
<1>5. Pending
  BY <1>1, <1>2, <1>4, LlvmAssumption DEF Pending, RunTypeOK
<1>6. /\ at' \in 1 .. Len(code[block]')
      /\ Current'.kind = "trace" <=> Current.kind = "gep"
      /\ Current'.kind = "count" <=> Current.kind \notin {"phi", "gep", "count"}
      /\ Loaded' <=> Loaded \/ Current.kind = "load"
  BY <1>1, <1>2, <1>3, Advance
<1>7. counter' = retired' - Behindhand'
  BY <1>1, <1>4, <1>6 DEF Behindhand
<1>8. ~Pending'
  BY <1>1, <1>6 DEF Pending
<1>9. /\ trace \in Seq(Addrs) /\ wanted \in Seq(Addrs) /\ Len(trace) \in Nat
      /\ Len(wanted) = Len(trace) + 1 /\ address = wanted[Len(wanted)]
      /\ \A k \in 1 .. Len(trace) : trace[k] = wanted[k]
  BY <1>2, <1>5 DEF RunTypeOK, RunsOn, RunInv
<1>10. address \in Addrs
  BY <1>9
<1>11. /\ trace' \in Seq(Addrs) /\ Len(trace') = Len(trace) + 1
       /\ trace'[Len(trace) + 1] = address
       /\ \A k \in 1 .. Len(trace) : trace'[k] = trace[k]
  BY <1>1, <1>9, <1>10, Appended
<1>12. \A k \in 1 .. Len(trace') : trace'[k] = wanted'[k]
  BY <1>1, <1>9, <1>11
<1>13. memoryInstcounter' = Len(trace') /\ Len(trace') <= memoryAccessLimit
  BY <1>1, <1>2, <1>9, <1>11, LlvmAssumption DEF RunsOn, RunTypeOK, Write, BelowLimit
<1>14. RunTypeOK'
  BY <1>1, <1>2, <1>11 DEF RunTypeOK
<1>15. RunsOn'
  <2>1. Len(wanted') = Len(trace') + 0
    BY <1>1, <1>9, <1>11
  <2>2. Len(printed') = IF Loaded' THEN 1 ELSE 0
    BY <1>1, <1>2, <1>6 DEF RunsOn
  <2> QED
    BY <1>6, <1>7, <1>8, <1>13, <2>1, <2>2 DEF RunsOn
<1>16. \A k \in 1 .. Len(printed') : printed'[k].count = printed'[k].of
  BY <1>1 DEF RunInv
<1>17. Len(trace') <= Len(wanted')
  BY <1>1, <1>9, <1>11
<1> QED
  BY <1>1, <1>12, <1>14, <1>15, <1>16, <1>17 DEF RunInv

\* At the limit the count is printed once more, without the GEP.
LEMMA ExitRun ==
  ASSUME PassInv, RunInv, Exit
  PROVE  RunInv'
<1>1. /\ stage = "run" /\ stage' = "ended" /\ Current.kind = "trace"
      /\ counter' = counter /\ retired' = retired
      /\ memoryInstcounter' = memoryInstcounter + 1 /\ trace' = trace /\ wanted' = wanted
      /\ printed' = Append(printed, [count |-> counter, of |-> retired - 1])
  BY DEF Exit, Running, pass, history
<1>2. RunTypeOK /\ RunsOn
  BY <1>1 DEF RunInv
<1>3. counter = retired - 1 /\ counter \in Nat /\ ~(counter <= skipInstrLimit)
  BY <1>1, <1>2 DEF RunsOn, RunTypeOK, Behindhand, Exit, Skipping
<1>4. Pending
  BY <1>1, <1>2, <1>3, LlvmAssumption DEF Pending, RunTypeOK
<1> DEFINE r == [count |-> counter, of |-> retired - 1]
<1>5. r \in PrintedCount /\ r.count = r.of /\ printed' = Append(printed, r)
  BY <1>1, <1>3 DEF PrintedCount
<1> HIDE DEF r
<1>6. printed \in Seq(PrintedCount) /\ \A k \in 1 .. Len(printed) : printed[k].count = printed[k].of
  BY <1>2 DEF RunTypeOK, RunInv
<1>7. /\ printed' \in Seq(PrintedCount) /\ Len(printed') = Len(printed) + 1
      /\ printed'[Len(printed) + 1] = r
      /\ \A k \in 1 .. Len(printed) : printed'[k] = printed[k]
      /\ Len(printed) \in Nat
  BY <1>5, <1>6, Appended
<1>8. \A k \in 1 .. Len(printed') : printed'[k].count = printed'[k].of
  BY <1>5, <1>6, <1>7
<1>9. Len(trace) = memoryAccessLimit /\ memoryInstcounter = memoryAccessLimit
  <2>1. Len(trace) \in Nat /\ memoryAccessLimit \in Nat
    BY <1>2, LlvmAssumption DEF RunTypeOK
  <2>2. /\ memoryInstcounter = Len(trace) /\ Len(trace) <= memoryAccessLimit
        /\ ~(memoryInstcounter < memoryAccessLimit)
    BY <1>2 DEF RunsOn, Exit, BelowLimit
  <2> QED
    BY <2>1, <2>2
<1>10. HasEnded'
  <2>1. Len(printed) = 0 \/ Len(printed) = 1
    BY <1>2 DEF RunsOn
  <2>2. Len(printed') = 1 \/ Len(printed') = 2
    BY <1>7, <2>1
  <2>3. memoryInstcounter' > memoryAccessLimit
    BY <1>1, <1>9, LlvmAssumption
  <2>4. Len(trace') = memoryAccessLimit /\ Len(wanted') = Len(trace') + 1
    BY <1>1, <1>2, <1>4, <1>9 DEF RunsOn
  <2> QED
    BY <2>2, <2>3, <2>4 DEF HasEnded
<1>11. RunTypeOK'
  BY <1>1, <1>2, <1>7 DEF RunTypeOK
<1> QED
  BY <1>1, <1>8, <1>10, <1>11 DEF RunInv

\* A program that returns from main has printed its count.
LEMMA EndRun ==
  ASSUME PassInv, RunInv, End
  PROVE  RunInv'
<1>1. /\ stage = "run" /\ code' = code /\ Current.kind \in Ends /\ at' = 1
      /\ counter' = counter /\ retired' = retired /\ memoryInstcounter' = memoryInstcounter
      /\ trace' = trace /\ wanted' = wanted /\ printed' = printed
  BY DEF End, Running, pass, globals
<1>2. RunTypeOK /\ RunsOn
  BY <1>1 DEF RunInv
<1> DEFINE B == code[block]
           n == Len(B)
<1>3. Block(B) /\ LoadsPlaced(block, B)
  BY <1>1 DEF PassInv, BlockInv, Placed
<1>4. n \in Nat /\ n >= 1 /\ at = n /\ Current = B[n]
  BY <1>1, <1>2, <1>3, BlockFacts DEF RunsOn, Current
<1>5. Current.kind \notin {"count", "trace", "load"}
  BY <1>1 DEF Ends
<1>6. counter = retired /\ ~Pending
  BY <1>2, <1>5 DEF RunsOn, RunTypeOK, Behindhand, Pending
<1>7. Len(wanted) = Len(trace)
  <2>1. Len(trace) \in Nat
    BY <1>2 DEF RunTypeOK
  <2> QED
    BY <1>2, <1>6, <2>1 DEF RunsOn
<1>8. Loaded <=> (block \in Main /\ Current.kind = "return")
  <2>1. CASE block \in Main /\ B[n].kind = "return"
    <3>1. PICK k \in 1 .. n : \A j \in 1 .. n : B[j].kind = "load" <=> j = k
      BY <1>3, <2>1 DEF LoadsPlaced
    <3>2. k # n /\ B[k].kind = "load"
      BY <1>4, <1>5, <3>1
    <3>3. k \in 1 .. at - 1
      BY <1>4, <3>2
    <3> QED
      BY <1>4, <2>1, <3>2, <3>3 DEF Loaded
  <2>2. CASE ~(block \in Main /\ B[n].kind = "return")
    <3>1. \A j \in 1 .. n : B[j].kind # "load"
      BY <1>3, <2>2 DEF LoadsPlaced
    <3>2. \A j \in 1 .. at - 1 : j \in 1 .. n
      BY <1>4
    <3> QED
      BY <1>4, <2>2, <3>1, <3>2 DEF Loaded
  <2> QED
    BY <2>1, <2>2
<1>9. RunTypeOK'
  BY <1>1, <1>2 DEF RunTypeOK
<1>10. /\ Len(trace') <= Len(wanted') /\ \A k \in 1 .. Len(trace') : trace'[k] = wanted'[k]
       /\ \A k \in 1 .. Len(printed') : printed'[k].count = printed'[k].of
  BY <1>1 DEF RunInv
<1>11. CASE Current.kind = "return" /\ block \in Main
  <2>1. stage' = "ended"
    BY <1>11 DEF End
  <2>2. Len(printed') = 1
    BY <1>1, <1>2, <1>8, <1>11 DEF RunsOn
  <2>3. HasEnded'
    BY <1>1, <1>7, <2>2 DEF HasEnded
  <2> QED
    BY <1>9, <1>10, <2>1, <2>3 DEF RunInv
<1>12. CASE ~(Current.kind = "return" /\ block \in Main)
  <2>1. block' \in DOMAIN code /\ stage' = "run"
    BY <1>1, <1>12 DEF End
  <2> DEFINE F == code[block']
  <2>2. Block(F) /\ CallsPlaced(F)
    BY <1>1, <2>1 DEF PassInv, BlockInv, Placed
  <2>3. Len(F) \in Nat /\ 1 \in 1 .. Len(F) /\ F[1].kind \notin {"count", "trace"}
    BY <2>2, BlockFacts DEF CallsPlaced
  <2>4. Current' = F[1] /\ code[block]' = F
    BY <1>1 DEF Current
  <2>5. counter' = retired' - Behindhand' /\ ~Pending'
    BY <1>1, <1>2, <1>6, <2>3, <2>4 DEF Behindhand, Pending, RunTypeOK
  <2>6. ~Loaded' /\ ~Loaded
    <3>1. 1 .. at' - 1 = {}
      BY <1>1
    <3> QED
      BY <1>8, <1>12, <3>1 DEF Loaded
  <2> HIDE DEF F
  <2>7. RunsOn'
    <3>1. Len(trace) \in Nat
      BY <1>2 DEF RunTypeOK
    <3>2. /\ memoryInstcounter' = Len(trace') /\ Len(trace') <= memoryAccessLimit
          /\ Len(wanted') = Len(trace') + 0 /\ Len(printed') = 0
      BY <1>1, <1>2, <1>7, <2>6, <3>1 DEF RunsOn
    <3> QED
      BY <1>1, <2>3, <2>4, <2>5, <2>6, <3>2 DEF RunsOn
  <2> QED
    BY <1>9, <1>10, <2>1, <2>7 DEF RunInv
<1> QED
  BY <1>11, <1>12

\* The pass runs nothing.
LEMMA PassRun ==
  ASSUME PassInv, RunInv, Pass
  PROVE  RunInv'
<1>1. /\ stage \notin {"run", "ended"} /\ stage' # "ended" /\ block' = block /\ at' = at
      /\ UNCHANGED <<globals, history>>
  BY DEF Pass, PrintAtReturn, ExpandConstants, CountInstructions, TraceGeps, Loop, Verify
<1>2. RunTypeOK /\ Fresh
  BY <1>1 DEF RunInv
<1>3. RunTypeOK' /\ Fresh'
  BY <1>1, <1>2 DEF RunTypeOK, Fresh, globals, history
<1>4. Len(trace') = 0 /\ Len(wanted') = 0 /\ Len(printed') = 0
  BY <1>3 DEF Fresh
<1>5. CASE stage' = "run"
  <2>1. Verify
    BY <1>5 DEF Pass, PrintAtReturn, ExpandConstants, CountInstructions, TraceGeps, Loop
  <2>2. code' = code /\ stage = "verify"
    BY <2>1 DEF Verify, pass
  <2> DEFINE B == code[block]
  <2>3. Block(B) /\ CallsPlaced(B)
    BY <2>2 DEF PassInv, BlockInv, Placed
  <2>4. Len(B) \in Nat /\ 1 \in 1 .. Len(B) /\ B[1].kind \notin {"count", "trace"}
    BY <2>3, BlockFacts DEF CallsPlaced
  <2>5. Current' = B[1] /\ code[block]' = B /\ at' = 1
    BY <1>1, <1>2, <2>2 DEF Current, Fresh
  <2>6. Behindhand' = 0 /\ ~Pending'
    BY <2>4, <2>5 DEF Behindhand, Pending
  <2>7. ~Loaded'
    <3>1. 1 .. at' - 1 = {}
      BY <2>5
    <3> QED
      BY <3>1 DEF Loaded
  <2> HIDE DEF B
  <2>8. RunsOn'
    BY <1>3, <1>4, <2>4, <2>5, <2>6, <2>7, LlvmAssumption DEF RunsOn, Fresh
  <2> QED
    BY <1>3, <1>4, <1>5, <2>8 DEF RunInv
<1>6. CASE stage' # "run"
  BY <1>1, <1>3, <1>4, <1>6 DEF RunInv
<1> QED
  BY <1>5, <1>6

\* Every step of the run.
LEMMA RunStep == PassInv /\ RunInv /\ [Next]_vars => RunInv'
<1> SUFFICES ASSUME PassInv, RunInv, [Next]_vars PROVE RunInv'
  OBVIOUS
<1>1. CASE UNCHANGED vars
  BY <1>1 DEF vars, pass, globals, history, RunInv, RunTypeOK, Fresh, RunsOn, HasEnded,
              Behindhand, Loaded, Pending, Current
<1> QED
  BY <1>1, PassRun, ExecuteStep, EndRun, CountRun, LoadRun, PrintfRun, SkipRun, WriteRun,
     ExitRun DEF Next

\* At every point of a run the counter is behind by the instruction whose counter
\* is next and by nothing else, the trace is what is wanted so far but for the GEP
\* whose call is next, and what was printed was exact.
THEOREM RunCorrect == Spec => []RunInv
<1>1. Init => RunInv
  BY InitRun
<1>2. PassInv /\ RunInv /\ [Next]_vars => RunInv'
  BY RunStep
<1> QED
  BY <1>1, <1>2, PassCorrect, PTL DEF Spec

\* The two properties are its ends.
LEMMA Exact == RunInv => TraceExact /\ CountExact
<1> SUFFICES ASSUME RunInv PROVE TraceExact /\ CountExact
  OBVIOUS
<1> DEFINE n == Len(trace)
<1>1. trace \in Seq(Addrs) /\ wanted \in Seq(Addrs) /\ n \in Nat /\ Len(wanted) \in Nat
  BY DEF RunInv, RunTypeOK
<1>2. n <= Len(wanted) /\ \A k \in 1 .. n : trace[k] = wanted[k]
  BY DEF RunInv
<1>3. trace = SubSeq(wanted, 1, n)
  <2> DEFINE w == SubSeq(wanted, 1, n)
  <2>1. w \in Seq(Addrs) /\ Len(w) = n /\ \A k \in 1 .. n : w[k] = wanted[k]
    <3>1. \A k \in 1 .. n : wanted[k] \in Addrs
      BY <1>1, <1>2
    <3> QED
      BY <1>1, <1>2, <3>1
  <2> HIDE DEF w
  <2>2. trace = w
    BY <1>1, <1>2, <2>1, SeqEqual
  <2> QED
    BY <2>2 DEF w
<1>4. stage \notin {"run", "ended"} => Len(wanted) = n /\ Len(printed) = 0
  BY DEF RunInv, Fresh
<1>5. stage \in {"run", "ended"} \/ stage \notin {"run", "ended"}
  OBVIOUS
<1>6. \/ Len(wanted) = n + (IF Pending THEN 1 ELSE 0)
      \/ n = memoryAccessLimit /\ Len(wanted) = n + 1 /\ stage = "ended"
  <2>1. CASE stage = "run"
    BY <2>1 DEF RunInv, RunsOn
  <2>2. CASE stage = "ended"
    <3>1. ~Pending /\ HasEnded
      BY <2>2 DEF Pending, RunInv
    <3> QED
      BY <1>1, <2>2, <3>1 DEF HasEnded
  <2>3. CASE stage \notin {"run", "ended"}
    <3>1. ~Pending
      BY <2>3 DEF Pending
    <3> QED
      BY <1>1, <1>4, <2>3, <3>1
  <2> QED
    BY <2>1, <2>2, <2>3
<1>7. TraceExact
  BY <1>2, <1>3, <1>6 DEF TraceExact
<1>8. CountExact
  <2>1. stage = "run" => counter = retired - (IF Current.kind \in {"count", "trace"} THEN 1 ELSE 0)
    BY DEF RunInv, RunsOn, Behindhand
  <2>2. stage = "ended" => \/ Len(printed) = 1
                           \/ Len(printed) = 2 /\ memoryInstcounter > memoryAccessLimit
    BY DEF RunInv, HasEnded
  <2>3. \A k \in DOMAIN printed : printed[k].count = printed[k].of
    <3>1. DOMAIN printed = 1 .. Len(printed)
      BY DEF RunInv, RunTypeOK
    <3> QED
      BY <3>1 DEF RunInv
  <2> QED
    BY <2>1, <2>2, <2>3 DEF CountExact
<1> QED
  BY <1>7, <1>8

\* The trace of a program of any size is the addresses that its GEPs compute
\* after the skip, in their order, each once, up to the limit.
THEOREM TraceIsExact == Spec => []TraceExact
<1>1. RunInv => TraceExact
  BY Exact
<1> QED
  BY <1>1, RunCorrect, PTL

\* The counter misses no instruction that counts, and a program that has ended
\* has printed it.
THEOREM CountIsExact == Spec => []CountExact
<1>1. RunInv => CountExact
  BY Exact
<1> QED
  BY <1>1, RunCorrect, PTL
=============================================================================
