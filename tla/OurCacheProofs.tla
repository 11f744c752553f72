--------------------------- MODULE OurCacheProofs ---------------------------
(***************************************************************************)
(* Theorems about the cache simulator, for every geometry, every trace and *)
(* every content of the uninitialised lines: what the lines hold, and, by  *)
(* counting lines against blocks, that the caches implement stack          *)
(* distances, that a larger one includes a smaller one and that no block   *)
(* is evicted while those of its set fit.                                  *)
(***************************************************************************)
EXTENDS OurCache, CacheArithmetic, FiniteSetTheorems

(***************************************************************************)
(* The place of an address.                                                *)
(***************************************************************************)

\* Every cache has at least one set and one way, in either organisation.
LEMMA GeometryPositive ==
  ASSUME NEW c \in Caches, fullyAssoc \in BOOLEAN
  PROVE  /\ NumSets(c) \in Nat \ {0}
         /\ Assoc(c) \in Nat \ {0}
<1>1. /\ Sizes[c] \in Nat
      /\ DefaultAssoc \in Nat \ {0}
      /\ BlkSize \in Nat \ {0}
      /\ Sizes[c] \div (DefaultAssoc * BlkSize) > 0
  BY GeometryAssumption DEF Caches
<1>2. /\ Sizes[c] \div (DefaultAssoc * BlkSize) \in Nat \ {0}
      /\ Sizes[c] \div BlkSize \in Nat \ {0}
  BY <1>1, DivPositive
<1> QED
  BY <1>1, <1>2 DEF NumSets, Assoc

\* findSet and getTag give every address a set of the cache and a tag.
LEMMA PlaceType ==
  ASSUME NEW c \in Caches, fullyAssoc \in BOOLEAN, NEW addr \in Nat
  PROVE  /\ addr \div BlkSize \in Nat
         /\ findSet(c, addr) \in Sets(c)
         /\ getTag(c, addr) \in Nat
         /\ getTag(c, addr) = (addr \div BlkSize) \div NumSets(c)
<1>1. NumSets(c) \in Nat \ {0} /\ BlkSize \in Nat \ {0}
  BY GeometryPositive, GeometryAssumption
<1>2. addr \div BlkSize \in Nat
  BY <1>1, DivMod
<1> DEFINE b == addr \div BlkSize
<1>3. b \in Nat /\ addr \div (BlkSize * NumSets(c)) = b \div NumSets(c)
  BY <1>1, <1>2, DivDiv
<1> HIDE DEF b
<1>4. b \div NumSets(c) \in Nat /\ b % NumSets(c) \in 0 .. NumSets(c) - 1
  BY <1>1, <1>3, DivMod
<1> QED
  BY <1>3, <1>4 DEF findSet, getTag, Sets, b

\* Set and tag together are the block: two addresses meet in a line only when
\* they lie in the same block.
LEMMA SamePlace ==
  ASSUME NEW c \in Caches, fullyAssoc \in BOOLEAN, NEW x \in Nat, NEW y \in Nat
  PROVE  (findSet(c, x) = findSet(c, y) /\ getTag(c, x) = getTag(c, y))
           <=> x \div BlkSize = y \div BlkSize
<1>1. NumSets(c) \in Nat \ {0}
  BY GeometryPositive
<1> DEFINE bx == x \div BlkSize
           by == y \div BlkSize
<1>2. /\ bx \in Nat /\ by \in Nat
      /\ getTag(c, x) = bx \div NumSets(c)
      /\ getTag(c, y) = by \div NumSets(c)
      /\ findSet(c, x) = bx % NumSets(c)
      /\ findSet(c, y) = by % NumSets(c)
  BY PlaceType DEF findSet
<1> HIDE DEF bx, by
<1>3. ASSUME bx % NumSets(c) = by % NumSets(c), bx \div NumSets(c) = by \div NumSets(c)
      PROVE  bx = by
  BY <1>1, <1>2, <1>3, SameQuotientAndRemainder
<1> QED
  BY <1>2, <1>3 DEF bx, by

\* A scan that stops at the first match returns one of the matches.
LEMMA FirstIn ==
  ASSUME NEW c \in Caches, NEW W \in SUBSET Ways(c), W # {}
  PROVE  First(W) \in W
<1>1. W \subseteq Nat
  BY DEF Ways
<1> QED
  BY <1>1, LeastExists DEF First

(***************************************************************************)
(* What one access does to the lines.                                      *)
(***************************************************************************)

LineFilled(c, addr) ==
  [tag |-> getTag(c, addr), timestamp |-> globalClock[c], valid |-> TRUE]

\* The way an access writes: the first that matches, or one to replace.
WrittenWays(c, addr) ==
  LET s == findSet(c, addr)
      ways == HitWays(c, s, getTag(c, addr))
  IN IF ways # {} THEN {First(ways)} ELSE ReplacementWays(c, s)

LEMMA WrittenWaysType ==
  ASSUME TypeOK, NEW c \in Caches, NEW addr \in Nat, NEW w \in WrittenWays(c, addr)
  PROVE  w \in Ways(c)
<1> DEFINE s == findSet(c, addr)
           W == HitWays(c, s, getTag(c, addr))
<1>1. s \in Sets(c) /\ Assoc(c) \in Nat \ {0}
  BY PlaceType, GeometryPositive, InputAssumption DEF TypeOK
<1>2. lines[c] \in [Sets(c) -> [Ways(c) -> OurCacheLine]]
  BY DEF TypeOK
<1>3. CASE W # {}
  <2>1. W \in SUBSET Ways(c)
    BY DEF HitWays
  <2>2. First(W) \in W
    BY <1>3, <2>1, FirstIn
  <2> QED
    BY <1>3, <2>1, <2>2 DEF WrittenWays
<1>4. CASE W = {}
  <2>1. w \in ReplacementWays(c, s)
    BY <1>4 DEF WrittenWays
  <2>2. CASE InvalidWays(c, s) # {}
    BY <2>1, <2>2, FirstIn DEF ReplacementWays, InvalidWays
  <2>3. CASE InvalidWays(c, s) = {} /\ rp = "LRU"
    <3> DEFINE T == {lines[c][s][v].timestamp : v \in Ways(c)}
    <3>1. T \subseteq Nat /\ T # {}
      <4>1. 0 \in Ways(c)
        BY <1>1 DEF Ways
      <4> QED
        BY <1>1, <1>2, <4>1 DEF OurCacheLine, TimeStamp
    <3>2. \E t \in T : \A u \in T : t <= u
      BY <3>1, LeastExists
    <3>3. OldestWays(c, s) # {}
      BY <3>2 DEF OldestWays
    <3>4. First(OldestWays(c, s)) \in OldestWays(c, s)
      BY <3>3, FirstIn DEF OldestWays
    <3> QED
      BY <2>1, <2>3, <3>4 DEF ReplacementWays, OldestWays
  <2>4. CASE InvalidWays(c, s) = {} /\ rp # "LRU"
    BY <2>1, <2>4 DEF ReplacementWays
  <2> QED
    BY <2>2, <2>3, <2>4
<1> QED
  BY <1>3, <1>4

\* An access of a cache writes one line, with the tag of the address and the
\* clock, and leaves every other line of every cache alone.
LEMMA AccessEffect ==
  ASSUME TypeOK, NEW c \in Caches, NEW addr \in Nat, Access(c, addr)
  PROVE  \E w \in WrittenWays(c, addr) :
           lines' = [lines EXCEPT ![c][findSet(c, addr)][w] = LineFilled(c, addr)]
<1> DEFINE s == findSet(c, addr)
           W == HitWays(c, s, getTag(c, addr))
<1>1. CASE Hit(c, addr)
  <2> DEFINE w == First(W)
  <2>1. W # {} /\ lines' = [lines EXCEPT ![c][s][w].timestamp = globalClock[c]]
    BY <1>1 DEF Hit
  <2>2. w \in W /\ w \in Ways(c)
    BY <2>1, FirstIn DEF HitWays
  <2>3. lines[c][s][w] \in OurCacheLine
    <3>1. s \in Sets(c)
      BY PlaceType, InputAssumption DEF TypeOK
    <3> QED
      BY <2>2, <3>1 DEF TypeOK
  <2>4. [lines[c][s][w] EXCEPT !.timestamp = globalClock[c]] = LineFilled(c, addr)
    <3> DEFINE l == lines[c][s][w]
    <3>1. l.valid /\ l.tag = getTag(c, addr)
      BY <2>2 DEF HitWays
    <3>2. l.valid = TRUE
      BY <2>3, <3>1 DEF OurCacheLine
    <3> HIDE DEF l
    <3>3. l \in OurCacheLine
      BY <2>3 DEF l
    <3>4. [l EXCEPT !.timestamp = globalClock[c]]
            = [tag |-> l.tag, timestamp |-> globalClock[c], valid |-> l.valid]
      BY <3>3 DEF OurCacheLine
    <3> QED
      BY <3>1, <3>2, <3>4 DEF LineFilled, l
  <2>5. lines' = [lines EXCEPT ![c][s][w] = LineFilled(c, addr)]
    BY <2>1, <2>4
  <2>6. w \in WrittenWays(c, addr)
    BY <2>1 DEF WrittenWays
  <2> QED
    BY <2>5, <2>6
<1>2. CASE Miss(c, addr)
  BY <1>2 DEF Miss, WrittenWays, LineFilled
<1> QED
  BY <1>1, <1>2 DEF Access

\* An access advances its cache's clock and counts once, a hit when the block
\* was there and a miss when it was not.
LEMMA CountEffect ==
  ASSUME NEW c \in Caches, NEW addr \in Nat, Access(c, addr)
  PROVE  /\ globalClock' = [globalClock EXCEPT ![c] = @ + 1]
         /\ \/ /\ HitWays(c, findSet(c, addr), getTag(c, addr)) # {}
               /\ numHits' = [numHits EXCEPT ![c] = @ + 1]
               /\ numMisses' = numMisses
            \/ /\ HitWays(c, findSet(c, addr), getTag(c, addr)) = {}
               /\ numMisses' = [numMisses EXCEPT ![c] = @ + 1]
               /\ numHits' = numHits
<1>1. CASE Hit(c, addr)
  BY <1>1 DEF Access, Hit
<1>2. CASE Miss(c, addr)
  BY <1>2 DEF Access, Miss
<1> QED
  BY <1>1, <1>2 DEF Access

(***************************************************************************)
(* Types.                                                                  *)
(***************************************************************************)

\* Every reachable state is well typed, whatever the uninitialised lines held.
THEOREM TypeCorrect == Spec => []TypeOK
<1>1. Init => TypeOK
  <2> SUFFICES ASSUME Init
               PROVE  TypeOK
    OBVIOUS
  <2>1. 0 \in 0 .. Len(memoryTraces) /\ memoryTraces \in Traces
    BY InputAssumption DEF Init
  <2>2. 1 \in Caches
    BY GeometryAssumption DEF Caches
  <2>3. rp \in ReplPolicy /\ fullyAssoc \in BOOLEAN
    <3>1. PICK argv \in Arguments : ReadsArgument(argv)
      BY DEF Init
    <3>2. rp \in ReplPolicy
      BY <3>1 DEF ReadsArgument, ReplPolicy
    <3>3. fullyAssoc \in BOOLEAN
      BY <3>1, Zenon DEF ReadsArgument
    <3> QED
      BY <3>2, <3>3
  <2>4. lines = [c \in Caches |-> lines[c]] /\ \A c \in Caches : lines[c] \in NewCache(c)
    BY DEF Init
  <2>5. Garbage \subseteq OurCacheLine
    BY InputAssumption
  <2>6. ASSUME NEW c \in Caches
        PROVE  lines[c] \in [Sets(c) -> [Ways(c) -> OurCacheLine]]
    BY <2>4, <2>5 DEF NewCache
  <2>7. globalClock = [c \in Caches |-> 0] /\ numHits = [c \in Caches |-> 0]
        /\ numMisses = [c \in Caches |-> 0] /\ cur = 1 /\ i = 0
    BY DEF Init
  <2>8. {globalClock, numHits, numMisses} \subseteq [Caches -> Nat]
    BY <2>7
  <2>9. \A c \in Caches : lines[c] \in [Sets(c) -> [Ways(c) -> OurCacheLine]]
    BY <2>6
  <2>10. i \in 0 .. Len(memoryTraces) /\ cur \in Caches
    BY <2>1, <2>2, <2>7
  <2>11. globalClock \in [Caches -> TimeStamp] /\ numHits \in [Caches -> Nat]
         /\ numMisses \in [Caches -> Nat]
    BY <2>8 DEF TimeStamp
  <2> QED
    BY <2>1, <2>3, <2>4, <2>9, <2>10, <2>11 DEF TypeOK
<1>2. TypeOK /\ [Next]_vars => TypeOK'
  <2> SUFFICES ASSUME TypeOK, [Next]_vars
               PROVE  TypeOK'
    OBVIOUS
  <2>1. CASE SimulateOne
    <3> DEFINE addr == memoryTraces[i + 1]
    <3>1. addr \in Nat /\ i \in Nat /\ i + 1 \in 0 .. Len(memoryTraces)
      BY <2>1, InputAssumption DEF SimulateOne, TypeOK, Addr
    <3>2. cur' \in Caches /\ i' \in 0 .. Len(memoryTraces')
      <4>1. /\ cur \in Caches /\ i \in 0 .. Len(memoryTraces) /\ memoryTraces' = memoryTraces
            /\ cur' = IF cur = Len(Sizes) THEN 1 ELSE cur + 1
            /\ i' = IF cur = Len(Sizes) THEN i + 1 ELSE i
        BY <2>1 DEF SimulateOne, TypeOK, mode
      <4>2. Len(Sizes) \in Nat \ {0} /\ Caches = 1 .. Len(Sizes)
        BY GeometryAssumption DEF Caches
      <4> QED
        BY <3>1, <4>1, <4>2
    <3>3. PICK w \in WrittenWays(cur, addr) :
            lines' = [lines EXCEPT ![cur][findSet(cur, addr)][w] = LineFilled(cur, addr)]
      BY <2>1, <3>1, AccessEffect DEF SimulateOne, TypeOK
    <3>4. LineFilled(cur, addr) \in OurCacheLine
      BY <3>1, PlaceType, InputAssumption DEF LineFilled, OurCacheLine, Addr, TimeStamp, TypeOK
    <3>5. UNCHANGED <<memoryTraces, rp, fullyAssoc>>
      BY <2>1 DEF SimulateOne, mode
    <3>6. lines' = [c \in Caches |-> lines'[c]]
      BY <3>3 DEF TypeOK
    <3>7. ASSUME NEW c \in Caches
          PROVE  lines'[c] \in [Sets(c) -> [Ways(c) -> OurCacheLine]]
      <4>1. lines[c] \in [Sets(c) -> [Ways(c) -> OurCacheLine]]
        BY DEF TypeOK
      <4>2. lines'[c] = IF c = cur
                        THEN [lines[c] EXCEPT ![findSet(cur, addr)][w] = LineFilled(cur, addr)]
                        ELSE lines[c]
        BY <3>3 DEF TypeOK
      <4>3. CASE c = cur
        <5> DEFINE f == lines[cur]
                   s == findSet(cur, addr)
                   l == LineFilled(cur, addr)
        <5>1. f \in [Sets(cur) -> [Ways(cur) -> OurCacheLine]] /\ l \in OurCacheLine
          BY <3>4, <4>1, <4>3
        <5> HIDE DEF f, s, l
        <5>2. [f EXCEPT ![s][w] = l] \in [Sets(cur) -> [Ways(cur) -> OurCacheLine]]
          BY <5>1
        <5> QED
          BY <4>2, <4>3, <5>2 DEF f, s, l
      <4> QED
        BY <4>1, <4>2, <4>3
    <3>8. /\ globalClock' \in [Caches -> TimeStamp]
          /\ numHits' \in [Caches -> Nat]
          /\ numMisses' \in [Caches -> Nat]
      <4>1. Access(cur, addr) /\ cur \in Caches
        BY <2>1 DEF SimulateOne, TypeOK
      <4>2. globalClock' = [globalClock EXCEPT ![cur] = @ + 1]
        BY <3>1, <4>1, CountEffect
      <4>3. \/ numHits' = [numHits EXCEPT ![cur] = @ + 1] /\ numMisses' = numMisses
            \/ numMisses' = [numMisses EXCEPT ![cur] = @ + 1] /\ numHits' = numHits
        BY <3>1, <4>1, CountEffect
      <4>4. {globalClock, numHits, numMisses} \subseteq [Caches -> Nat]
        BY DEF TypeOK, TimeStamp
      <4>5. \A f \in [Caches -> Nat] : [f EXCEPT ![cur] = @ + 1] \in [Caches -> Nat]
        BY <4>1
      <4>6. numHits' \in [Caches -> Nat] /\ numMisses' \in [Caches -> Nat]
        BY <4>3, <4>4, <4>5, Zenon
      <4> QED
        BY <4>2, <4>4, <4>5, <4>6 DEF TimeStamp
    <3> QED
      BY <3>2, <3>5, <3>6, <3>7, <3>8 DEF TypeOK, Sets, Ways, NumSets, Assoc
  <2>2. CASE UNCHANGED vars
    BY <2>2 DEF vars, TypeOK, Sets, Ways, NumSets, Assoc
  <2> QED
    BY <2>1, <2>2 DEF Next
<1> QED
  BY <1>1, <1>2, PTL DEF Spec

(***************************************************************************)
(* Clocks.                                                                 *)
(***************************************************************************)

\* Every cache has counted each access once and is as far in the trace as the
\* loops of main() say.
THEOREM InStepCorrect == Spec => []InStep
<1>1. Init => InStep
  <2> SUFFICES ASSUME Init
               PROVE  InStep
    OBVIOUS
  <2>1. Len(memoryTraces) \in Nat
    BY InputAssumption DEF Init
  <2> QED
    BY <2>1 DEF Init, InStep, Caches
<1>2. TypeOK /\ InStep /\ [Next]_vars => InStep'
  <2> SUFFICES ASSUME TypeOK, InStep, [Next]_vars
               PROVE  InStep'
    OBVIOUS
  <2>1. CASE SimulateOne
    <3> DEFINE addr == memoryTraces[i + 1]
    <3>1. /\ addr \in Nat /\ Access(cur, addr) /\ cur \in Caches
          /\ i \in Nat /\ i < Len(memoryTraces) /\ Len(memoryTraces) \in Nat
          /\ Len(Sizes) \in Nat
      BY <2>1, InputAssumption, GeometryAssumption DEF SimulateOne, TypeOK, Addr
    <3>2. globalClock' = [globalClock EXCEPT ![cur] = @ + 1]
      BY <3>1, CountEffect
    <3>3. \/ numHits' = [numHits EXCEPT ![cur] = @ + 1] /\ numMisses' = numMisses
          \/ numMisses' = [numMisses EXCEPT ![cur] = @ + 1] /\ numHits' = numHits
      BY <3>1, CountEffect
    <3> SUFFICES ASSUME NEW c \in Caches
                 PROVE  /\ globalClock'[c] <= Len(memoryTraces)
                        /\ globalClock'[c] = i' + (IF c < cur' THEN 1 ELSE 0)
                        /\ globalClock'[c] = numHits'[c] + numMisses'[c]
      BY <2>1 DEF SimulateOne, mode, InStep
    <3>4. /\ globalClock[c] <= Len(memoryTraces)
          /\ globalClock[c] = i + (IF c < cur THEN 1 ELSE 0)
          /\ globalClock[c] = numHits[c] + numMisses[c]
          /\ globalClock[c] \in Nat /\ numHits[c] \in Nat /\ numMisses[c] \in Nat
      BY DEF InStep, TypeOK, TimeStamp
    <3>5. globalClock'[c] = IF c = cur THEN globalClock[c] + 1 ELSE globalClock[c]
      BY <3>1, <3>2 DEF TypeOK
    <3>6. numHits'[c] + numMisses'[c] = IF c = cur THEN numHits[c] + numMisses[c] + 1
                                        ELSE numHits[c] + numMisses[c]
      BY <3>1, <3>3, <3>4 DEF TypeOK
    <3>7. globalClock'[c] = i' + (IF c < cur' THEN 1 ELSE 0)
      BY <2>1, <3>1, <3>4, <3>5 DEF SimulateOne, Caches
    <3>8. globalClock'[c] <= Len(memoryTraces)
      BY <3>1, <3>4, <3>5 DEF Caches
    <3> QED
      BY <3>4, <3>5, <3>6, <3>7, <3>8
  <2>2. CASE UNCHANGED vars
    BY <2>2 DEF vars, InStep
  <2> QED
    BY <2>1, <2>2 DEF Next
<1> QED
  BY <1>1, <1>2, TypeCorrect, PTL DEF Spec

\* The access of a step, told by the clock of the cache that makes it: it is
\* the same for every cache, although the caches take turns.
LEMMA StepAccess ==
  ASSUME TypeOK, InStep, SimulateOne
  PROVE  /\ cur \in Caches
         /\ globalClock[cur] \in Nat
         /\ AddrAt(globalClock[cur]) \in Nat
         /\ Access(cur, AddrAt(globalClock[cur]))
         /\ UNCHANGED <<memoryTraces, rp, fullyAssoc>>
<1>1. globalClock[cur] = i /\ cur \in Caches /\ i \in Nat
  BY InputAssumption DEF InStep, TypeOK, Caches
<1>2. memoryTraces[i + 1] \in Nat
  BY InputAssumption DEF SimulateOne, TypeOK, Addr
<1> QED
  BY <1>1, <1>2 DEF SimulateOne, AddrAt, mode

\* The addresses a cache has seen are addresses of the trace.
LEMMA PastAddress ==
  ASSUME TypeOK, InStep, NEW c \in Caches, NEW t \in 0 .. globalClock[c] - 1
  PROVE  t \in Nat /\ AddrAt(t) \in Nat /\ globalClock[c] \in Nat
<1>1. /\ globalClock[c] \in Nat /\ globalClock[c] <= Len(memoryTraces)
      /\ memoryTraces \in Seq(Nat)
  BY InputAssumption DEF InStep, TypeOK, TimeStamp, Addr
<1>2. t \in Nat /\ t + 1 \in 1 .. Len(memoryTraces)
  BY <1>1
<1> QED
  BY <1>1, <1>2 DEF AddrAt

(***************************************************************************)
(* Lines and the trace.                                                    *)
(***************************************************************************)

\* The lines that match an address hold its block, so there is one at most.
LEMMA UniqueHit ==
  ASSUME TypeOK, InStep, LineHistory, NEW c \in Caches, NEW addr \in Nat,
         NEW w \in HitWays(c, findSet(c, addr), getTag(c, addr)),
         NEW v \in HitWays(c, findSet(c, addr), getTag(c, addr))
  PROVE  /\ BlockAt(lines[c][findSet(c, addr)][w].timestamp) = addr \div BlkSize
         /\ v = w
<1> DEFINE s == findSet(c, addr)
           t == lines[c][s][w].timestamp
           u == lines[c][s][v].timestamp
<1>0. fullyAssoc \in BOOLEAN
  BY InputAssumption DEF TypeOK
<1>1. s \in Sets(c) /\ w \in Ways(c) /\ v \in Ways(c)
  BY <1>0, PlaceType DEF HitWays
<1>2. lines[c][s][w].valid /\ lines[c][s][v].valid
  BY DEF HitWays
<1>3. t \in Nat /\ u \in Nat
  BY <1>1 DEF TypeOK, OurCacheLine, TimeStamp
<1>4. /\ t < globalClock[c] /\ findSet(c, AddrAt(t)) = s
      /\ getTag(c, AddrAt(t)) = getTag(c, addr)
      /\ \A x \in t + 1 .. globalClock[c] - 1 : BlockAt(x) # BlockAt(t)
  BY <1>1, <1>2 DEF LineHistory, HitWays
<1>5. /\ u < globalClock[c] /\ findSet(c, AddrAt(u)) = s
      /\ getTag(c, AddrAt(u)) = getTag(c, addr)
      /\ \A x \in u + 1 .. globalClock[c] - 1 : BlockAt(x) # BlockAt(u)
  BY <1>1, <1>2 DEF LineHistory, HitWays
<1>6. globalClock[c] \in Nat
  BY DEF TypeOK, TimeStamp
<1> HIDE DEF t, u
<1>7. AddrAt(t) \in Nat /\ AddrAt(u) \in Nat
  BY <1>3, <1>4, <1>5, <1>6, PastAddress
<1>8. BlockAt(t) = addr \div BlkSize
  BY <1>0, <1>4, <1>7, SamePlace DEF BlockAt
<1>9. BlockAt(u) = addr \div BlkSize
  BY <1>0, <1>5, <1>7, SamePlace DEF BlockAt
<1>10. t = u
  BY <1>3, <1>4, <1>5, <1>6, <1>8, <1>9
<1>11. v \in Ways(c) \ {w} => u # t
  BY <1>1, <1>2 DEF LineHistory, t, u
<1> QED
  BY <1>1, <1>8, <1>10, <1>11 DEF t

\* What a step leaves of the lines: the access of cache cur fills one line of
\* the set of the address, and that is all it changes.
LEMMA StepLines ==
  ASSUME TypeOK, InStep, SimulateOne
  PROVE  LET addr == AddrAt(globalClock[cur]) IN
         \E w0 \in WrittenWays(cur, addr) :
           /\ lines'[cur][findSet(cur, addr)][w0] = LineFilled(cur, addr)
           /\ \A c \in Caches : \A s \in Sets(c) : \A w \in Ways(c) :
                <<c, s, w>> # <<cur, findSet(cur, addr), w0>> => lines'[c][s][w] = lines[c][s][w]
<1> DEFINE addr == AddrAt(globalClock[cur])
           s0 == findSet(cur, addr)
<1>1. /\ cur \in Caches /\ addr \in Nat /\ Access(cur, addr)
      /\ fullyAssoc \in BOOLEAN
  BY StepAccess, InputAssumption DEF TypeOK
<1>2. PICK w0 \in WrittenWays(cur, addr) :
        lines' = [lines EXCEPT ![cur][s0][w0] = LineFilled(cur, addr)]
  BY <1>1, AccessEffect
<1>3. s0 \in Sets(cur) /\ w0 \in Ways(cur)
  BY <1>1, WrittenWaysType, PlaceType
<1> HIDE DEF s0, addr
<1>4. ASSUME NEW c \in Caches
      PROVE  /\ lines[c] \in [Sets(c) -> [Ways(c) -> OurCacheLine]]
             /\ lines'[c] = IF c = cur THEN [lines[cur] EXCEPT ![s0][w0] = LineFilled(cur, addr)]
                            ELSE lines[c]
  BY <1>1, <1>2 DEF TypeOK
<1>5. lines'[cur][s0][w0] = LineFilled(cur, addr)
  BY <1>1, <1>3, <1>4
<1>6. ASSUME NEW c \in Caches, NEW s \in Sets(c), NEW w \in Ways(c),
             <<c, s, w>> # <<cur, s0, w0>>
      PROVE  lines'[c][s][w] = lines[c][s][w]
  <2>1. CASE c # cur
    BY <1>4, <2>1
  <2>2. CASE c = cur
    <3>1. s # s0 \/ w # w0
      BY <1>6, <2>2
    <3> QED
      BY <1>4, <2>2, <3>1
  <2> QED
    BY <2>1, <2>2
<1> QED
  BY <1>5, <1>6 DEF s0, addr

\* The clocks after a step.
LEMMA StepClock ==
  ASSUME TypeOK, InStep, SimulateOne
  PROVE  \A c \in Caches :
           globalClock'[c] = IF c = cur THEN globalClock[cur] + 1 ELSE globalClock[c]
<1>1. cur \in Caches /\ AddrAt(globalClock[cur]) \in Nat
      /\ Access(cur, AddrAt(globalClock[cur]))
  BY StepAccess
<1>2. globalClock' = [globalClock EXCEPT ![cur] = @ + 1]
  BY <1>1, CountEffect
<1> QED
  BY <1>1, <1>2 DEF TypeOK

LEMMA LineHistoryStep ==
  ASSUME TypeOK, InStep, LineHistory, SimulateOne
  PROVE  LineHistory'
<1> DEFINE g == globalClock[cur]
           addr == AddrAt(g)
           s0 == findSet(cur, addr)
<1>1. /\ cur \in Caches /\ g \in Nat /\ addr \in Nat
      /\ UNCHANGED <<memoryTraces, rp, fullyAssoc>>
      /\ fullyAssoc \in BOOLEAN
  BY StepAccess, InputAssumption DEF TypeOK
<1>2. PICK w0 \in WrittenWays(cur, addr) :
        /\ lines'[cur][s0][w0] = LineFilled(cur, addr)
        /\ \A c \in Caches : \A s \in Sets(c) : \A w \in Ways(c) :
             <<c, s, w>> # <<cur, s0, w0>> => lines'[c][s][w] = lines[c][s][w]
  BY StepLines
<1>3. s0 \in Sets(cur) /\ w0 \in Ways(cur)
  BY <1>1, WrittenWaysType, PlaceType
<1>4. \A c \in Caches : globalClock'[c] = IF c = cur THEN g + 1 ELSE globalClock[c]
  BY StepClock
<1> SUFFICES ASSUME NEW c \in Caches, NEW s \in Sets(c), NEW w \in Ways(c),
                    lines'[c][s][w].valid
             PROVE  LET l == lines'[c][s][w] IN
                    /\ l.timestamp < globalClock'[c]
                    /\ findSet(c, AddrAt(l.timestamp)) = s
                    /\ getTag(c, AddrAt(l.timestamp)) = l.tag
                    /\ \A t \in l.timestamp + 1 .. globalClock'[c] - 1 :
                         BlockAt(t) # BlockAt(l.timestamp)
                    /\ \A v \in Ways(c) \ {w} :
                         lines'[c][s][v].valid => lines'[c][s][v].timestamp # l.timestamp
  BY <1>1 DEF LineHistory, Sets, Ways, NumSets, Assoc, findSet, getTag, AddrAt, BlockAt
<1>5. CASE <<c, s, w>> = <<cur, s0, w0>>
  <2>1. c = cur /\ s = s0 /\ w = w0
    BY <1>5
  <2>2. /\ lines'[c][s][w].timestamp = g
        /\ lines'[c][s][w].tag = getTag(cur, addr)
    BY <1>2, <2>1 DEF LineFilled
  <2>3. ASSUME NEW v \in Ways(c) \ {w}, lines'[c][s][v].valid
        PROVE  lines'[c][s][v].timestamp # g
    <3>1. lines'[c][s][v] = lines[c][s][v]
      BY <1>2, <2>1
    <3>2. lines[c][s][v].timestamp < g
      BY <2>1, <2>3, <3>1 DEF LineHistory
    <3> QED
      BY <1>1, <3>1, <3>2
  <2>4. \A t \in g + 1 .. (g + 1) - 1 : BlockAt(t) # BlockAt(g)
    BY <1>1
  <2> QED
    BY <1>1, <1>4, <2>1, <2>2, <2>3, <2>4
<1>6. CASE <<c, s, w>> # <<cur, s0, w0>>
  <2> DEFINE l == lines[c][s][w]
             t == l.timestamp
  <2>1. lines'[c][s][w] = l
    BY <1>2, <1>6
  <2>2. /\ t < globalClock[c] /\ findSet(c, AddrAt(t)) = s /\ getTag(c, AddrAt(t)) = l.tag
        /\ \A x \in t + 1 .. globalClock[c] - 1 : BlockAt(x) # BlockAt(t)
        /\ \A v \in Ways(c) \ {w} : lines[c][s][v].valid => lines[c][s][v].timestamp # t
    BY <2>1 DEF LineHistory
  <2>3. t \in Nat /\ globalClock[c] \in Nat
    BY DEF TypeOK, OurCacheLine, TimeStamp
  <2>4. AddrAt(t) \in Nat
    <3> HIDE DEF t
    <3> QED
      BY <2>2, <2>3, PastAddress
  <2>5. ASSUME c = cur
        PROVE  BlockAt(g) # BlockAt(t)
    <3> SUFFICES ASSUME BlockAt(g) = BlockAt(t)
                 PROVE  FALSE
      OBVIOUS
    <3>1. s = s0 /\ getTag(c, addr) = l.tag
      BY <1>1, <2>2, <2>4, <2>5, SamePlace DEF BlockAt
    <3>2. w \in HitWays(cur, s0, getTag(cur, addr))
      BY <2>1, <2>5, <3>1 DEF HitWays
    <3>3. w0 \in HitWays(cur, s0, getTag(cur, addr))
      <4>1. w0 = First(HitWays(cur, s0, getTag(cur, addr)))
        BY <3>2 DEF WrittenWays
      <4> QED
        BY <1>1, <3>2, <4>1, FirstIn DEF HitWays
    <3>4. w0 = w
      BY <1>1, <3>2, <3>3, UniqueHit
    <3> QED
      BY <1>6, <2>5, <3>1, <3>4
  <2>6. ASSUME NEW x \in t + 1 .. globalClock'[c] - 1
        PROVE  BlockAt(x) # BlockAt(t)
    BY <1>1, <1>4, <2>2, <2>3, <2>5, <2>6
  <2>7. ASSUME NEW v \in Ways(c) \ {w}, lines'[c][s][v].valid
        PROVE  lines'[c][s][v].timestamp # t
    <3>1. CASE <<c, s, v>> = <<cur, s0, w0>>
      BY <1>1, <1>2, <2>2, <2>3, <3>1 DEF LineFilled
    <3>2. CASE <<c, s, v>> # <<cur, s0, w0>>
      BY <1>2, <2>2, <2>7, <3>2
    <3> QED
      BY <3>1, <3>2
  <2>8. t < globalClock'[c]
    BY <1>1, <1>4, <2>2, <2>3
  <2> QED
    BY <2>1, <2>2, <2>6, <2>7, <2>8
<1> QED
  BY <1>5, <1>6

\* A valid line always tells the truth about the trace, and uninitialised
\* memory never matters: no field of a new line is used before `valid'.
THEOREM LineHistoryCorrect == Spec => []LineHistory
<1>1. Init => LineHistory
  <2> SUFFICES ASSUME Init, NEW c \in Caches, NEW s \in Sets(c), NEW w \in Ways(c)
               PROVE  ~lines[c][s][w].valid
    BY DEF LineHistory
  <2>1. lines[c][s][w] \in Garbage
    BY DEF Init, NewCache
  <2> QED
    BY <2>1, InputAssumption
<1>2. TypeOK /\ InStep /\ LineHistory /\ [Next]_vars => LineHistory'
  <2>1. ASSUME TypeOK, InStep, LineHistory, SimulateOne
        PROVE  LineHistory'
    BY <2>1, LineHistoryStep
  <2>2. ASSUME LineHistory, UNCHANGED vars
        PROVE  LineHistory'
    BY <2>2 DEF vars, LineHistory, Sets, Ways, NumSets, Assoc, findSet, getTag, AddrAt, BlockAt
  <2> QED
    BY <2>1, <2>2 DEF Next
<1> QED
  BY <1>1, <1>2, TypeCorrect, InStepCorrect, PTL DEF Spec

(***************************************************************************)
(* Least recent use.                                                       *)
(***************************************************************************)

\* A lookup of the address in cache c would succeed.
Found(c, addr) == HitWays(c, findSet(c, addr), getTag(c, addr)) # {}

\* Every line of the set of access t was used after it.
Overtaken(c, t) ==
  \A w \in Ways(c) :
    LET l == lines[c][findSet(c, AddrAt(t))][w] IN l.valid /\ l.timestamp > t

\* The inductive form of LruOrder: it speaks of lookups, which compare tags,
\* where LruOrder speaks of blocks.
LruFound ==
  rp = "LRU" =>
    \A c \in Caches : \A t \in 0 .. globalClock[c] - 1 :
      Found(c, AddrAt(t)) \/ Overtaken(c, t)

\* The victim of an LRU miss is older than every other line of its set, which
\* is full.
LEMMA VictimIsOldest ==
  ASSUME TypeOK, InStep, LineHistory, rp = "LRU", NEW c \in Caches, NEW addr \in Nat,
         ~Found(c, addr), NEW w \in WrittenWays(c, addr), lines[c][findSet(c, addr)][w].valid,
         NEW v \in Ways(c), v # w
  PROVE  /\ lines[c][findSet(c, addr)][v].valid
         /\ lines[c][findSet(c, addr)][v].timestamp > lines[c][findSet(c, addr)][w].timestamp
<1> DEFINE s == findSet(c, addr)
<1>1. s \in Sets(c) /\ w \in Ways(c)
  BY PlaceType, WrittenWaysType, InputAssumption DEF TypeOK
<1>2. w \in ReplacementWays(c, s)
  BY DEF WrittenWays, Found
<1>3. InvalidWays(c, s) = {}
  <2>1. ASSUME InvalidWays(c, s) # {}
        PROVE  FALSE
    <3>1. w = First(InvalidWays(c, s))
      BY <1>2, <2>1 DEF ReplacementWays
    <3>2. w \in InvalidWays(c, s)
      BY <2>1, <3>1, FirstIn DEF InvalidWays
    <3> QED
      BY <3>2 DEF InvalidWays
  <2> QED
    BY <2>1
<1>4. w \in OldestWays(c, s)
  <2>1. w = First(OldestWays(c, s))
    BY <1>2, <1>3 DEF ReplacementWays
  <2>2. OldestWays(c, s) # {}
    <3> DEFINE T == {lines[c][s][x].timestamp : x \in Ways(c)}
    <3>1. T \subseteq Nat /\ T # {}
      BY <1>1 DEF TypeOK, OurCacheLine, TimeStamp
    <3>2. \E t \in T : \A u \in T : t <= u
      BY <3>1, LeastExists
    <3> QED
      BY <3>2 DEF OldestWays
  <2> QED
    BY <2>1, <2>2, FirstIn DEF OldestWays
<1>5. lines[c][s][v].valid /\ lines[c][s][v].timestamp # lines[c][s][w].timestamp
  BY <1>1, <1>3 DEF InvalidWays, LineHistory
<1>6. lines[c][s][w].timestamp <= lines[c][s][v].timestamp
  BY <1>4 DEF OldestWays
<1>7. lines[c][s][w].timestamp \in Nat /\ lines[c][s][v].timestamp \in Nat
  BY <1>1 DEF TypeOK, OurCacheLine, TimeStamp
<1> QED
  BY <1>5, <1>6, <1>7

LEMMA LruFoundStep ==
  ASSUME TypeOK, InStep, LineHistory, LruFound, SimulateOne
  PROVE  LruFound'
<1> DEFINE g == globalClock[cur]
           addr == AddrAt(g)
           s0 == findSet(cur, addr)
<1>1. /\ cur \in Caches /\ g \in Nat /\ addr \in Nat
      /\ UNCHANGED <<memoryTraces, rp, fullyAssoc>>
      /\ fullyAssoc \in BOOLEAN
  BY StepAccess, InputAssumption DEF TypeOK
<1>2. PICK w0 \in WrittenWays(cur, addr) :
        /\ lines'[cur][s0][w0] = LineFilled(cur, addr)
        /\ \A c \in Caches : \A s \in Sets(c) : \A w \in Ways(c) :
             <<c, s, w>> # <<cur, s0, w0>> => lines'[c][s][w] = lines[c][s][w]
  BY StepLines
<1>3. s0 \in Sets(cur) /\ w0 \in Ways(cur)
  BY <1>1, WrittenWaysType, PlaceType
<1>4. \A c \in Caches : globalClock'[c] = IF c = cur THEN g + 1 ELSE globalClock[c]
  BY StepClock
<1>5. /\ lines'[cur][s0][w0].valid
      /\ lines'[cur][s0][w0].tag = getTag(cur, addr)
      /\ lines'[cur][s0][w0].timestamp = g
  BY <1>2 DEF LineFilled
<1> SUFFICES ASSUME rp = "LRU", NEW c \in Caches, NEW t \in 0 .. globalClock'[c] - 1
             PROVE  LET s == findSet(c, AddrAt(t)) IN
                    \/ \E w \in Ways(c) : lines'[c][s][w].valid
                                         /\ lines'[c][s][w].tag = getTag(c, AddrAt(t))
                    \/ \A w \in Ways(c) : lines'[c][s][w].valid /\ lines'[c][s][w].timestamp > t
  BY <1>1 DEF LruFound, Found, Overtaken, HitWays, Sets, Ways, NumSets, Assoc,
              findSet, getTag, AddrAt
<1> DEFINE s == findSet(c, AddrAt(t))
<1>6. CASE c = cur /\ t = g
  BY <1>3, <1>5, <1>6
<1>7. CASE ~(c = cur /\ t = g)
  <2>1. t \in 0 .. globalClock[c] - 1
    BY <1>1, <1>4, <1>7 DEF TypeOK, TimeStamp
  <2>2. t \in Nat /\ AddrAt(t) \in Nat /\ s \in Sets(c)
    BY <1>1, <2>1, PastAddress, PlaceType
  <2>3. Found(c, AddrAt(t)) \/ Overtaken(c, t)
    BY <2>1 DEF LruFound
  <2>4. CASE <<c, s>> # <<cur, s0>>
    <3>1. \A w \in Ways(c) : lines'[c][s][w] = lines[c][s][w]
      BY <1>2, <2>2, <2>4
    <3> QED
      BY <2>3, <3>1 DEF Found, Overtaken, HitWays
  <2>5. CASE <<c, s>> = <<cur, s0>> /\ Overtaken(c, t)
    <3>1. t < g /\ c = cur /\ s = s0
      BY <1>1, <2>1, <2>5
    <3>2. \A w \in Ways(c) : w = w0 \/ lines'[c][s][w] = lines[c][s][w]
      BY <1>2, <2>2, <3>1
    <3> QED
      BY <1>1, <1>5, <2>2, <2>5, <3>1, <3>2 DEF Overtaken
  <2>6. CASE <<c, s>> = <<cur, s0>> /\ Found(c, AddrAt(t))
    <3>1. c = cur /\ s = s0 /\ t < g
      BY <1>1, <2>1, <2>6
    <3>2. PICK v \in HitWays(c, s, getTag(c, AddrAt(t))) : TRUE
      BY <2>6 DEF Found
    <3>3. v \in Ways(c) /\ lines[c][s][v].valid /\ lines[c][s][v].tag = getTag(c, AddrAt(t))
      BY DEF HitWays
    <3>4. CASE v # w0
      BY <1>2, <2>2, <3>1, <3>3, <3>4
    <3>5. CASE v = w0 /\ Found(c, addr)
      <4>1. w0 \in HitWays(c, s0, getTag(c, addr))
        <5>1. w0 = First(HitWays(cur, s0, getTag(cur, addr)))
          BY <3>1, <3>5 DEF WrittenWays, Found
        <5> QED
          BY <1>1, <3>1, <3>5, <5>1, FirstIn DEF HitWays, Found
      <4>2. getTag(c, addr) = getTag(c, AddrAt(t))
        BY <3>1, <3>3, <3>5, <4>1 DEF HitWays
      <4> QED
        BY <1>3, <1>5, <3>1, <4>2
    <3>6. CASE v = w0 /\ ~Found(c, addr)
      <4> DEFINE u == lines[c][s][w0].timestamp
      <4>1. u \in Nat /\ u < g /\ \A x \in u + 1 .. g - 1 : BlockAt(x) # BlockAt(u)
        BY <2>2, <3>1, <3>3, <3>6 DEF LineHistory, TypeOK, OurCacheLine, TimeStamp
      <4>2. BlockAt(u) = BlockAt(t)
        BY <2>2, <3>2, <3>6, UniqueHit DEF BlockAt
      <4>3. t <= u
        <5> HIDE DEF u
        <5> QED
          BY <1>1, <2>2, <3>1, <4>1, <4>2
      <4>4. ASSUME NEW w \in Ways(c), w # w0
            PROVE  lines'[c][s][w].valid /\ lines'[c][s][w].timestamp > t
        <5>1. lines[c][s][w].valid /\ lines[c][s][w].timestamp > u
          BY <1>1, <3>1, <3>3, <3>6, <4>4, VictimIsOldest
        <5>2. lines'[c][s][w] = lines[c][s][w]
          BY <1>2, <2>2, <3>1, <4>4
        <5>3. lines[c][s][w].timestamp \in Nat
          BY <2>2 DEF TypeOK, OurCacheLine, TimeStamp
        <5> HIDE DEF u
        <5> QED
          BY <2>2, <4>1, <4>3, <5>1, <5>2, <5>3
      <4> QED
        BY <1>5, <3>1, <4>4
    <3> QED
      BY <3>4, <3>5, <3>6
  <2> QED
    BY <2>3, <2>4, <2>5, <2>6
<1> QED
  BY <1>6, <1>7

\* Tag and set of a line give back the block number.
LEMMA FoundIsResident ==
  ASSUME fullyAssoc \in BOOLEAN, NEW c \in Caches, NEW addr \in Nat, Found(c, addr)
  PROVE  Resident(c, addr \div BlkSize)
<1> DEFINE b == addr \div BlkSize
           n == NumSets(c)
<1>1. PICK w \in Ways(c) : /\ lines[c][findSet(c, addr)][w].valid
                          /\ lines[c][findSet(c, addr)][w].tag = getTag(c, addr)
  BY DEF Found, HitWays
<1>2. /\ findSet(c, addr) = b % n /\ findSet(c, addr) \in Sets(c)
      /\ getTag(c, addr) = b \div n
  BY PlaceType DEF findSet
<1>3. b = (b \div n) * n + (b % n)
  <2>1. b \in Nat /\ n \in Nat \ {0}
    BY PlaceType, GeometryPositive
  <2> HIDE DEF b, n
  <2> QED
    BY <2>1, DivMod
<1>4. getTag(c, addr) * n + findSet(c, addr) = b
  BY <1>2, <1>3
<1> QED
  BY <1>1, <1>2, <1>4 DEF Resident

\* Under LRU, access() finds every block whose place is not yet taken by a full set
\* of lines used after it.
THEOREM LruFoundCorrect == Spec => []LruFound
<1>1. Init => LruFound
  BY DEF Init, LruFound
<1>2. TypeOK /\ InStep /\ LineHistory /\ LruFound /\ [Next]_vars => LruFound'
  <2>1. ASSUME TypeOK, InStep, LineHistory, LruFound, SimulateOne
        PROVE  LruFound'
    BY <2>1, LruFoundStep
  <2>2. ASSUME LruFound, UNCHANGED vars
        PROVE  LruFound'
    BY <2>2 DEF vars, LruFound, Found, Overtaken, HitWays, Ways, NumSets, Assoc,
                findSet, getTag, AddrAt
  <2> QED
    BY <2>1, <2>2 DEF Next
<1> QED
  BY <1>1, <1>2, TypeCorrect, InStepCorrect, LineHistoryCorrect, PTL DEF Spec

\* Under LRU, whatever is no longer in the cache left behind a full set of
\* lines that were all used after it.
THEOREM LruOrderCorrect == Spec => []LruOrder
<1>1. TypeOK /\ InStep /\ LruFound => LruOrder
  <2> SUFFICES ASSUME TypeOK, InStep, LruFound, rp = "LRU",
                      NEW c \in Caches, NEW t \in 0 .. globalClock[c] - 1
               PROVE  Resident(c, BlockAt(t)) \/ Overtaken(c, t)
    BY DEF LruOrder, Overtaken
  <2>1. AddrAt(t) \in Nat /\ fullyAssoc \in BOOLEAN
    BY PastAddress, InputAssumption DEF TypeOK
  <2>2. Found(c, AddrAt(t)) \/ Overtaken(c, t)
    BY DEF LruFound
  <2>3. Found(c, AddrAt(t)) => Resident(c, BlockAt(t))
    BY <2>1, FoundIsResident DEF BlockAt
  <2> QED
    BY <2>2, <2>3
<1> QED
  BY <1>1, TypeCorrect, InStepCorrect, LruFoundCorrect, PTL


(***************************************************************************)
(* Counting.                                                               *)
(***************************************************************************)

\* A cache has as many ways as its associativity says.
LEMMA CountWays ==
  ASSUME NEW c \in Caches, fullyAssoc \in BOOLEAN
  PROVE  IsFiniteSet(Ways(c)) /\ Cardinality(Ways(c)) = Assoc(c)
<1>1. Assoc(c) \in Nat \ {0}
  BY GeometryPositive
<1> QED
  BY <1>1, FS_Interval DEF Ways

(***************************************************************************)
(* The stack property.                                                     *)
(***************************************************************************)

\* Tag and set of a line agree for the addresses of a block, so that a lookup
\* succeeds for all of them or for none.
LEMMA FoundByBlock ==
  ASSUME fullyAssoc \in BOOLEAN, NEW c \in Caches, NEW x \in Nat, NEW y \in Nat,
         x \div BlkSize = y \div BlkSize
  PROVE  Found(c, x) <=> Found(c, y)
<1>1. findSet(c, x) = findSet(c, y) /\ getTag(c, x) = getTag(c, y)
  BY SamePlace
<1> QED
  BY <1>1 DEF Found

\* The accesses of cache c after time u to the set of access u.
LaterInSet(c, u) ==
  {v \in u + 1 .. globalClock[c] - 1 : findSet(c, AddrAt(v)) = findSet(c, AddrAt(u))}

\* The other blocks that those accesses asked for.
Intruders(c, u) == {BlockAt(v) : v \in LaterInSet(c, u)} \ {BlockAt(u)}

LEMMA IntrudersFinite ==
  ASSUME TypeOK, InStep, NEW c \in Caches, NEW u \in 0 .. globalClock[c] - 1
  PROVE  /\ IsFiniteSet(Intruders(c, u))
         /\ Cardinality(Intruders(c, u)) \in Nat
<1>1. u \in Nat /\ globalClock[c] \in Nat
  BY PastAddress
<1>2. IsFiniteSet(u + 1 .. globalClock[c] - 1)
  BY <1>1, FS_Interval
<1>3. IsFiniteSet(LaterInSet(c, u))
  BY <1>2, FS_Subset DEF LaterInSet
<1> DEFINE f == [v \in LaterInSet(c, u) |-> BlockAt(v)]
           B == {f[v] : v \in LaterInSet(c, u)}
<1>4. B = {BlockAt(v) : v \in LaterInSet(c, u)}
  OBVIOUS
<1> HIDE DEF f
<1>5. IsFiniteSet(B)
  BY <1>3, ImageNotLarger
<1>6. IsFiniteSet(Intruders(c, u))
  BY <1>4, <1>5, FS_Subset DEF Intruders
<1> QED
  BY <1>6, FS_CardinalityType

\* What is true of a valid line, in the terms of the trace.
LEMMA LineFacts ==
  ASSUME TypeOK, InStep, LineHistory, NEW c \in Caches, NEW s \in Sets(c), NEW w \in Ways(c),
         lines[c][s][w].valid, NEW u, u = lines[c][s][w].timestamp
  PROVE  /\ u \in 0 .. globalClock[c] - 1
         /\ u \in Nat /\ globalClock[c] \in Nat /\ AddrAt(u) \in Nat
         /\ findSet(c, AddrAt(u)) = s
         /\ getTag(c, AddrAt(u)) = lines[c][s][w].tag
         /\ \A t \in u + 1 .. globalClock[c] - 1 : BlockAt(t) # BlockAt(u)
         /\ Found(c, AddrAt(u))
<1>1. lines[c][s][w].timestamp \in Nat /\ globalClock[c] \in Nat
  BY DEF TypeOK, OurCacheLine, TimeStamp
<1>2. /\ u < globalClock[c]
      /\ findSet(c, AddrAt(u)) = s
      /\ getTag(c, AddrAt(u)) = lines[c][s][w].tag
      /\ \A t \in u + 1 .. globalClock[c] - 1 : BlockAt(t) # BlockAt(u)
  BY DEF LineHistory
<1>3. u \in 0 .. globalClock[c] - 1
  BY <1>1, <1>2
<1>4. w \in HitWays(c, findSet(c, AddrAt(u)), getTag(c, AddrAt(u)))
  BY <1>2 DEF HitWays
<1> QED
  BY <1>1, <1>2, <1>3, <1>4, PastAddress DEF Found

\* Two lines of a set hold two blocks.
LEMMA DistinctBlocks ==
  ASSUME TypeOK, InStep, LineHistory, NEW c \in Caches, NEW s \in Sets(c),
         NEW w \in Ways(c), lines[c][s][w].valid,
         NEW v \in Ways(c), lines[c][s][v].valid,
         BlockAt(lines[c][s][w].timestamp) = BlockAt(lines[c][s][v].timestamp)
  PROVE  w = v
<1> DEFINE t == lines[c][s][w].timestamp
           x == lines[c][s][v].timestamp
<1>1. /\ AddrAt(t) \in Nat /\ AddrAt(x) \in Nat
      /\ findSet(c, AddrAt(t)) = s /\ findSet(c, AddrAt(x)) = s
      /\ getTag(c, AddrAt(t)) = lines[c][s][w].tag
      /\ getTag(c, AddrAt(x)) = lines[c][s][v].tag
  BY LineFacts
<1>2. getTag(c, AddrAt(t)) = getTag(c, AddrAt(x))
  <2>1. BlockAt(t) = BlockAt(x) /\ fullyAssoc \in BOOLEAN
    BY InputAssumption DEF TypeOK
  <2> HIDE DEF t, x
  <2> QED
    BY <1>1, <2>1, SamePlace DEF BlockAt
<1>3. /\ w \in HitWays(c, findSet(c, AddrAt(t)), getTag(c, AddrAt(t)))
      /\ v \in HitWays(c, findSet(c, AddrAt(t)), getTag(c, AddrAt(t)))
  BY <1>1, <1>2 DEF HitWays
<1> QED
  BY <1>1, <1>3, UniqueHit

\* A block that is found was used before, and since its last use only those
\* blocks came to its set that lie in the other lines of the set now.
LEMMA FoundIsNear ==
  ASSUME TypeOK, InStep, LineHistory, LruFound, rp = "LRU",
         NEW c \in Caches, NEW addr \in Nat, Found(c, addr)
  PROVE  \E u \in 0 .. globalClock[c] - 1 :
           BlockAt(u) = addr \div BlkSize /\ Cardinality(Intruders(c, u)) < Assoc(c)
<1> DEFINE s == findSet(c, addr)
<1>1. fullyAssoc \in BOOLEAN /\ s \in Sets(c)
  BY PlaceType, InputAssumption DEF TypeOK
<1>2. PICK w \in HitWays(c, s, getTag(c, addr)) : TRUE
  BY DEF Found
<1>3. w \in Ways(c) /\ lines[c][s][w].valid
  BY DEF HitWays
<1> DEFINE u == lines[c][s][w].timestamp
<1>4. /\ u \in 0 .. globalClock[c] - 1 /\ u \in Nat /\ globalClock[c] \in Nat
      /\ findSet(c, AddrAt(u)) = s
      /\ BlockAt(u) = addr \div BlkSize
  BY <1>1, <1>3, LineFacts, UniqueHit
<1> DEFINE others == Ways(c) \ {w}
           f == [v \in others |-> BlockAt(lines[c][s][v].timestamp)]
           held == {f[v] : v \in others}
<1>5. IsFiniteSet(others) /\ Cardinality(others) = Assoc(c) - 1
  BY <1>1, <1>3, CountWays, FS_RemoveElement
<1>6. ASSUME NEW t \in LaterInSet(c, u), BlockAt(t) # BlockAt(u)
      PROVE  BlockAt(t) \in held
  <2>1. /\ t \in 0 .. globalClock[c] - 1 /\ t > u
        /\ findSet(c, AddrAt(t)) = s
    <3> HIDE DEF u
    <3> QED
      BY <1>4 DEF LaterInSet
  <2>2. t \in Nat /\ AddrAt(t) \in Nat
    BY <2>1, PastAddress
  <2>3. ~Overtaken(c, t)
    BY <1>3, <1>4, <2>1, <2>2 DEF Overtaken
  <2>4. PICK v \in HitWays(c, findSet(c, AddrAt(t)), getTag(c, AddrAt(t))) : TRUE
    BY <2>1, <2>3 DEF LruFound, Found
  <2>5. BlockAt(lines[c][s][v].timestamp) = BlockAt(t) /\ v \in Ways(c)
    BY <2>1, <2>2, <2>4, UniqueHit DEF BlockAt, HitWays
  <2>6. v # w
    BY <1>6, <2>5
  <2> QED
    BY <2>5, <2>6
<1>7. Intruders(c, u) \subseteq held
  BY <1>6 DEF Intruders
<1> HIDE DEF f, others, u
<1>8. IsFiniteSet(held) /\ Cardinality(held) <= Cardinality(others)
  BY <1>5, ImageNotLarger
<1> HIDE DEF held
<1>9. Cardinality(Intruders(c, u)) <= Cardinality(held)
  BY <1>7, <1>8, FS_Subset
<1>10. Cardinality(Intruders(c, u)) < Assoc(c)
  <2>1. Cardinality(Intruders(c, u)) \in Nat /\ Cardinality(held) \in Nat /\ Assoc(c) \in Nat
    BY <1>1, <1>4, <1>8, IntrudersFinite, FS_CardinalityType, GeometryPositive
  <2> QED
    BY <1>5, <1>8, <1>9, <2>1
<1> QED
  BY <1>4, <1>10

\* A block that was used and is not found left a set behind whose lines hold as
\* many other blocks, all of them used since.
LEMMA NotFoundIsFar ==
  ASSUME TypeOK, InStep, LineHistory, LruFound, rp = "LRU",
         NEW c \in Caches, NEW addr \in Nat, ~Found(c, addr),
         NEW u \in 0 .. globalClock[c] - 1, BlockAt(u) = addr \div BlkSize
  PROVE  Cardinality(Intruders(c, u)) >= Assoc(c)
<1> DEFINE s == findSet(c, AddrAt(u))
           stamp(w) == lines[c][s][w].timestamp
           f == [w \in Ways(c) |-> BlockAt(stamp(w))]
<1>1. /\ fullyAssoc \in BOOLEAN /\ u \in Nat /\ AddrAt(u) \in Nat /\ s \in Sets(c)
      /\ globalClock[c] \in Nat
  BY PastAddress, PlaceType, InputAssumption DEF TypeOK
<1>2. ~Found(c, AddrAt(u))
  BY <1>1, FoundByBlock DEF BlockAt
<1>3. \A w \in Ways(c) : lines[c][s][w].valid /\ stamp(w) > u
  BY <1>2 DEF LruFound, Overtaken
<1>4. ASSUME NEW w \in Ways(c)
      PROVE  /\ stamp(w) \in LaterInSet(c, u) /\ BlockAt(stamp(w)) # BlockAt(u)
             /\ AddrAt(stamp(w)) \in Nat /\ findSet(c, AddrAt(stamp(w))) = s
             /\ getTag(c, AddrAt(stamp(w))) = lines[c][s][w].tag
  <2> DEFINE t == stamp(w)
  <2>1. /\ t \in 0 .. globalClock[c] - 1 /\ t \in Nat /\ AddrAt(t) \in Nat
        /\ findSet(c, AddrAt(t)) = s
        /\ getTag(c, AddrAt(t)) = lines[c][s][w].tag
        /\ Found(c, AddrAt(t))
    BY <1>1, <1>3, LineFacts
  <2>2. t > u
    BY <1>3
  <2> HIDE DEF t
  <2>3. t \in LaterInSet(c, u)
    BY <1>1, <2>1, <2>2 DEF LaterInSet
  <2>4. BlockAt(t) # BlockAt(u)
    BY <1>1, <1>2, <2>1, FoundByBlock DEF BlockAt
  <2> QED
    BY <2>1, <2>3, <2>4 DEF t
<1>5. ASSUME NEW w \in Ways(c), NEW v \in Ways(c), f[w] = f[v]
      PROVE  w = v
  BY <1>1, <1>3, <1>5, DistinctBlocks
<1>6. \A w \in Ways(c) : f[w] \in Intruders(c, u)
  BY <1>4 DEF Intruders
<1>7. IsFiniteSet(Intruders(c, u))
  BY IntrudersFinite
<1> HIDE DEF f
<1>8. Cardinality(Ways(c)) <= Cardinality(Intruders(c, u))
  BY <1>5, <1>6, <1>7, DistinctImagesFit
<1> QED
  BY <1>1, <1>8, CountWays, IntrudersFinite, GeometryPositive

(***************************************************************************)
(* The caches implement stack distances.                                   *)
(***************************************************************************)

\* The abstract specification counts with the same operator.
LEMMA AbstractCount == \A S : Abstract!Cardinality(S) = Cardinality(S)
  BY DEF Abstract!Cardinality, Cardinality

\* The abstract specification and the caches speak of the same set.
LEMMA AbstractPlace ==
  ASSUME NEW c \in Caches, NEW t
  PROVE  /\ Abstract!BlockAt(t) = BlockAt(t)
         /\ Abstract!SetAt(c, t) = findSet(c, AddrAt(t))
<1>1. Abstract!BlockAt(t) = BlockAt(t)
  BY DEF Abstract!BlockAt, BlockAt, AddrAt
<1>2. Abstract!SetAt(c, t) = BlockAt(t) % NumSets(c)
  BY <1>1 DEF Abstract!SetAt
<1> QED
  BY <1>1, <1>2 DEF findSet, BlockAt

\* The promise of StackDistance is what a lookup finds.
LEMMA ReachIsFound ==
  ASSUME TypeOK, InStep, LineHistory, LruFound, rp = "LRU",
         NEW c \in Caches, AddrAt(globalClock[c]) \in Nat
  PROVE  Abstract!WithinReach(c, globalClock[c]) <=> Found(c, AddrAt(globalClock[c]))
<1> DEFINE g == globalClock[c]
           addr == AddrAt(g)
<1>1. fullyAssoc \in BOOLEAN /\ g \in Nat /\ addr \in Nat
  BY InputAssumption DEF TypeOK, TimeStamp
<1>2. ASSUME NEW u \in 0 .. g - 1, BlockAt(u) = BlockAt(g)
      PROVE  Abstract!UsedSince(c, u, g) \ {Abstract!BlockAt(g)} = Intruders(c, u)
  <2>1. AddrAt(u) \in Nat
    BY PastAddress
  <2>2. findSet(c, AddrAt(u)) = findSet(c, addr)
    BY <1>1, <1>2, <2>1, SamePlace DEF BlockAt
  <2>3. Abstract!UsedSince(c, u, g)
          = {BlockAt(v) : v \in {x \in u + 1 .. g - 1 : findSet(c, AddrAt(x)) = findSet(c, addr)}}
    BY AbstractPlace DEF Abstract!UsedSince
  <2>4. {x \in u + 1 .. g - 1 : findSet(c, AddrAt(x)) = findSet(c, addr)} = LaterInSet(c, u)
    BY <2>2 DEF LaterInSet
  <2>5. Abstract!BlockAt(g) = BlockAt(u)
    BY <1>2, AbstractPlace
  <2> QED
    BY <2>3, <2>4, <2>5 DEF Intruders
<1>3. Abstract!WithinReach(c, g)
        <=> \E u \in 0 .. g - 1 :
              BlockAt(u) = BlockAt(g) /\ Cardinality(Intruders(c, u)) < Assoc(c)
  <2>1. Abstract!WithinReach(c, g)
          <=> \E u \in 0 .. g - 1 :
                /\ BlockAt(u) = BlockAt(g)
                /\ Cardinality(Abstract!UsedSince(c, u, g) \ {Abstract!BlockAt(g)}) < Assoc(c)
    BY AbstractPlace, AbstractCount DEF Abstract!WithinReach
  <2> HIDE DEF g
  <2> QED
    BY <1>2, <2>1
<1>4. Found(c, addr) => Abstract!WithinReach(c, g)
  BY <1>1, <1>3, FoundIsNear DEF BlockAt
<1>5. ASSUME ~Found(c, addr), NEW u \in 0 .. g - 1, BlockAt(u) = BlockAt(g)
      PROVE  ~(Cardinality(Intruders(c, u)) < Assoc(c))
  <2>1. Cardinality(Intruders(c, u)) >= Assoc(c)
    BY <1>1, <1>5, NotFoundIsFar DEF BlockAt
  <2> QED
    BY <1>1, <2>1, IntrudersFinite, GeometryPositive
<1> QED
  BY <1>3, <1>4, <1>5

LEMMA AbstractStep ==
  ASSUME TypeOK, InStep, LineHistory, LruFound, SimulateOne
  PROVE  [Abstract!Next]_(Abstract!vars)
<1> DEFINE c == cur
           g == globalClock[c]
           addr == AddrAt(g)
<1>1. /\ c \in Caches /\ g \in Nat /\ addr \in Nat /\ Access(c, addr)
      /\ UNCHANGED <<memoryTraces, rp, fullyAssoc>>
  BY StepAccess
<1>2. /\ [d \in Caches |-> NumSets(d)]' = [d \in Caches |-> NumSets(d)]
      /\ [d \in Caches |-> Assoc(d)]' = [d \in Caches |-> Assoc(d)]
  BY <1>1 DEF NumSets, Assoc
<1>3. CASE rp # "LRU"
  BY <1>1, <1>2, <1>3 DEF Abstract!vars, Shown
<1>4. CASE rp = "LRU"
  <2>1. g < Len(memoryTraces)
    BY <1>1 DEF SimulateOne, InStep, Caches, TypeOK
  <2>2. /\ Shown(globalClock) = globalClock /\ Shown(globalClock)' = globalClock'
        /\ Shown(numHits) = numHits /\ Shown(numHits)' = numHits'
        /\ Shown(numMisses) = numMisses /\ Shown(numMisses)' = numMisses'
    BY <1>1, <1>4 DEF Shown
  <2>3. Abstract!WithinReach(c, g) <=> Found(c, addr)
    BY <1>1, <1>4, ReachIsFound
  <2>4. /\ globalClock' = [globalClock EXCEPT ![c] = @ + 1]
        /\ \/ /\ Found(c, addr)
              /\ numHits' = [numHits EXCEPT ![c] = @ + 1]
              /\ numMisses' = numMisses
           \/ /\ ~Found(c, addr)
              /\ numMisses' = [numMisses EXCEPT ![c] = @ + 1]
              /\ numHits' = numHits
    BY <1>1, CountEffect DEF Found
  <2>5. Abstract!Access(c)
    BY <1>1, <1>2, <2>1, <2>2, <2>3, <2>4 DEF Abstract!Access
  <2> QED
    BY <1>1, <2>5 DEF Abstract!Next
<1> QED
  BY <1>3, <1>4

\* The LRU caches implement StackDistance: every access hits exactly when fewer
\* other blocks of its set than the cache has ways came after the block's last
\* use.  What the counters of main() print depends on the trace alone, not on
\* the order in which the loops scan the ways or on what `new' left in them.
THEOREM Refinement == Spec => ImplementsStackDistance
<1>1. Init => Abstract!Init
  BY DEF Init, Abstract!Init, Shown
<1>2. TypeOK /\ InStep /\ LineHistory /\ LruFound /\ [Next]_vars
        => [Abstract!Next]_(Abstract!vars)
  <2>1. ASSUME UNCHANGED vars
        PROVE  UNCHANGED Abstract!vars
    BY <2>1 DEF vars, Abstract!vars, Shown, NumSets, Assoc
  <2> QED
    BY <2>1, AbstractStep DEF Next
<1> QED
  BY <1>1, <1>2, TypeCorrect, InStepCorrect, LineHistoryCorrect, LruFoundCorrect, PTL
     DEF Spec, ImplementsStackDistance, Abstract!Spec

(***************************************************************************)
(* A larger LRU cache includes a smaller one.                              *)
(***************************************************************************)

\* A block that lies in a cache is found by a lookup of any of its addresses.
LEMMA ResidentIsFound ==
  ASSUME TypeOK, NEW c \in Caches, NEW addr \in Nat, Resident(c, addr \div BlkSize)
  PROVE  Found(c, addr)
<1> DEFINE b == addr \div BlkSize
           n == NumSets(c)
<1>1. /\ n \in Nat \ {0} /\ b \in Nat /\ findSet(c, addr) = b % n
      /\ getTag(c, addr) = b \div n
  BY GeometryPositive, PlaceType, InputAssumption DEF TypeOK, findSet
<1>2. PICK s \in Sets(c), w \in Ways(c) :
        lines[c][s][w].valid /\ lines[c][s][w].tag * n + s = b
  BY DEF Resident
<1> DEFINE tag == lines[c][s][w].tag
<1>3. tag \in Nat /\ s \in 0 .. n - 1 /\ s \in Nat /\ b = n * tag + s
  <2>1. tag \in Nat
    BY DEF TypeOK, OurCacheLine, Addr
  <2> HIDE DEF b, n, tag
  <2>2. n * tag = tag * n
    BY <1>1, <2>1
  <2> QED
    BY <1>1, <1>2, <2>1, <2>2 DEF tag, Sets, n
<1>4. b % n = s /\ b \div n = tag
  <2> HIDE DEF b, n, tag
  <2>1. s % n = s
    BY <1>1, <1>3
  <2>2. b % n = s
    BY <1>1, <1>3, <2>1, ModOfMultiple
  <2>3. b = (b \div n) * n + s /\ b \div n \in Nat
    BY <1>1, <2>2, DivMod
  <2>4. b \div n = tag
    BY <1>1, <1>3, <2>3, SameMultiple
  <2> QED
    BY <2>2, <2>4
<1> QED
  BY <1>1, <1>2, <1>4 DEF Found, HitWays

\* Whenever two caches have seen the same accesses, the larger one finds what
\* the smaller one does: it has no fewer ways, and its sets are parts of the
\* smaller one's.
LEMMA LargerFinds ==
  ASSUME TypeOK, InStep, LineHistory, LruFound, rp = "LRU",
         NEW c \in Caches, NEW d \in Caches, c < d, globalClock[c] = globalClock[d],
         NEW addr \in Nat, Found(c, addr)
  PROVE  Found(d, addr)
<1>1. fullyAssoc \in BOOLEAN
  BY InputAssumption DEF TypeOK
<1>2. /\ NumSets(c) \in Nat \ {0} /\ NumSets(d) \in Nat \ {0}
      /\ Assoc(c) \in Nat /\ Assoc(d) \in Nat
  BY <1>1, GeometryPositive
<1>3. NumSets(d) % NumSets(c) = 0
  BY GrowthAssumption DEF NumSets
<1>4. Assoc(c) <= Assoc(d)
  <2>1. /\ Sizes[c] \in Nat /\ Sizes[d] \in Nat /\ Sizes[c] <= Sizes[d]
        /\ BlkSize \in Nat \ {0} /\ DefaultAssoc \in Nat
    BY GeometryAssumption, GrowthAssumption DEF Caches
  <2>2. Sizes[c] \div BlkSize <= Sizes[d] \div BlkSize
    BY <2>1, DivMonotone
  <2> QED
    BY <2>1, <2>2 DEF Assoc
<1>5. PICK u \in 0 .. globalClock[c] - 1 :
        BlockAt(u) = addr \div BlkSize /\ Cardinality(Intruders(c, u)) < Assoc(c)
  BY FoundIsNear
<1>6. Intruders(d, u) \subseteq Intruders(c, u)
  <2> SUFFICES ASSUME NEW v \in LaterInSet(d, u)
               PROVE  v \in LaterInSet(c, u)
    BY DEF Intruders
  <2>1. /\ v \in 0 .. globalClock[c] - 1 /\ v \in u + 1 .. globalClock[c] - 1
        /\ findSet(d, AddrAt(v)) = findSet(d, AddrAt(u))
    BY <1>5, PastAddress DEF LaterInSet
  <2>2. AddrAt(v) \in Nat /\ AddrAt(u) \in Nat
    BY <1>5, <2>1, PastAddress
  <2>3. BlockAt(v) \in Nat /\ BlockAt(u) \in Nat
    BY <1>1, <2>2, PlaceType DEF BlockAt
  <2>4. BlockAt(v) % NumSets(d) = BlockAt(u) % NumSets(d)
    BY <2>1 DEF findSet, BlockAt
  <2>5. BlockAt(v) % NumSets(c) = BlockAt(u) % NumSets(c)
    BY <1>2, <1>3, <2>3, <2>4, ModOfDivisor
  <2> QED
    BY <2>1, <2>5 DEF LaterInSet, findSet, BlockAt
<1>7. Cardinality(Intruders(d, u)) < Assoc(d)
  <2>1. /\ Cardinality(Intruders(d, u)) <= Cardinality(Intruders(c, u))
        /\ Cardinality(Intruders(c, u)) \in Nat /\ Cardinality(Intruders(d, u)) \in Nat
    BY <1>5, <1>6, IntrudersFinite, FS_Subset
  <2> QED
    BY <1>2, <1>4, <1>5, <2>1
<1>8. ASSUME ~Found(d, addr)
      PROVE  FALSE
  <2>1. Cardinality(Intruders(d, u)) >= Assoc(d)
    BY <1>5, <1>8, NotFoundIsFar
  <2> QED
    BY <1>2, <1>5, <1>7, <2>1, IntrudersFinite
<1> QED
  BY <1>8

\* What cache d will add to its misses when it comes to the current address.
Pending(d) == IF Found(d, AddrAt(globalClock[d])) THEN 0 ELSE 1

\* The inductive form of Inclusion's count: while a smaller cache is one access
\* ahead in the inner loop, the larger one's pending miss is counted as made.
MissOrder ==
  rp = "LRU" =>
    \A c, d \in Caches : c < d =>
      /\ globalClock[c] = globalClock[d] => numMisses[d] <= numMisses[c]
      /\ globalClock[c] = globalClock[d] + 1 => numMisses[d] + Pending(d) <= numMisses[c]

\* In the inner loop a smaller cache is never behind a larger one, and at most
\* one access ahead of it.
LEMMA AheadByOne ==
  ASSUME TypeOK, InStep, NEW c \in Caches, NEW d \in Caches, c < d
  PROVE  /\ c \in Nat /\ d \in Nat /\ cur \in Nat
         /\ globalClock[c] \in Nat /\ globalClock[d] \in Nat
         /\ globalClock[c] = globalClock[d] + (IF c < cur /\ ~(d < cur) THEN 1 ELSE 0)
<1>1. Len(Sizes) \in Nat
  BY GeometryAssumption
<1>2. c \in Nat /\ d \in Nat /\ cur \in Nat
  BY <1>1 DEF TypeOK, Caches
<1>3. globalClock[c] \in Nat /\ globalClock[d] \in Nat
  BY DEF TypeOK, TimeStamp
<1>4. /\ globalClock[c] = i + (IF c < cur THEN 1 ELSE 0)
      /\ globalClock[d] = i + (IF d < cur THEN 1 ELSE 0)
      /\ i \in Int
  BY DEF InStep, TypeOK
<1> QED
  BY <1>2, <1>3, <1>4

LEMMA MissOrderStep ==
  ASSUME TypeOK, InStep, LineHistory, LruFound, MissOrder, SimulateOne
  PROVE  MissOrder'
<1> SUFFICES ASSUME rp' = "LRU", NEW c \in Caches, NEW d \in Caches, c < d
             PROVE  /\ globalClock'[c] = globalClock'[d] => numMisses'[d] <= numMisses'[c]
                    /\ globalClock'[c] = globalClock'[d] + 1 =>
                         numMisses'[d] + Pending(d)' <= numMisses'[c]
  BY DEF MissOrder
<1> DEFINE g == globalClock[cur]
           addr == AddrAt(g)
<1>1. /\ cur \in Caches /\ g \in Nat /\ addr \in Nat /\ Access(cur, addr)
      /\ UNCHANGED <<memoryTraces, rp, fullyAssoc>> /\ rp = "LRU"
      /\ fullyAssoc \in BOOLEAN
  BY StepAccess, InputAssumption DEF TypeOK
<1>2. \A e \in Caches : globalClock'[e] = IF e = cur THEN g + 1 ELSE globalClock[e]
  BY StepClock
<1>3. \A e \in Caches : numMisses'[e] = IF e = cur THEN numMisses[e] + Pending(cur)
                                        ELSE numMisses[e]
  BY <1>1, CountEffect DEF Pending, Found, TypeOK
<1>4. \A e \in Caches \ {cur} : Pending(e)' = Pending(e)
  <2> TAKE e \in Caches \ {cur}
  <2>1. globalClock'[e] = globalClock[e] /\ AddrAt(globalClock[e])' = AddrAt(globalClock[e])
    BY <1>1, <1>2 DEF AddrAt
  <2>2. lines'[e] = lines[e]
    <3>1. PICK w \in WrittenWays(cur, addr) :
            lines' = [lines EXCEPT ![cur][findSet(cur, addr)][w] = LineFilled(cur, addr)]
      BY <1>1, AccessEffect
    <3> QED
      BY <3>1 DEF TypeOK
  <2> QED
    BY <1>1, <2>1, <2>2 DEF Pending, Found, HitWays, Ways, Assoc, NumSets, findSet, getTag
<1>5. numMisses[c] \in Nat /\ numMisses[d] \in Nat
  BY DEF TypeOK
<1>6. /\ globalClock[c] \in Nat /\ globalClock[d] \in Nat
      /\ c \in Nat /\ d \in Nat /\ cur \in Nat
      /\ globalClock[c] = globalClock[d] + (IF c < cur /\ ~(d < cur) THEN 1 ELSE 0)
  BY AheadByOne
<1>7. /\ globalClock[c] = globalClock[d] => numMisses[d] <= numMisses[c]
      /\ globalClock[c] = globalClock[d] + 1 => numMisses[d] + Pending(d) <= numMisses[c]
  BY <1>1 DEF MissOrder
<1>8. Pending(c) \in 0 .. 1 /\ Pending(d) \in 0 .. 1
  BY DEF Pending
<1>9. CASE cur = c
  <2>1. globalClock[c] = globalClock[d]
    BY <1>5, <1>6, <1>9
  <2>2. Pending(d) <= Pending(c)
    BY <1>1, <1>9, <2>1, LargerFinds DEF Pending
  <2>3. /\ globalClock'[c] = globalClock[c] + 1 /\ globalClock'[d] = globalClock[d]
        /\ numMisses'[c] = numMisses[c] + Pending(c) /\ numMisses'[d] = numMisses[d]
        /\ Pending(d)' = Pending(d)
    BY <1>2, <1>3, <1>4, <1>6, <1>9
  <2> QED
    BY <1>5, <1>6, <1>7, <1>8, <2>1, <2>2, <2>3
<1>10. CASE cur = d
  <2>1. globalClock[c] = globalClock[d] + 1
    BY <1>5, <1>6, <1>10
  <2>2. /\ globalClock'[d] = globalClock[d] + 1 /\ globalClock'[c] = globalClock[c]
        /\ numMisses'[d] = numMisses[d] + Pending(d) /\ numMisses'[c] = numMisses[c]
    BY <1>2, <1>3, <1>6, <1>10
  <2> QED
    BY <1>5, <1>6, <1>7, <2>1, <2>2
<1>11. CASE cur # c /\ cur # d
  <2>1. /\ globalClock'[c] = globalClock[c] /\ globalClock'[d] = globalClock[d]
        /\ numMisses'[c] = numMisses[c] /\ numMisses'[d] = numMisses[d]
        /\ Pending(d)' = Pending(d)
    BY <1>2, <1>3, <1>4, <1>11
  <2> QED
    BY <1>7, <2>1
<1> QED
  BY <1>9, <1>10, <1>11

\* Between any two accesses of the inner loop, under LRU, a larger cache's misses and
\* the one it is about to have are no more than those of the smaller cache.
THEOREM MissOrderCorrect == Spec => []MissOrder
<1>1. Init => MissOrder
  BY DEF Init, MissOrder
<1>2. TypeOK /\ InStep /\ LineHistory /\ LruFound /\ MissOrder /\ [Next]_vars => MissOrder'
  <2>1. ASSUME MissOrder, UNCHANGED vars
        PROVE  MissOrder'
    BY <2>1 DEF vars, MissOrder, Pending, Found, HitWays, Ways, NumSets, Assoc,
                findSet, getTag, AddrAt
  <2> QED
    BY <2>1, MissOrderStep DEF Next
<1> QED
  BY <1>1, <1>2, TypeCorrect, InStepCorrect, LineHistoryCorrect, LruFoundCorrect, PTL DEF Spec

\* Inclusion: under LRU a larger cache holds what a smaller one holds whenever
\* both have seen the same accesses, and never has more misses, not even while
\* the smaller one is an access ahead of it in the inner loop.
THEOREM InclusionCorrect == Spec => []Inclusion
<1>1. TypeOK /\ InStep /\ LineHistory /\ LruFound /\ MissOrder => Inclusion
  <2> SUFFICES ASSUME TypeOK, InStep, LineHistory, LruFound, MissOrder, rp = "LRU",
                      NEW c \in Caches, NEW d \in Caches, c < d
               PROVE  /\ globalClock[c] = globalClock[d] =>
                           \A t \in 0 .. globalClock[c] - 1 :
                             Resident(c, BlockAt(t)) => Resident(d, BlockAt(t))
                      /\ numMisses[d] <= numMisses[c]
    BY DEF Inclusion
  <2>1. ASSUME globalClock[c] = globalClock[d], NEW t \in 0 .. globalClock[c] - 1,
               Resident(c, BlockAt(t))
        PROVE  Resident(d, BlockAt(t))
    <3>1. AddrAt(t) \in Nat /\ fullyAssoc \in BOOLEAN
      BY PastAddress, InputAssumption DEF TypeOK
    <3>2. Found(c, AddrAt(t))
      BY <2>1, <3>1, ResidentIsFound DEF BlockAt
    <3>3. Found(d, AddrAt(t))
      BY <2>1, <3>1, <3>2, LargerFinds
    <3> QED
      BY <3>1, <3>3, FoundIsResident DEF BlockAt
  <2>2. globalClock[c] = globalClock[d] \/ globalClock[c] = globalClock[d] + 1
    BY AheadByOne
  <2>3. numMisses[d] <= numMisses[c]
    <3>1. /\ globalClock[c] = globalClock[d] => numMisses[d] <= numMisses[c]
          /\ globalClock[c] = globalClock[d] + 1 => numMisses[d] + Pending(d) <= numMisses[c]
      BY DEF MissOrder
    <3>2. numMisses[d] \in Nat /\ numMisses[c] \in Nat /\ Pending(d) \in Nat
      BY DEF TypeOK, Pending
    <3> QED
      BY <2>2, <3>1, <3>2
  <2> QED
    BY <2>1, <2>3
<1> QED
  BY <1>1, TypeCorrect, InStepCorrect, LineHistoryCorrect, LruFoundCorrect, MissOrderCorrect, PTL

(***************************************************************************)
(* No eviction while the blocks of a set fit.                              *)
(***************************************************************************)

\* The blocks of set s of cache c that the first n accesses ask for.
Asked(c, n, s) == {BlockAt(t) : t \in {u \in 0 .. n - 1 : findSet(c, AddrAt(u)) = s}}

LEMMA AskedFinite ==
  ASSUME NEW c \in Caches, NEW n \in Nat, NEW s
  PROVE  IsFiniteSet(Asked(c, n, s)) /\ Cardinality(Asked(c, n, s)) \in Nat
<1> DEFINE U == {u \in 0 .. n - 1 : findSet(c, AddrAt(u)) = s}
           f == [u \in U |-> BlockAt(u)]
<1>1. IsFiniteSet(0 .. n - 1)
  BY FS_Interval
<1>2. IsFiniteSet(U)
  BY <1>1, FS_Subset
<1>3. Asked(c, n, s) = {f[u] : u \in U}
  BY DEF Asked
<1> HIDE DEF f, U
<1>4. IsFiniteSet({f[u] : u \in U})
  BY <1>2, ImageNotLarger
<1> QED
  BY <1>3, <1>4, FS_CardinalityType

\* The inductive form of NoEarlyEviction: it speaks of lookups.
FoundWhileFits ==
  \A c \in Caches : \A t \in 0 .. globalClock[c] - 1 :
    Footprint(c, findSet(c, AddrAt(t))) <= Assoc(c) => Found(c, AddrAt(t))

\* A way that is written on a miss although it is valid lies in a set whose
\* lines are all valid: invalid ways go first, under either policy.
LEMMA VictimOfFullSet ==
  ASSUME NEW c \in Caches, NEW addr \in Nat, ~Found(c, addr),
         NEW w \in WrittenWays(c, addr), lines[c][findSet(c, addr)][w].valid
  PROVE  \A v \in Ways(c) : lines[c][findSet(c, addr)][v].valid
<1> DEFINE s == findSet(c, addr)
<1>1. w \in ReplacementWays(c, s)
  BY DEF WrittenWays, Found
<1>2. ASSUME InvalidWays(c, s) # {}
      PROVE  FALSE
  <2>1. w = First(InvalidWays(c, s))
    BY <1>1, <1>2 DEF ReplacementWays
  <2>2. w \in InvalidWays(c, s)
    BY <1>2, <2>1, FirstIn DEF InvalidWays
  <2> QED
    BY <2>2 DEF InvalidWays
<1> QED
  BY <1>2 DEF InvalidWays

\* A miss in a full set asks for a block more than the set has ways.
LEMMA MissOverflows ==
  ASSUME TypeOK, InStep, LineHistory, NEW c \in Caches, NEW addr \in Nat, ~Found(c, addr),
         \A w \in Ways(c) : lines[c][findSet(c, addr)][w].valid,
         NEW B, IsFiniteSet(B), addr \div BlkSize \in B, Asked(c, globalClock[c], findSet(c, addr)) \subseteq B
  PROVE  Cardinality(B) > Assoc(c)
<1> DEFINE s == findSet(c, addr)
           b == addr \div BlkSize
           stamp(w) == lines[c][s][w].timestamp
           f == [w \in Ways(c) |-> BlockAt(stamp(w))]
<1>1. fullyAssoc \in BOOLEAN /\ s \in Sets(c)
  BY PlaceType, InputAssumption DEF TypeOK
<1>2. ASSUME NEW w \in Ways(c)
      PROVE  f[w] \in B \ {b}
  <2> DEFINE t == stamp(w)
  <2>1. /\ t \in 0 .. globalClock[c] - 1 /\ AddrAt(t) \in Nat
        /\ findSet(c, AddrAt(t)) = s /\ Found(c, AddrAt(t))
    BY <1>1, LineFacts
  <2> HIDE DEF t
  <2>2. BlockAt(t) # b
    BY <1>1, <2>1, FoundByBlock DEF BlockAt
  <2>3. BlockAt(t) \in B
    BY <2>1 DEF Asked
  <2> QED
    BY <2>2, <2>3 DEF t
<1>3. ASSUME NEW w \in Ways(c), NEW v \in Ways(c), f[w] = f[v]
      PROVE  w = v
  BY <1>1, <1>3, DistinctBlocks
<1>4. IsFiniteSet(B \ {b}) /\ Cardinality(B \ {b}) = Cardinality(B) - 1
  BY FS_RemoveElement
<1> HIDE DEF f
<1>5. Cardinality(Ways(c)) <= Cardinality(B \ {b})
  BY <1>2, <1>3, <1>4, DistinctImagesFit
<1>6. Cardinality(B) \in Nat /\ Assoc(c) \in Nat
  BY <1>1, FS_CardinalityType, GeometryPositive
<1> QED
  BY <1>1, <1>4, <1>5, <1>6, CountWays

LEMMA FoundWhileFitsStep ==
  ASSUME TypeOK, InStep, LineHistory, FoundWhileFits, SimulateOne
  PROVE  FoundWhileFits'
<1> DEFINE g == globalClock[cur]
           addr == AddrAt(g)
           s0 == findSet(cur, addr)
<1>1. /\ cur \in Caches /\ g \in Nat /\ addr \in Nat
      /\ UNCHANGED <<memoryTraces, rp, fullyAssoc>>
      /\ fullyAssoc \in BOOLEAN
  BY StepAccess, InputAssumption DEF TypeOK
<1>2. PICK w0 \in WrittenWays(cur, addr) :
        /\ lines'[cur][s0][w0] = LineFilled(cur, addr)
        /\ \A c \in Caches : \A s \in Sets(c) : \A w \in Ways(c) :
             <<c, s, w>> # <<cur, s0, w0>> => lines'[c][s][w] = lines[c][s][w]
  BY StepLines
<1>3. s0 \in Sets(cur) /\ w0 \in Ways(cur)
  BY <1>1, WrittenWaysType, PlaceType
<1>4. \A c \in Caches : globalClock'[c] = IF c = cur THEN g + 1 ELSE globalClock[c]
  BY StepClock
<1>5. lines'[cur][s0][w0].valid /\ lines'[cur][s0][w0].tag = getTag(cur, addr)
  BY <1>2 DEF LineFilled
<1> SUFFICES ASSUME NEW c \in Caches, NEW t \in 0 .. globalClock'[c] - 1,
                    Cardinality(Asked(c, globalClock'[c], findSet(c, AddrAt(t)))) <= Assoc(c)
             PROVE  LET s == findSet(c, AddrAt(t)) IN
                    \E w \in Ways(c) : lines'[c][s][w].valid
                                      /\ lines'[c][s][w].tag = getTag(c, AddrAt(t))
  <2>1. \A c, t : /\ findSet(c, AddrAt(t))' = findSet(c, AddrAt(t))
                  /\ getTag(c, AddrAt(t))' = getTag(c, AddrAt(t))
                  /\ BlockAt(t)' = BlockAt(t)
    BY <1>1 DEF findSet, getTag, NumSets, Assoc, AddrAt, BlockAt
  <2>2. \A c : Ways(c)' = Ways(c) /\ Assoc(c)' = Assoc(c)
    BY <1>1 DEF Ways, NumSets, Assoc
  <2>3. \A c, t : Footprint(c, findSet(c, AddrAt(t)))' =
                    Cardinality(Asked(c, globalClock'[c], findSet(c, AddrAt(t))))
    BY <2>1 DEF Footprint, Asked
  <2>4. \A c, t : Found(c, AddrAt(t))' <=>
                    LET s == findSet(c, AddrAt(t)) IN
                    \E w \in Ways(c) : lines'[c][s][w].valid
                                      /\ lines'[c][s][w].tag = getTag(c, AddrAt(t))
    BY <2>1, <2>2 DEF Found, HitWays
  <2> QED
    BY <2>2, <2>3, <2>4 DEF FoundWhileFits
<1> DEFINE s == findSet(c, AddrAt(t))
           now == Asked(c, globalClock[c], s)
           then == Asked(c, globalClock'[c], s)
<1>6. globalClock[c] \in Nat /\ globalClock'[c] \in Nat
  <2>1. \A d \in Caches : globalClock[d] \in Nat
    BY DEF TypeOK, TimeStamp
  <2> QED
    BY <1>1, <1>4, <2>1
<1>7. /\ IsFiniteSet(now) /\ IsFiniteSet(then)
      /\ Cardinality(now) \in Nat /\ Cardinality(then) \in Nat /\ Assoc(c) \in Nat
      /\ now \subseteq then
  <2>1. \A u \in 0 .. globalClock[c] - 1 : u \in 0 .. globalClock'[c] - 1
    BY <1>1, <1>4, <1>6
  <2>2. now \subseteq then
    BY <2>1 DEF Asked
  <2> QED
    BY <1>1, <1>6, <2>2, AskedFinite, GeometryPositive
<1>8. CASE c = cur /\ t = g
  BY <1>3, <1>5, <1>8
<1>9. CASE ~(c = cur /\ t = g)
  <2>1. t \in 0 .. globalClock[c] - 1
    BY <1>1, <1>4, <1>7, <1>9
  <2>2. t \in Nat /\ AddrAt(t) \in Nat /\ s \in Sets(c)
    BY <1>1, <2>1, PastAddress, PlaceType
  <2>3. Cardinality(now) <= Cardinality(then)
    <3> HIDE DEF now, then
    <3> QED
      BY <1>7, FS_Subset
  <2>4. Footprint(c, s) <= Assoc(c)
    <3>1. Footprint(c, s) = Cardinality(now)
      BY DEF Footprint, Asked
    <3> QED
      BY <1>7, <2>3, <3>1
  <2>5. PICK v \in HitWays(c, s, getTag(c, AddrAt(t))) : TRUE
    BY <2>1, <2>4 DEF FoundWhileFits, Found
  <2>6. v \in Ways(c) /\ lines[c][s][v].valid /\ lines[c][s][v].tag = getTag(c, AddrAt(t))
    BY DEF HitWays
  <2>7. CASE <<c, s, v>> # <<cur, s0, w0>>
    BY <1>2, <2>2, <2>6, <2>7
  <2>8. CASE <<c, s, v>> = <<cur, s0, w0>> /\ Found(c, addr)
    <3>1. c = cur /\ s = s0 /\ v = w0
      BY <2>8
    <3>2. w0 \in HitWays(c, s0, getTag(c, addr))
      <4>1. w0 = First(HitWays(cur, s0, getTag(cur, addr)))
        BY <2>8, <3>1 DEF WrittenWays, Found
      <4> QED
        BY <1>1, <2>8, <3>1, <4>1, FirstIn DEF HitWays, Found
    <3>3. getTag(c, addr) = getTag(c, AddrAt(t))
      BY <2>6, <3>1, <3>2 DEF HitWays
    <3> QED
      BY <1>3, <1>5, <3>1, <3>3
  <2>9. CASE <<c, s, v>> = <<cur, s0, w0>> /\ ~Found(c, addr)
    <3>1. c = cur /\ s = s0 /\ v = w0
      BY <2>9
    <3>2. \A w \in Ways(c) : lines[c][s0][w].valid
      BY <1>1, <2>6, <2>9, <3>1, VictimOfFullSet
    <3>3. addr \div BlkSize \in then
      <4>1. g \in 0 .. globalClock'[c] - 1
        BY <1>1, <1>4, <3>1
      <4> QED
        BY <3>1, <4>1 DEF Asked, BlockAt
    <3>4. Cardinality(then) > Assoc(c)
      <4> HIDE DEF then
      <4> QED
        BY <1>1, <1>7, <2>9, <3>1, <3>2, <3>3, MissOverflows
    <3> QED
      BY <1>7, <3>4
  <2> QED
    BY <2>7, <2>8, <2>9
<1> QED
  BY <1>8, <1>9

\* Under either policy, access() finds a block again as long as no more blocks
\* than ways were asked for in its set.
THEOREM FoundWhileFitsCorrect == Spec => []FoundWhileFits
<1>1. Init => FoundWhileFits
  BY DEF Init, FoundWhileFits
<1>2. TypeOK /\ InStep /\ LineHistory /\ FoundWhileFits /\ [Next]_vars => FoundWhileFits'
  <2>1. ASSUME FoundWhileFits, UNCHANGED vars
        PROVE  FoundWhileFits'
    BY <2>1 DEF vars, FoundWhileFits, Footprint, Found, HitWays, Ways, NumSets, Assoc,
                findSet, getTag, AddrAt, BlockAt
  <2> QED
    BY <2>1, FoundWhileFitsStep DEF Next
<1> QED
  BY <1>1, <1>2, TypeCorrect, InStepCorrect, LineHistoryCorrect, PTL DEF Spec

\* NoEarlyEviction: under either policy a block stays in the cache as long as
\* no more blocks than ways were asked for in its set.
THEOREM NoEarlyEvictionCorrect == Spec => []NoEarlyEviction
<1>1. TypeOK /\ InStep /\ FoundWhileFits => NoEarlyEviction
  <2> SUFFICES ASSUME TypeOK, InStep, FoundWhileFits,
                      NEW c \in Caches, NEW t \in 0 .. globalClock[c] - 1,
                      Footprint(c, findSet(c, AddrAt(t))) <= Assoc(c)
               PROVE  Resident(c, BlockAt(t))
    BY DEF NoEarlyEviction
  <2>1. AddrAt(t) \in Nat /\ fullyAssoc \in BOOLEAN
    BY PastAddress, InputAssumption DEF TypeOK
  <2>2. Found(c, AddrAt(t))
    BY DEF FoundWhileFits
  <2> QED
    BY <2>1, <2>2, FoundIsResident DEF BlockAt
<1> QED
  BY <1>1, TypeCorrect, InStepCorrect, FoundWhileFitsCorrect, PTL
=============================================================================
