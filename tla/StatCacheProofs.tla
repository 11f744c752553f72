--------------------------- MODULE StatCacheProofs --------------------------
(***************************************************************************)
(* Theorems about StatCache: the sample, the slots, what the chunks'       *)
(* histograms count, and how the iteration that solves for a miss ratio    *)
(* goes, for all traces, slot lengths, line sizes, caches and precisions.  *)
(***************************************************************************)
EXTENDS StatCache, CacheArithmetic, FiniteSetTheorems, TLAPS

\* Histograms and last uses: functions on some of the numbers.
Counts == UNION {[D -> Nat] : D \in SUBSET Nat}

\* How many chunks were begun.
Begun == IF phase = "access" THEN chunk ELSE chunkCount

\* The variables in their ranges, and an entry of each vector for each chunk.
Types ==
  /\ phase \in {"sample", "clear", "slot", "access", "solve", "done"}
  /\ memoryTraces \in Seq(Nat) /\ sampleContainer \in Seq(Nat) /\ counter \in Nat
  /\ useTimeSlot \in 0 .. Modulus - 1
  /\ from \in 0 .. Modulus - 1 /\ nextSlotStart \in 0 .. Modulus - 1
  /\ finished \in BOOLEAN /\ i \in Nat /\ chunkCount \in Nat
  /\ starts \in Seq(Nat) /\ numInst \in Seq(Nat) /\ coldMiss \in Seq(Nat)
  /\ reuseDistanceHisto \in Seq(Counts) /\ monitoredTrace \in Seq(Counts)
  /\ Len(starts) = Begun /\ Len(numInst) = Begun /\ Len(coldMiss) = Begun
  /\ Len(reuseDistanceHisto) = Begun /\ Len(monitoredTrace) = Begun
  /\ phase \in {"sample", "clear"} => chunkCount = 0

\* Where runTimeStatsFull is in the current chunk.
InChunk ==
  phase = "access" =>
    /\ starts[chunk] = from /\ numInst[chunk] = len
    /\ i \in from .. from + len
    /\ \A b \in DOMAIN monitoredTrace[chunk] : monitoredTrace[chunk][b] \in from .. i - 1

-----------------------------------------------------------------------------
(* Lemmas about the operators.                                             *)

LEMMA Assumed ==
  /\ BlkSize \in Nat \ {0} /\ Modulus \in Nat \ {0}
  /\ SampleStep \in Nat \ {0} /\ SampleStepDiff \in 0 .. SampleStep - 1
  /\ Beyond \subseteq Nat
BY StatCacheAssumption

LEMMA ModInRange ==
  ASSUME NEW x \in Int, NEW m \in Nat \ {0}
  PROVE  x % m \in 0 .. m - 1 /\ x % m \in Nat /\ (x \in 0 .. m - 1 => x % m = x)
OBVIOUS

LEMMA EmptyCount == <<>> \in Counts
<1>1. <<>> \in [{} -> Nat] /\ {} \in SUBSET Nat
  OBVIOUS
<1> QED
  BY <1>1 DEF Counts

LEMMA WithType ==
  ASSUME NEW g \in Counts, NEW x \in Nat, NEW y \in Nat
  PROVE  /\ With(g, x, y) \in Counts
         /\ DOMAIN With(g, x, y) = DOMAIN g \union {x}
         /\ \A z \in DOMAIN g \union {x} : With(g, x, y)[z] = IF z = x THEN y ELSE g[z]
<1>1. PICK D \in SUBSET Nat : g \in [D -> Nat]
  BY DEF Counts
<1>2. DOMAIN g = D /\ D \union {x} \in SUBSET Nat
  BY <1>1
<1>3. With(g, x, y) \in [D \union {x} -> Nat]
  BY <1>1, <1>2 DEF With
<1>4. With(g, x, y) \in Counts
  BY <1>2, <1>3 DEF Counts
<1> QED
  BY <1>2, <1>3, <1>4 DEF With

LEMMA CountsAreNat ==
  ASSUME NEW g \in Counts
  PROVE  DOMAIN g \subseteq Nat /\ \A z \in DOMAIN g : g[z] \in Nat
BY DEF Counts

LEMMA CountedType ==
  ASSUME NEW g \in Counts, NEW x \in Nat
  PROVE  /\ Counted(g, x) \in Counts
         /\ DOMAIN Counted(g, x) = DOMAIN g \union {x}
         /\ Counted(g, x)[x] = IF x \in DOMAIN g THEN g[x] + 1 ELSE 1
         /\ \A z \in DOMAIN g : z # x => Counted(g, x)[z] = g[z]
<1> DEFINE y == IF x \in DOMAIN g THEN g[x] + 1 ELSE 1
<1>1. y \in Nat
  BY CountsAreNat
<1>2. Counted(g, x) = With(g, x, y)
  BY DEF Counted
<1> HIDE DEF y
<1>3. /\ With(g, x, y) \in Counts
      /\ DOMAIN With(g, x, y) = DOMAIN g \union {x}
      /\ With(g, x, y)[x] = y
      /\ \A z \in DOMAIN g : z # x => With(g, x, y)[z] = g[z]
  BY <1>1, WithType
<1> QED
  BY <1>2, <1>3 DEF y

\* The lengths and entries of a sequence with one more entry, or with another one.
LEMMA OneMore ==
  ASSUME NEW S, NEW q \in Seq(S), NEW x \in S
  PROVE  /\ Append(q, x) \in Seq(S) /\ Len(Append(q, x)) = Len(q) + 1
         /\ Append(q, x)[Len(q) + 1] = x
         /\ \A k \in 1 .. Len(q) : Append(q, x)[k] = q[k]
OBVIOUS

LEMMA OneChanged ==
  ASSUME NEW S, NEW q \in Seq(S), NEW k \in 1 .. Len(q), NEW x \in S
  PROVE  LET new == [q EXCEPT ![k] = x]
         IN /\ new \in Seq(S) /\ Len(new) = Len(q) /\ new[k] = x
            /\ \A j \in 1 .. Len(q) : j # k => new[j] = q[j]
OBVIOUS

-----------------------------------------------------------------------------
(* What the actions of the slot loop do.                                   *)

LEMMA BlocksAreNat ==
  ASSUME Types, NEW pos \in Nat
  PROVE  BlocksAt(pos) \subseteq Nat
<1> SUFFICES ASSUME NEW a \in IF pos < sampledSize THEN {memoryTraces[pos + 1]} ELSE Beyond
             PROVE  a \div BlkSize \in Nat
  BY DEF BlocksAt
<1>1. a \in Nat
  <2>1. CASE pos < sampledSize
    <3>1. pos + 1 \in 1 .. Len(memoryTraces) /\ memoryTraces \in Seq(Nat)
      BY <2>1 DEF Types, sampledSize
    <3>2. memoryTraces[pos + 1] \in Nat
      BY <3>1
    <3> QED
      BY <2>1, <3>2
  <2>2. CASE ~(pos < sampledSize)
    BY <2>2, Assumed
  <2> QED
    BY <2>1, <2>2
<1> QED
  BY <1>1, Assumed, DivMod

LEMMA LenIsNat == ASSUME Types PROVE len \in Nat
<1>1. nextSlotStart - from \in Int
  BY Assumed DEF Types
<1> QED
  BY <1>1, Assumed, ModInRange DEF len

\* A new slot has an entry of its own in every vector.
LEMMA StartSlotFacts ==
  ASSUME Types, StartSlot
  PROVE  /\ phase = "slot" /\ phase' = "access" /\ chunkCount' = chunkCount
         /\ Begun = chunkCount /\ Begun' = chunk /\ chunk' = chunk
         /\ from' = nextSlotStart /\ i' = nextSlotStart /\ nextSlotStart' = NextStart
         /\ finished' = LastSlot
         /\ UNCHANGED <<sampling, useTimeSlot>>
         /\ len' = (NextStart - nextSlotStart) % Modulus /\ len' \in Nat
         /\ NextStart \in 0 .. Modulus - 1
         /\ starts' \in Seq(Nat) /\ Len(starts') = chunk
         /\ starts'[chunk] = nextSlotStart /\ \A k \in 1 .. chunkCount : starts'[k] = starts[k]
         /\ numInst' \in Seq(Nat) /\ Len(numInst') = chunk
         /\ numInst'[chunk] = len' /\ \A k \in 1 .. chunkCount : numInst'[k] = numInst[k]
         /\ coldMiss' \in Seq(Nat) /\ Len(coldMiss') = chunk
         /\ coldMiss'[chunk] = 0 /\ \A k \in 1 .. chunkCount : coldMiss'[k] = coldMiss[k]
         /\ reuseDistanceHisto' \in Seq(Counts) /\ Len(reuseDistanceHisto') = chunk
         /\ reuseDistanceHisto'[chunk] = <<>>
         /\ \A k \in 1 .. chunkCount : reuseDistanceHisto'[k] = reuseDistanceHisto[k]
         /\ monitoredTrace' \in Seq(Counts) /\ Len(monitoredTrace') = chunk
         /\ monitoredTrace'[chunk] = <<>>
         /\ \A k \in 1 .. chunkCount : monitoredTrace'[k] = monitoredTrace[k]
<1>1. /\ phase = "slot" /\ phase' = "access" /\ chunkCount' = chunkCount
      /\ from' = nextSlotStart /\ i' = nextSlotStart /\ nextSlotStart' = NextStart
      /\ finished' = LastSlot
      /\ UNCHANGED <<sampling, useTimeSlot>>
      /\ reuseDistanceHisto' = Append(reuseDistanceHisto, <<>>)
      /\ monitoredTrace' = Append(monitoredTrace, <<>>)
      /\ coldMiss' = Append(coldMiss, 0)
      /\ numInst' = Append(numInst, (NextStart - nextSlotStart) % Modulus)
      /\ starts' = Append(starts, nextSlotStart)
  BY DEF StartSlot
<1>2. Begun = chunkCount /\ Begun' = chunk /\ chunk' = chunk /\ chunkCount \in Nat /\ chunk = chunkCount + 1
  BY <1>1 DEF Begun, chunk, Types
<1>3. NextStart \in 0 .. Modulus - 1
  <2>1. Modulus \in Nat \ {0} /\ sampledSize \in Nat /\ nextSlotStart \in Nat /\ useTimeSlot \in Nat
    BY Assumed DEF Types, sampledSize
  <2>2. timeSlotLen \in Nat
    BY <2>1, ModInRange DEF timeSlotLen
  <2>3. SlotEnd \in 0 .. Modulus - 1 /\ sampledSize % Modulus \in 0 .. Modulus - 1
    BY <2>1, <2>2, ModInRange DEF SlotEnd
  <2> QED
    BY <2>3 DEF NextStart
<1>4. len' = (NextStart - nextSlotStart) % Modulus /\ len' \in Nat /\ nextSlotStart \in Nat
  <2>1. NextStart - nextSlotStart \in Int /\ nextSlotStart \in Nat
    BY <1>3, Assumed DEF Types
  <2>2. (NextStart - nextSlotStart) % Modulus \in Nat
    BY <2>1, Assumed, ModInRange
  <2> QED
    BY <1>1, <2>1, <2>2 DEF len
<1>5. /\ starts' \in Seq(Nat) /\ Len(starts') = chunk
      /\ starts'[chunk] = nextSlotStart /\ \A k \in 1 .. chunkCount : starts'[k] = starts[k]
  <2>1. /\ starts \in Seq(Nat) /\ Len(starts) = chunkCount
        /\ starts' = Append(starts, nextSlotStart)
    BY <1>1, <1>2 DEF Types
  <2> QED
    BY <1>2, <1>4, <2>1, OneMore
<1>6. /\ numInst' \in Seq(Nat) /\ Len(numInst') = chunk
      /\ numInst'[chunk] = len' /\ \A k \in 1 .. chunkCount : numInst'[k] = numInst[k]
  <2> DEFINE n == len'
  <2>1. /\ numInst \in Seq(Nat) /\ Len(numInst) = chunkCount /\ n \in Nat
        /\ numInst' = Append(numInst, n)
    BY <1>1, <1>2, <1>4 DEF Types
  <2> HIDE DEF n
  <2>2. /\ numInst' \in Seq(Nat) /\ Len(numInst') = chunk
        /\ numInst'[chunk] = n /\ \A k \in 1 .. chunkCount : numInst'[k] = numInst[k]
    BY <1>2, <2>1, OneMore
  <2> QED
    BY <2>2 DEF n
<1>7. /\ coldMiss' \in Seq(Nat) /\ Len(coldMiss') = chunk
      /\ coldMiss'[chunk] = 0 /\ \A k \in 1 .. chunkCount : coldMiss'[k] = coldMiss[k]
  <2>1. /\ coldMiss \in Seq(Nat) /\ Len(coldMiss) = chunkCount
        /\ coldMiss' = Append(coldMiss, 0)
    BY <1>1, <1>2 DEF Types
  <2> QED
    BY <1>2, <2>1, OneMore
<1>8. /\ reuseDistanceHisto' \in Seq(Counts) /\ Len(reuseDistanceHisto') = chunk
      /\ reuseDistanceHisto'[chunk] = <<>>
      /\ \A k \in 1 .. chunkCount : reuseDistanceHisto'[k] = reuseDistanceHisto[k]
  <2>1. /\ reuseDistanceHisto \in Seq(Counts) /\ Len(reuseDistanceHisto) = chunkCount
        /\ reuseDistanceHisto' = Append(reuseDistanceHisto, <<>>)
    BY <1>1, <1>2 DEF Types
  <2> QED
    BY <1>2, <2>1, EmptyCount, OneMore
<1>9. /\ monitoredTrace' \in Seq(Counts) /\ Len(monitoredTrace') = chunk
      /\ monitoredTrace'[chunk] = <<>>
      /\ \A k \in 1 .. chunkCount : monitoredTrace'[k] = monitoredTrace[k]
  <2>1. /\ monitoredTrace \in Seq(Counts) /\ Len(monitoredTrace) = chunkCount
        /\ monitoredTrace' = Append(monitoredTrace, <<>>)
    BY <1>1, <1>2 DEF Types
  <2> QED
    BY <1>2, <2>1, EmptyCount, OneMore
<1> QED
  BY <1>1, <1>2, <1>3, <1>4, <1>5, <1>6, <1>7, <1>8, <1>9

\* A turn of the loop, for a block that the chunk has seen before and for another.
LEMMA MonitorFacts ==
  ASSUME Types, InChunk, Monitor
  PROVE  /\ phase = "access" /\ phase' = "access" /\ i' = i + 1 /\ i < from + len
         /\ Begun = chunk /\ Begun' = chunk /\ chunk \in Nat \ {0}
         /\ UNCHANGED <<sampling, useTimeSlot, from, nextSlotStart, finished, numInst,
                        starts, chunkCount>>
         /\ Len(monitoredTrace') = chunk /\ monitoredTrace' \in Seq(Counts)
         /\ Len(reuseDistanceHisto') = chunk /\ reuseDistanceHisto' \in Seq(Counts)
         /\ Len(coldMiss') = chunk /\ coldMiss' \in Seq(Nat)
         /\ \A k \in 1 .. chunkCount :
              /\ monitoredTrace'[k] = monitoredTrace[k]
              /\ reuseDistanceHisto'[k] = reuseDistanceHisto[k]
              /\ coldMiss'[k] = coldMiss[k]
         /\ \E b \in BlocksAt(i) :
              /\ b \in Nat
              /\ monitoredTrace'[chunk] = With(monitoredTrace[chunk], b, i)
              /\ \/ /\ b \in DOMAIN monitoredTrace[chunk]
                    /\ coldMiss'[chunk] = coldMiss[chunk]
                    /\ i - monitoredTrace[chunk][b] - 1 \in Nat
                    /\ reuseDistanceHisto'[chunk] =
                         Counted(reuseDistanceHisto[chunk], i - monitoredTrace[chunk][b] - 1)
                 \/ /\ b \notin DOMAIN monitoredTrace[chunk]
                    /\ coldMiss'[chunk] = coldMiss[chunk] + 1
                    /\ reuseDistanceHisto'[chunk] = reuseDistanceHisto[chunk]
<1>1. /\ phase = "access" /\ phase' = "access" /\ i' = i + 1 /\ i < from + len
      /\ UNCHANGED <<sampling, useTimeSlot, from, nextSlotStart, finished, numInst,
                     starts, chunkCount>>
  BY DEF Monitor
<1>2. Begun = chunk /\ Begun' = chunk /\ chunk \in Nat \ {0} /\ chunk \in 1 .. chunk
      /\ chunk = chunkCount + 1 /\ 1 .. chunkCount \subseteq 1 .. chunk
      /\ \A k \in 1 .. chunkCount : k # chunk
  BY <1>1 DEF Begun, chunk, Types
<1>3. PICK b \in BlocksAt(i) :
        /\ \/ /\ b \in DOMAIN monitoredTrace[chunk]
              /\ reuseDistanceHisto' = [reuseDistanceHisto EXCEPT
                   ![chunk] = Counted(reuseDistanceHisto[chunk],
                                      i - monitoredTrace[chunk][b] - 1)]
              /\ UNCHANGED coldMiss
           \/ /\ b \notin DOMAIN monitoredTrace[chunk]
              /\ coldMiss' = [coldMiss EXCEPT ![chunk] = coldMiss[chunk] + 1]
              /\ UNCHANGED reuseDistanceHisto
        /\ monitoredTrace' = [monitoredTrace EXCEPT
                                ![chunk] = LastUse(monitoredTrace[chunk], b, i)]
  BY DEF Monitor
<1>4. i \in Nat /\ b \in Nat
  BY BlocksAreNat DEF Types
<1>5. /\ monitoredTrace \in Seq(Counts) /\ Len(monitoredTrace) = chunk
      /\ monitoredTrace[chunk] \in Counts
      /\ reuseDistanceHisto \in Seq(Counts) /\ Len(reuseDistanceHisto) = chunk
      /\ reuseDistanceHisto[chunk] \in Counts
      /\ coldMiss \in Seq(Nat) /\ Len(coldMiss) = chunk /\ coldMiss[chunk] \in Nat
  BY <1>2 DEF Types
<1>6. /\ Len(monitoredTrace') = chunk /\ monitoredTrace' \in Seq(Counts)
      /\ monitoredTrace'[chunk] = With(monitoredTrace[chunk], b, i)
      /\ \A k \in 1 .. chunkCount : monitoredTrace'[k] = monitoredTrace[k]
  <2> DEFINE new == With(monitoredTrace[chunk], b, i)
  <2>1. new \in Counts /\ monitoredTrace' = [monitoredTrace EXCEPT ![chunk] = new]
    BY <1>3, <1>4, <1>5, WithType DEF LastUse
  <2>2. chunk \in 1 .. Len(monitoredTrace) /\ 1 .. chunkCount \subseteq 1 .. Len(monitoredTrace)
    BY <1>2, <1>5
  <2> HIDE DEF new
  <2>3. /\ Len(monitoredTrace') = Len(monitoredTrace) /\ monitoredTrace' \in Seq(Counts)
        /\ monitoredTrace'[chunk] = new
        /\ \A k \in 1 .. Len(monitoredTrace) : k # chunk => monitoredTrace'[k] = monitoredTrace[k]
    BY <1>5, <2>1, <2>2, OneChanged
  <2> QED
    BY <1>2, <1>5, <2>2, <2>3 DEF new
<1>7. CASE b \in DOMAIN monitoredTrace[chunk]
  <2>1. i - monitoredTrace[chunk][b] - 1 \in Nat
    <3>1. monitoredTrace[chunk][b] \in from .. i - 1 /\ from \in Nat
      BY <1>1, <1>7, Assumed DEF InChunk, Types
    <3> QED
      BY <1>4, <3>1
  <2> DEFINE new == Counted(reuseDistanceHisto[chunk], i - monitoredTrace[chunk][b] - 1)
  <2>2. new \in Counts
    BY <1>5, <2>1, CountedType
  <2>3. reuseDistanceHisto' = [reuseDistanceHisto EXCEPT ![chunk] = new] /\ UNCHANGED coldMiss
    BY <1>3, <1>7
  <2> HIDE DEF new
  <2>4. /\ Len(reuseDistanceHisto') = chunk /\ reuseDistanceHisto' \in Seq(Counts)
        /\ reuseDistanceHisto'[chunk] = new
        /\ \A k \in 1 .. chunkCount : reuseDistanceHisto'[k] = reuseDistanceHisto[k]
    BY <1>2, <1>5, <2>2, <2>3, OneChanged
  <2> QED
    BY <1>1, <1>2, <1>3, <1>4, <1>5, <1>6, <1>7, <2>1, <2>3, <2>4 DEF new
<1>8. CASE b \notin DOMAIN monitoredTrace[chunk]
  <2>1. coldMiss' = [coldMiss EXCEPT ![chunk] = coldMiss[chunk] + 1] /\ UNCHANGED reuseDistanceHisto
    BY <1>3, <1>8
  <2>2. /\ Len(coldMiss') = chunk /\ coldMiss' \in Seq(Nat)
        /\ coldMiss'[chunk] = coldMiss[chunk] + 1
        /\ \A k \in 1 .. chunkCount : coldMiss'[k] = coldMiss[k]
    BY <1>2, <1>5, <2>1, OneChanged
  <2> QED
    BY <1>1, <1>2, <1>3, <1>4, <1>5, <1>6, <1>8, <2>1, <2>2
<1> QED
  BY <1>7, <1>8

-----------------------------------------------------------------------------
(* The ranges of the variables, and the loop of runTimeStatsFull.          *)

LEMMA TypesInit == Init => Types /\ InChunk
<1> SUFFICES ASSUME Init
             PROVE  Types /\ InChunk
  OBVIOUS
<1>1. PICK input \in Inputs :
        /\ memoryTraces = input.trace
        /\ phase = IF input.doSample THEN "sample" ELSE "clear"
        /\ useTimeSlot = input.useTimeSlot
  BY DEF Init
<1>2. input.trace \in Seq(Nat) /\ input.useTimeSlot \in 0 .. Modulus - 1
  BY StatCacheAssumption
<1>3. \A S : <<>> \in Seq(S) /\ Len(<<>>) = 0
  OBVIOUS
<1>4. 0 \in 0 .. Modulus - 1
  BY Assumed
<1>5. /\ phase \in {"sample", "clear"}
      /\ sampleContainer = <<>> /\ starts = <<>> /\ numInst = <<>> /\ coldMiss = <<>>
      /\ reuseDistanceHisto = <<>> /\ monitoredTrace = <<>>
      /\ counter = 0 /\ from = 0 /\ nextSlotStart = 0 /\ finished = FALSE /\ i = 0
      /\ chunkCount = 0
  BY <1>1 DEF Init
<1>6. Begun = 0
  BY <1>5 DEF Begun
<1> QED
  BY <1>1, <1>2, <1>3, <1>4, <1>5, <1>6 DEF Types, InChunk

LEMMA TypesStep == Types /\ InChunk /\ [Next]_vars => (Types /\ InChunk)'
<1> SUFFICES ASSUME Types, InChunk, [Next]_vars
             PROVE  Types' /\ InChunk'
  OBVIOUS
<1>1. CASE Sample
  <2>1. /\ phase = "sample" /\ phase' = "sample" /\ counter < Len(memoryTraces)
        /\ UNCHANGED <<memoryTraces, slots, stats>>
    BY <1>1 DEF Sample
  <2>2. counter' \in Nat
    <3>1. PICK step \in RandSteps : counter' = counter + step
      BY <1>1 DEF Sample
    <3>2. step \in Nat
      BY Assumed DEF RandSteps
    <3> QED
      BY <3>1, <3>2 DEF Types
  <2>3. sampleContainer' \in Seq(Nat)
    <3>1. counter + 1 \in 1 .. Len(memoryTraces) /\ memoryTraces \in Seq(Nat)
      BY <2>1 DEF Types
    <3>2. memoryTraces[counter + 1] \in Nat
      BY <3>1
    <3> QED
      BY <1>1, <3>2 DEF Sample, Types
  <2>4. Begun' = Begun /\ Begun = chunkCount
    BY <2>1 DEF Begun, stats
  <2> QED
    BY <2>1, <2>2, <2>3, <2>4 DEF Types, InChunk, slots, stats
<1>2. CASE UseSample
  <2>1. /\ phase = "sample" /\ phase' = "clear" /\ memoryTraces' = sampleContainer
        /\ UNCHANGED <<sampleContainer, counter, slots, stats>>
    BY <1>2 DEF UseSample
  <2>2. Begun' = Begun
    BY <2>1 DEF Begun, stats
  <2> QED
    BY <2>1, <2>2 DEF Types, InChunk, slots, stats
<1>3. CASE ClearStats
  <2>1. /\ phase = "clear" /\ phase' = "slot"
        /\ reuseDistanceHisto' = <<>> /\ monitoredTrace' = <<>> /\ coldMiss' = <<>>
        /\ chunkCount' = 0 /\ nextSlotStart' = 0 /\ finished' = FALSE
        /\ UNCHANGED <<sampling, useTimeSlot, from, i, numInst, starts>>
    BY <1>3 DEF ClearStats
  <2>2. Begun = 0 /\ Begun' = 0
    BY <2>1 DEF Begun, Types
  <2>3. \A S : <<>> \in Seq(S) /\ Len(<<>>) = 0
    OBVIOUS
  <2>4. 0 \in 0 .. Modulus - 1
    BY Assumed
  <2> QED
    BY <2>1, <2>2, <2>3, <2>4 DEF Types, InChunk, sampling
<1>4. CASE StartSlot
  <2>1. /\ phase' = "access" /\ chunkCount' = chunkCount /\ Begun' = chunk /\ chunk' = chunk
        /\ UNCHANGED <<sampling, useTimeSlot>>
        /\ from' = nextSlotStart /\ i' = nextSlotStart /\ nextSlotStart' = NextStart
        /\ NextStart \in 0 .. Modulus - 1 /\ len' \in Nat /\ finished' = LastSlot
        /\ starts'[chunk] = nextSlotStart /\ numInst'[chunk] = len'
        /\ monitoredTrace'[chunk] = <<>>
    BY <1>4, StartSlotFacts
  <2>2. finished' \in BOOLEAN
    BY <2>1 DEF LastSlot
  <2>3. i' \in Nat /\ i' \in from' .. from' + len' /\ from' \in 0 .. Modulus - 1
    <3> DEFINE n == len'
               here == nextSlotStart
    <3>1. n \in Nat /\ i' = here /\ from' = here /\ here \in 0 .. Modulus - 1 /\ Modulus \in Nat
      BY <2>1, Assumed DEF Types
    <3> HIDE DEF n, here
    <3>2. i' \in Nat /\ i' \in from' .. from' + n
      BY <3>1
    <3> QED
      BY <3>1, <3>2 DEF n
  <2>4. /\ starts' \in Seq(Nat) /\ numInst' \in Seq(Nat) /\ coldMiss' \in Seq(Nat)
        /\ reuseDistanceHisto' \in Seq(Counts) /\ monitoredTrace' \in Seq(Counts)
        /\ Len(starts') = chunk /\ Len(numInst') = chunk /\ Len(coldMiss') = chunk
        /\ Len(reuseDistanceHisto') = chunk /\ Len(monitoredTrace') = chunk
    BY <1>4, StartSlotFacts
  <2>5. InChunk'
    <3>1. DOMAIN <<>> = {}
      OBVIOUS
    <3>2. \A b \in DOMAIN monitoredTrace'[chunk] : FALSE
      BY <2>1, <3>1
    <3> QED
      BY <2>1, <2>3, <3>2 DEF InChunk
  <2>6. Types'
    BY <2>1, <2>2, <2>3, <2>4 DEF Types, sampling
  <2> QED
    BY <2>5, <2>6
<1>5. CASE Monitor
  <2>1. /\ phase = "access" /\ phase' = "access" /\ i' = i + 1 /\ i < from + len
        /\ Begun = chunk /\ Begun' = chunk
        /\ UNCHANGED <<sampling, useTimeSlot, from, nextSlotStart, finished, numInst,
                       starts, chunkCount>>
        /\ Len(monitoredTrace') = chunk /\ monitoredTrace' \in Seq(Counts)
        /\ Len(reuseDistanceHisto') = chunk /\ reuseDistanceHisto' \in Seq(Counts)
        /\ Len(coldMiss') = chunk /\ coldMiss' \in Seq(Nat)
    BY <1>5, MonitorFacts
  <2>2. Types'
    BY <2>1 DEF Types, sampling
  <2>3. PICK b \in Nat : monitoredTrace'[chunk] = With(monitoredTrace[chunk], b, i)
    BY <1>5, MonitorFacts
  <2>4. i' \in from .. from + len /\ i \in from .. i' - 1 /\ from \in Nat /\ i \in Nat
    <3> DEFINE n == len
    <3>1. n \in Nat /\ i < from + n /\ i \in from .. from + n
      BY <2>1, LenIsNat DEF InChunk
    <3>2. from \in Nat /\ i \in Nat
      BY Assumed DEF Types
    <3> HIDE DEF n
    <3>3. i' \in from .. from + n /\ i \in from .. i' - 1
      BY <2>1, <3>1, <3>2
    <3> QED
      BY <3>2, <3>3 DEF n
  <2>5. \A a \in DOMAIN monitoredTrace'[chunk] : monitoredTrace'[chunk][a] \in from .. i' - 1
    <3>1. monitoredTrace[chunk] \in Counts
      BY <2>1 DEF Types, Begun, chunk
    <3>2. /\ DOMAIN monitoredTrace'[chunk] = DOMAIN monitoredTrace[chunk] \union {b}
          /\ \A z \in DOMAIN monitoredTrace[chunk] \union {b} :
               monitoredTrace'[chunk][z] = IF z = b THEN i ELSE monitoredTrace[chunk][z]
      <4> DEFINE g == monitoredTrace[chunk]
                 t == i
      <4>1. g \in Counts /\ t \in Nat /\ monitoredTrace'[chunk] = With(g, b, t)
        BY <2>3, <2>4, <3>1
      <4> HIDE DEF g, t
      <4>2. /\ DOMAIN With(g, b, t) = DOMAIN g \union {b}
            /\ \A z \in DOMAIN g \union {b} : With(g, b, t)[z] = IF z = b THEN t ELSE g[z]
        BY <4>1, WithType, ZenonT(60)
      <4> QED
        BY <4>1, <4>2 DEF g, t
    <3>3. \A z \in DOMAIN monitoredTrace[chunk] : monitoredTrace[chunk][z] \in from .. i - 1
      BY <2>1 DEF InChunk
    <3> QED
      BY <2>1, <2>4, <3>2, <3>3
  <2>6. chunk' = chunk /\ len' = len
    BY <2>1 DEF chunk, len
  <2>7. InChunk'
    BY <2>1, <2>4, <2>5, <2>6 DEF InChunk
  <2> QED
    BY <2>2, <2>7
<1>6. CASE EndSlot
  <2>1. /\ phase = "access" /\ phase' \in {"solve", "slot"} /\ chunkCount' = chunk
        /\ UNCHANGED <<sampling, slots, reuseDistanceHisto, monitoredTrace, coldMiss,
                       numInst, starts>>
    BY <1>6 DEF EndSlot, chunk
  <2>2. Begun' = Begun /\ chunk \in Nat
    BY <2>1 DEF Begun, chunk, Types
  <2> QED
    BY <2>1, <2>2 DEF Types, InChunk, slots, sampling
<1>7. CASE Iterate \/ NextSize \/ Finish
  <2>1. /\ phase = "solve" /\ phase' \in {"solve", "done"}
        /\ UNCHANGED <<sampling, slots, stats>>
    BY <1>7 DEF Iterate, NextSize, Finish
  <2>2. Begun' = Begun
    BY <2>1 DEF Begun, stats
  <2> QED
    BY <2>1, <2>2 DEF Types, InChunk, sampling, slots, stats
<1>8. CASE UNCHANGED vars
  <2>1. UNCHANGED <<phase, sampling, slots, stats>>
    BY <1>8 DEF vars
  <2>2. Begun' = Begun /\ chunk' = chunk /\ len' = len
    BY <2>1 DEF Begun, chunk, len, slots, stats
  <2> QED
    BY <2>1, <2>2 DEF Types, InChunk, sampling, slots, stats
<1> QED
  BY <1>1, <1>2, <1>3, <1>4, <1>5, <1>6, <1>7, <1>8 DEF Next

LEMMA TypesCorrect == Spec => [](Types /\ InChunk)
<1>1. Init => Types /\ InChunk
  BY TypesInit
<1>2. Types /\ InChunk /\ [Next]_vars => (Types /\ InChunk)'
  BY TypesStep
<1> QED
  BY <1>1, <1>2, PTL DEF Spec

-----------------------------------------------------------------------------
(* The sample.                                                             *)

\* Every access kept was reached by as many steps as were kept before it.
Sampled ==
  phase = "sample" =>
    LET n == Len(sampleContainer) IN
    /\ n * (SampleStep - SampleStepDiff) <= counter
    /\ counter <= n * (SampleStep + SampleStepDiff)
    /\ n = 0 => counter = 0
    /\ n > 0 => /\ sampleContainer[1] = memoryTraces[1]
                /\ (n - 1) * (SampleStep - SampleStepDiff) <= Len(memoryTraces) - 1

LEMMA Fewer ==
  ASSUME NEW a \in Nat, NEW x \in Nat, NEW d \in Nat \ {0}, a * d <= x
  PROVE  a <= x \div d
<1> DEFINE q == x \div d
<1>1. q \in Nat /\ x % d \in 0 .. d - 1 /\ x = q * d + (x % d)
  BY DivMod
<1> HIDE DEF q
<1>2. x < q * d + d
  BY <1>1
<1>3. ASSUME q < a
      PROVE  q * d + d <= a * d
  <2>1. (q + 1) * d <= a * d
    BY <1>1, <1>3
  <2> QED
    BY <1>1, <2>1
<1>4. ~(q < a)
  <2>1. a * d \in Nat /\ q * d \in Nat
    BY <1>1
  <2> QED
    BY <1>1, <1>2, <1>3, <2>1
<1> QED
  BY <1>1, <1>4 DEF q

LEMMA SampledStep == Types /\ Sampled /\ [Next]_vars => Sampled'
<1> SUFFICES ASSUME Types, Sampled, [Next]_vars, phase' = "sample"
             PROVE  Sampled'
  BY DEF Sampled
<1> DEFINE n == Len(sampleContainer)
           lo == SampleStep - SampleStepDiff
           hi == SampleStep + SampleStepDiff
<1>1. /\ n \in Nat /\ lo \in Nat \ {0} /\ hi \in Nat \ {0} /\ counter \in Nat
      /\ Len(memoryTraces) \in Nat /\ sampleContainer \in Seq(Nat)
  BY Assumed DEF Types
<1>2. CASE Sample
  <2>1. PICK step \in lo .. hi :
          /\ counter' = counter + step
          /\ phase = "sample" /\ counter < Len(memoryTraces) /\ UNCHANGED memoryTraces
          /\ sampleContainer' = Append(sampleContainer, memoryTraces[counter + 1])
    BY <1>2 DEF Sample, RandSteps
  <2>2. /\ Len(sampleContainer') = n + 1
        /\ sampleContainer'[1] = IF n = 0 THEN memoryTraces[counter + 1] ELSE sampleContainer[1]
    BY <1>1, <2>1
  <2>3. /\ n * lo <= counter /\ counter <= n * hi
        /\ n = 0 => counter = 0
        /\ n > 0 => sampleContainer[1] = memoryTraces[1]
    BY <2>1 DEF Sampled
  <2>4. sampleContainer'[1] = memoryTraces'[1]
    <3>1. CASE n = 0
      <4>1. counter = 0 /\ 0 + 1 = 1
        BY <2>3, <3>1
      <4> QED
        BY <2>1, <2>2, <3>1, <4>1
    <3>2. CASE n # 0
      <4>1. n > 0
        BY <1>1, <3>2
      <4> QED
        BY <2>1, <2>2, <2>3, <3>2, <4>1
    <3> QED
      BY <3>1, <3>2
  <2> HIDE DEF n, lo, hi
  <2>5. (n + 1) * lo = n * lo + lo /\ (n + 1) * hi = n * hi + hi /\ n * lo \in Nat /\ n * hi \in Nat
    BY <1>1
  <2>6. /\ (n + 1) * lo <= counter' /\ counter' <= (n + 1) * hi
        /\ ((n + 1) - 1) * lo <= Len(memoryTraces) - 1
    <3>1. counter' \in Nat /\ step \in Nat /\ lo <= step /\ step <= hi
      BY <1>1, <2>1
    <3>2. (n + 1) - 1 = n
      BY <1>1
    <3>3. n * lo <= Len(memoryTraces) - 1
      BY <1>1, <2>1, <2>3, <2>5
    <3>4. n * lo + lo <= counter' /\ counter' <= n * hi + hi
      BY <1>1, <2>1, <2>3, <2>5, <3>1
    <3> QED
      BY <2>5, <3>2, <3>3, <3>4
  <2> QED
    BY <1>1, <2>1, <2>2, <2>4, <2>6 DEF Sampled, lo, hi
<1>3. CASE UNCHANGED vars
  BY <1>3 DEF vars, sampling, Sampled
<1>4. CASE ~Sample /\ Next
  BY <1>4 DEF Next, UseSample, ClearStats, StartSlot, Monitor, EndSlot, Iterate, NextSize, Finish
<1> QED
  BY <1>2, <1>3, <1>4

\* SampleSpread: a sample begins with the first access and has between as many
\* entries as the longest steps would leave and as the shortest ones would.
THEOREM SampleSpreadCorrect == Spec => []SampleSpread
<1>1. Init => Sampled
  <2> SUFFICES ASSUME Init
               PROVE  Sampled
    OBVIOUS
  <2>1. Len(sampleContainer) = 0 /\ counter = 0
    BY DEF Init
  <2>2. 0 * (SampleStep - SampleStepDiff) = 0 /\ 0 * (SampleStep + SampleStepDiff) = 0
    BY Assumed
  <2> QED
    BY <2>1, <2>2 DEF Sampled
<1>2. (Types /\ InChunk) /\ Sampled /\ [Next]_vars => Sampled'
  BY SampledStep
<1>3. (Types /\ InChunk) /\ Sampled => SampleSpread
  <2> SUFFICES ASSUME Types, Sampled, phase = "sample", counter >= Len(memoryTraces)
               PROVE  SampleSpread
    BY DEF SampleSpread
  <2> DEFINE n == Len(sampleContainer)
             size1 == Len(memoryTraces)
             lo == SampleStep - SampleStepDiff
             hi == SampleStep + SampleStepDiff
  <2>1. /\ n \in Nat /\ lo \in Nat \ {0} /\ hi \in Nat \ {0} /\ counter \in Nat
        /\ size1 \in Nat /\ counter >= size1
    BY Assumed DEF Types
  <2>2. /\ n * lo <= counter /\ counter <= n * hi
        /\ n = 0 => counter = 0
        /\ n > 0 => sampleContainer[1] = memoryTraces[1] /\ (n - 1) * lo <= size1 - 1
    BY DEF Sampled
  <2> SUFFICES /\ n * lo <= counter /\ counter <= n * hi
               /\ n > 0 => /\ sampleContainer[1] = memoryTraces[1]
                           /\ n - 1 <= (size1 - 1) \div lo
                           /\ n * hi >= size1
    BY DEF SampleSpread
  <2> HIDE DEF n, lo, hi, size1
  <2>3. ASSUME n > 0
        PROVE  n - 1 <= (size1 - 1) \div lo
    <3>1. n - 1 \in Nat /\ (n - 1) * lo \in Nat /\ (n - 1) * lo <= size1 - 1
      BY <2>1, <2>2, <2>3
    <3>2. size1 - 1 \in Nat
      BY <2>1, <3>1
    <3> QED
      BY <2>1, <3>1, <3>2, Fewer
  <2>4. n * hi >= size1
    <3>1. n * hi \in Nat
      BY <2>1
    <3> QED
      BY <2>1, <2>2, <3>1
  <2> QED
    BY <2>2, <2>3, <2>4
<1> QED
  BY <1>1, <1>2, <1>3, TypesCorrect, PTL DEF Spec

-----------------------------------------------------------------------------
(* The slots.                                                              *)

\* The slots so far follow each other and are full but for the last one, and as
\* long as that is to come at least half a slot is left for it.
Slotted ==
  Fits /\ phase \notin {"sample", "clear"} =>
    /\ \A k \in 1 .. Begun : starts[k] = Behind(k - 1)
    /\ \A k \in 1 .. Begun :
         \/ numInst[k] = timeSlotLen
         \/ /\ k = Begun /\ finished
            /\ k > 1 => numInst[k] >= timeSlotLen \div 2
            /\ numInst[k] < timeSlotLen + timeSlotLen \div 2
    /\ phase \in {"slot", "access"} => nextSlotStart = Behind(Begun)
    /\ phase = "access" => from <= nextSlotStart
    /\ finished => phase # "slot" /\ Behind(Begun) = sampledSize
    /\ ~finished =>
         /\ phase \in {"slot", "access"} /\ nextSlotStart <= sampledSize
         /\ nextSlotStart > 0 =>
              useTimeSlot > 0 /\ nextSlotStart + timeSlotLen \div 2 <= sampledSize

\* The length of a slot, when the trace fits.
LEMMA SlotLength ==
  ASSUME Types, Fits
  PROVE  /\ timeSlotLen = IF useTimeSlot = 0 THEN sampledSize ELSE useTimeSlot
         /\ timeSlotLen \in Nat /\ timeSlotLen < Modulus
         /\ timeSlotLen \div 2 \in Nat /\ timeSlotLen \div 2 <= timeSlotLen
         /\ sampledSize \in Nat /\ sampledSize < Modulus /\ sampledSize % Modulus = sampledSize
         /\ useTimeSlot > 0 =>
              sampledSize + timeSlotLen - timeSlotLen \div 2 < Modulus
<1> DEFINE u == useTimeSlot
           n == sampledSize
<1>1. u \in Nat /\ u < Modulus /\ n \in Nat /\ Modulus \in Nat \ {0}
  BY Assumed DEF Types, sampledSize
<1>2. n + (IF u = 0 THEN 0 ELSE u - u \div 2) < Modulus
  BY DEF Fits
<1>3. timeSlotLen = (IF u > 0 THEN u ELSE n) % Modulus
  BY DEF timeSlotLen
<1> HIDE DEF u, n
<1>4. n < Modulus /\ n % Modulus = n /\ u % Modulus = u
  <2>1. n < Modulus
    BY <1>1, <1>2
  <2> QED
    BY <1>1, <2>1, ModInRange
<1>5. timeSlotLen = IF u = 0 THEN n ELSE u
  BY <1>1, <1>3, <1>4
<1> DEFINE l == IF u = 0 THEN n ELSE u
<1>6. l \in Nat /\ l < Modulus /\ l \div 2 \in Nat /\ l \div 2 <= l
  BY <1>1, <1>4
<1>7. u > 0 => n + l - l \div 2 < Modulus
  BY <1>1, <1>2
<1> QED
  BY <1>1, <1>4, <1>5, <1>6, <1>7 DEF u, n

\* Where a slot ends: the arithmetic of `unsigned' does not wrap.
LEMMA NextSlot ==
  ASSUME Types, Fits, nextSlotStart <= sampledSize,
         nextSlotStart > 0 =>
           useTimeSlot > 0 /\ nextSlotStart + timeSlotLen \div 2 <= sampledSize
  PROVE  /\ nextSlotStart <= NextStart /\ NextStart <= sampledSize
         /\ (NextStart - nextSlotStart) % Modulus = NextStart - nextSlotStart
         /\ LastSlot =>
              /\ NextStart = sampledSize
              /\ NextStart - nextSlotStart <= timeSlotLen \/
                 NextStart - nextSlotStart < timeSlotLen + timeSlotLen \div 2
              /\ nextSlotStart > 0 => NextStart - nextSlotStart >= timeSlotLen \div 2
         /\ ~LastSlot =>
              /\ NextStart - nextSlotStart = timeSlotLen /\ useTimeSlot > 0
              /\ NextStart + timeSlotLen \div 2 <= sampledSize
<1> DEFINE l == timeSlotLen
           h == timeSlotLen \div 2
           n == sampledSize
           a == nextSlotStart
<1>1. /\ l = IF useTimeSlot = 0 THEN n ELSE useTimeSlot
      /\ l \in Nat /\ l < Modulus /\ h \in Nat /\ h <= l
      /\ n \in Nat /\ n < Modulus /\ n % Modulus = n
      /\ useTimeSlot > 0 => n + l - h < Modulus
  BY SlotLength
<1>2. a \in Nat /\ a <= n /\ Modulus \in Nat \ {0} /\ useTimeSlot \in Nat
  BY Assumed DEF Types
<1>3. a > 0 => useTimeSlot > 0 /\ a + h <= n
  BY <1>1
<1>4. SlotEnd = (a + l) % Modulus
  BY DEF SlotEnd
<1>5. LastSlot <=> SlotEnd >= n \/ n - SlotEnd < h
  BY DEF LastSlot
<1>6. NextStart = IF LastSlot THEN n % Modulus ELSE SlotEnd
  BY DEF NextStart
<1> HIDE DEF l, h, n, a
<1>7. a + l < Modulus
  BY <1>1, <1>2, <1>3
<1>8. SlotEnd = a + l
  <2> DEFINE x == a + l
  <2>1. x \in 0 .. Modulus - 1 /\ x \in Int /\ Modulus \in Nat \ {0}
    BY <1>1, <1>2, <1>7
  <2> HIDE DEF x
  <2>2. x % Modulus = x
    BY <2>1, ModInRange
  <2> QED
    BY <1>4, <2>2 DEF x
<1>9. NextStart = IF LastSlot THEN n ELSE a + l
  BY <1>1, <1>6, <1>8
<1>10. LastSlot => n - a <= l \/ n - a < l + h
  BY <1>1, <1>2, <1>5, <1>8
<1>11. ~LastSlot => a + l + h <= n /\ useTimeSlot > 0
  BY <1>1, <1>2, <1>3, <1>5, <1>8
<1>12. a <= NextStart /\ NextStart <= n /\ NextStart \in Nat
  BY <1>1, <1>2, <1>9, <1>11
<1>13. (NextStart - a) % Modulus = NextStart - a
  <2> DEFINE x == NextStart - a
  <2>1. x \in 0 .. Modulus - 1 /\ x \in Int /\ Modulus \in Nat \ {0}
    BY <1>1, <1>2, <1>12
  <2> HIDE DEF x
  <2>2. x % Modulus = x
    BY <2>1, ModInRange
  <2> QED
    BY <2>2 DEF x
<1>14. LastSlot => (a > 0 => NextStart - a >= h)
  BY <1>1, <1>2, <1>3, <1>9
<1> QED
  BY <1>1, <1>2, <1>9, <1>10, <1>11, <1>12, <1>13, <1>14 DEF l, h, n, a

\* What a step other than the first ones leaves of the condition on the trace.
LEMMA SameTrace ==
  ASSUME UNCHANGED <<memoryTraces, useTimeSlot>>
  PROVE  /\ sampledSize' = sampledSize /\ timeSlotLen' = timeSlotLen /\ Fits' = Fits
BY DEF sampledSize, timeSlotLen, Fits

LEMMA SlottedStep == Types /\ InChunk /\ Slotted /\ [Next]_vars => Slotted'
<1> SUFFICES ASSUME Types, InChunk, Slotted, [Next]_vars, Fits', phase' \notin {"sample", "clear"}
             PROVE  Slotted'
  BY DEF Slotted
<1>1. CASE Sample \/ UseSample
  BY <1>1 DEF Sample, UseSample
<1>2. CASE ClearStats
  <2>1. /\ phase = "clear" /\ phase' = "slot" /\ chunkCount' = 0
        /\ nextSlotStart' = 0 /\ finished' = FALSE
        /\ UNCHANGED <<memoryTraces, useTimeSlot>>
    BY <1>2 DEF ClearStats, sampling
  <2>2. Begun' = 0
    BY <2>1 DEF Begun
  <2>3. Behind(0)' = 0 /\ Behind(Begun)' = 0
    BY <2>2 DEF Behind
  <2>4. sampledSize' \in Nat
    BY <2>1 DEF Types, sampledSize
  <2> QED
    BY <2>1, <2>2, <2>3, <2>4 DEF Slotted
<1>3. CASE StartSlot
  <2>1. /\ phase = "slot" /\ phase' = "access"
        /\ Begun = chunkCount /\ Begun' = chunk /\ chunk' = chunk
        /\ chunk = chunkCount + 1 /\ chunkCount \in Nat
        /\ UNCHANGED <<memoryTraces, useTimeSlot>>
        /\ from' = nextSlotStart /\ nextSlotStart' = NextStart /\ finished' = LastSlot
        /\ starts'[chunk] = nextSlotStart /\ \A k \in 1 .. chunkCount : starts'[k] = starts[k]
        /\ numInst'[chunk] = (NextStart - nextSlotStart) % Modulus
        /\ \A k \in 1 .. chunkCount : numInst'[k] = numInst[k]
        /\ nextSlotStart \in Nat /\ NextStart \in Nat
    <3>1. /\ phase = "slot" /\ phase' = "access"
          /\ Begun = chunkCount /\ Begun' = chunk /\ chunk' = chunk
          /\ UNCHANGED <<sampling, useTimeSlot>>
          /\ from' = nextSlotStart /\ nextSlotStart' = NextStart /\ finished' = LastSlot
          /\ starts'[chunk] = nextSlotStart /\ \A k \in 1 .. chunkCount : starts'[k] = starts[k]
          /\ len' = (NextStart - nextSlotStart) % Modulus /\ numInst'[chunk] = len'
          /\ \A k \in 1 .. chunkCount : numInst'[k] = numInst[k]
          /\ NextStart \in 0 .. Modulus - 1
      BY <1>3, StartSlotFacts
    <3>2. chunk = chunkCount + 1 /\ chunkCount \in Nat /\ nextSlotStart \in Nat /\ NextStart \in Nat
      BY <3>1, Assumed DEF chunk, Types
    <3> QED
      BY <3>1, <3>2 DEF sampling
  <2>2. Fits /\ sampledSize' = sampledSize /\ timeSlotLen' = timeSlotLen
    BY <2>1, SameTrace
  <2>3. /\ \A k \in 1 .. chunkCount : starts[k] = Behind(k - 1) /\ numInst[k] = timeSlotLen
        /\ ~finished /\ nextSlotStart = Behind(chunkCount) /\ nextSlotStart <= sampledSize
        /\ nextSlotStart > 0 =>
             useTimeSlot > 0 /\ nextSlotStart + timeSlotLen \div 2 <= sampledSize
    BY <2>1, <2>2 DEF Slotted
  <2>4. /\ nextSlotStart <= NextStart /\ NextStart <= sampledSize
        /\ numInst'[chunk] = NextStart - nextSlotStart
        /\ LastSlot =>
             /\ NextStart = sampledSize
             /\ NextStart - nextSlotStart <= timeSlotLen \/
                NextStart - nextSlotStart < timeSlotLen + timeSlotLen \div 2
             /\ nextSlotStart > 0 => NextStart - nextSlotStart >= timeSlotLen \div 2
        /\ ~LastSlot =>
             /\ NextStart - nextSlotStart = timeSlotLen /\ useTimeSlot > 0
             /\ NextStart + timeSlotLen \div 2 <= sampledSize
    BY <2>1, <2>2, <2>3, NextSlot
  <2>5. timeSlotLen \in Nat /\ timeSlotLen \div 2 \in Nat /\ timeSlotLen \div 2 <= timeSlotLen
        /\ sampledSize \in Nat
    BY <2>2, SlotLength
  <2>6. \A k \in 0 .. chunkCount : Behind(k)' = Behind(k)
    BY <2>1 DEF Behind
  <2>7. Behind(chunk)' = NextStart
    <3>1. chunk # 0 /\ starts'[chunk] + numInst'[chunk] = NextStart
      BY <2>1, <2>4
    <3> QED
      BY <2>1, <3>1 DEF Behind
  <2>8. ASSUME NEW k \in 1 .. chunk
        PROVE  starts'[k] = Behind(k - 1)'
    <3>1. CASE k = chunk
      <4>1. k - 1 = chunkCount /\ chunkCount \in 0 .. chunkCount
        BY <2>1, <3>1
      <4> QED
        BY <2>1, <2>3, <2>6, <3>1, <4>1
    <3>2. CASE k # chunk
      <4>1. k \in 1 .. chunkCount /\ k - 1 \in 0 .. chunkCount
        BY <2>1, <3>2
      <4> QED
        BY <2>1, <2>3, <2>6, <4>1
    <3> QED
      BY <3>1, <3>2
  <2>9. \A k \in 1 .. chunkCount : numInst'[k] = timeSlotLen
    BY <2>1, <2>3
  <2>10. \/ numInst'[chunk] = timeSlotLen
         \/ /\ LastSlot
            /\ chunk > 1 => numInst'[chunk] >= timeSlotLen \div 2
            /\ numInst'[chunk] < timeSlotLen + timeSlotLen \div 2
    <3> SUFFICES ASSUME LastSlot, numInst'[chunk] # timeSlotLen
                 PROVE  /\ chunk > 1 => numInst'[chunk] >= timeSlotLen \div 2
                        /\ numInst'[chunk] < timeSlotLen + timeSlotLen \div 2
      BY <2>4
    <3>1. numInst'[chunk] < timeSlotLen + timeSlotLen \div 2
      <4> DEFINE l == timeSlotLen
                 h == timeSlotLen \div 2
                 d == NextStart - nextSlotStart
      <4>1. d \in Int /\ l \in Nat /\ h \in Nat /\ d # l /\ (d <= l \/ d < l + h)
        BY <2>1, <2>4, <2>5
      <4> HIDE DEF l, h, d
      <4>2. d < l + h
        BY <4>1
      <4> QED
        BY <2>4, <4>2 DEF d, l, h
    <3>2. ASSUME chunk > 1
          PROVE  numInst'[chunk] >= timeSlotLen \div 2
      <4>1. chunkCount \in 1 .. chunkCount /\ chunkCount # 0
        BY <2>1, <3>2
      <4>2. nextSlotStart = starts[chunkCount] + timeSlotLen
        BY <2>3, <4>1 DEF Behind
      <4>3. starts[chunkCount] \in Nat
        BY <2>1, <4>1 DEF Types
      <4>4. CASE nextSlotStart > 0
        BY <2>4, <4>4
      <4>5. CASE ~(nextSlotStart > 0)
        <5>1. timeSlotLen = 0
          BY <2>1, <2>5, <4>2, <4>3, <4>5
        <5>2. timeSlotLen \div 2 = 0
          BY <5>1
        <5>3. NextStart - nextSlotStart >= 0
          BY <2>1, <2>4
        <5> QED
          BY <2>4, <5>2, <5>3
      <4> QED
        BY <4>4, <4>5
    <3> QED
      BY <3>1, <3>2
  <2>11. ASSUME NEW k \in 1 .. chunk
         PROVE  \/ numInst'[k] = timeSlotLen
                \/ /\ k = chunk /\ LastSlot
                   /\ k > 1 => numInst'[k] >= timeSlotLen \div 2
                   /\ numInst'[k] < timeSlotLen + timeSlotLen \div 2
    <3>1. CASE k = chunk
      BY <2>10, <3>1
    <3>2. CASE k # chunk
      BY <2>1, <2>9, <3>2
    <3> QED
      BY <3>1, <3>2
  <2>12. Behind(Begun)' = NextStart
    <3>1. chunk # 0 /\ starts'[chunk] + numInst'[chunk] = NextStart
      BY <2>1, <2>4
    <3> QED
      BY <2>1, <3>1 DEF Behind
  <2> QED
    BY <2>1, <2>2, <2>4, <2>5, <2>8, <2>11, <2>12 DEF Slotted
<1>4. CASE Monitor
  <2>1. /\ phase = "access" /\ phase' = "access" /\ Begun' = Begun
        /\ UNCHANGED <<memoryTraces, useTimeSlot, from, nextSlotStart, finished, numInst, starts>>
    BY <1>4, MonitorFacts DEF sampling
  <2>2. Fits' = Fits /\ sampledSize' = sampledSize /\ timeSlotLen' = timeSlotLen
    BY <2>1, SameTrace
  <2>3. \A k : Behind(k)' = Behind(k)
    BY <2>1 DEF Behind
  <2> QED
    BY <2>1, <2>2, <2>3 DEF Slotted
<1>5. CASE EndSlot
  <2>1. /\ phase = "access" /\ phase' = IF finished THEN "solve" ELSE "slot"
        /\ chunkCount' = chunk
        /\ UNCHANGED <<memoryTraces, useTimeSlot, from, nextSlotStart, finished, numInst, starts>>
    BY <1>5 DEF EndSlot, chunk, sampling, slots
  <2>2. Begun' = Begun
    BY <2>1 DEF Begun
  <2>3. Fits' = Fits /\ sampledSize' = sampledSize /\ timeSlotLen' = timeSlotLen
    BY <2>1, SameTrace
  <2>4. \A k : Behind(k)' = Behind(k)
    BY <2>1 DEF Behind
  <2> QED
    BY <2>1, <2>2, <2>3, <2>4 DEF Slotted
<1>6. CASE Iterate \/ NextSize \/ Finish \/ UNCHANGED vars
  <2>1. /\ UNCHANGED <<memoryTraces, useTimeSlot, from, nextSlotStart, finished, numInst, starts,
                       chunkCount>>
        /\ \/ phase' = phase
           \/ phase = "solve" /\ phase' = "done"
    BY <1>6 DEF Iterate, NextSize, Finish, vars, sampling, slots, stats
  <2>2. Begun' = Begun
    BY <2>1 DEF Begun, chunk
  <2>3. Fits' = Fits /\ sampledSize' = sampledSize /\ timeSlotLen' = timeSlotLen
    BY <2>1, SameTrace
  <2>4. \A k : Behind(k)' = Behind(k)
    BY <2>1 DEF Behind
  <2> QED
    BY <2>1, <2>2, <2>3, <2>4 DEF Slotted
<1> QED
  BY <1>1, <1>2, <1>3, <1>4, <1>5, <1>6 DEF Next

LEMMA SlottedCorrect == Spec => []Slotted
<1>1. Init => Slotted
  BY DEF Init, Slotted
<1>2. (Types /\ InChunk) /\ Slotted /\ [Next]_vars => Slotted'
  BY SlottedStep
<1> QED
  BY <1>1, <1>2, TypesCorrect, PTL DEF Spec

\* The current chunk ends where the next slot begins.
LEMMA EndOfChunk ==
  ASSUME Types, InChunk, Slotted, Fits, phase = "access"
  PROVE  /\ from = starts[chunk] /\ nextSlotStart = Behind(chunk)
         /\ Begun = chunk /\ chunk \in Nat \ {0} /\ chunk \in 1 .. chunk
         /\ from \in Nat /\ i \in Nat /\ nextSlotStart \in Nat /\ sampledSize \in Nat
         /\ nextSlotStart = from + len /\ nextSlotStart <= sampledSize
         /\ i \in from .. nextSlotStart
<1>1. Begun = chunk /\ chunk \in Nat \ {0} /\ chunk \in 1 .. chunk
  BY DEF Begun, chunk, Types
<1>2. /\ from \in Nat /\ i \in Nat /\ nextSlotStart \in Nat /\ sampledSize \in Nat
  BY Assumed DEF Types, sampledSize
<1>3. /\ starts[chunk] = from /\ numInst[chunk] = len /\ i \in from .. from + len
  BY DEF InChunk
<1>4. /\ nextSlotStart = Behind(chunk)
      /\ finished => Behind(chunk) = sampledSize
      /\ ~finished => nextSlotStart <= sampledSize
  BY <1>1 DEF Slotted
<1>5. Behind(chunk) = from + len
  BY <1>1, <1>3 DEF Behind
<1> QED
  BY <1>1, <1>2, <1>3, <1>4, <1>5

\* SlotsPartition: when the trace fits, each slot begins where the one before it
\* ends, the reading stays within the slot and the trace, and the last slot ends
\* with the trace.
THEOREM SlotsPartitionCorrect == Spec => []SlotsPartition
<1>1. (Types /\ InChunk) /\ Slotted => SlotsPartition
  <2> SUFFICES ASSUME Types, InChunk, Slotted, Fits
               PROVE  SlotsPartition
    BY DEF SlotsPartition
  <2>1. \A k \in DOMAIN starts : starts[k] = Behind(k - 1)
    <3>1. DOMAIN starts = 1 .. Begun
      BY DEF Types
    <3>2. CASE phase \in {"sample", "clear"}
      <4>1. Begun = 0
        BY <3>2 DEF Types, Begun
      <4> QED
        BY <3>1, <4>1
    <3>3. CASE phase \notin {"sample", "clear"}
      BY <3>1, <3>3 DEF Slotted
    <3> QED
      BY <3>2, <3>3
  <2>2. phase = "access" =>
          /\ i \in from .. nextSlotStart /\ nextSlotStart <= sampledSize
          /\ from = starts[chunk] /\ nextSlotStart = Behind(chunk)
    BY EndOfChunk
  <2>3. phase \in {"solve", "done"} => sampledSize = Behind(chunkCount)
    BY DEF Slotted, Begun
  <2> QED
    BY <2>1, <2>2, <2>3 DEF SlotsPartition
<1> QED
  BY <1>1, TypesCorrect, SlottedCorrect, PTL

\* LastSlotLarge: all slots are full but the last, which has from half a slot
\* (unless it is the only one) to one and a half.
THEOREM LastSlotLargeCorrect == Spec => []LastSlotLarge
<1>1. (Types /\ InChunk) /\ Slotted => LastSlotLarge
  <2> SUFFICES ASSUME Types, InChunk, Slotted, Fits, NEW k \in 1 .. chunkCount
               PROVE  \/ numInst[k] = timeSlotLen
                      \/ /\ k = chunkCount /\ finished
                         /\ k > 1 => numInst[k] >= timeSlotLen \div 2
                         /\ numInst[k] < timeSlotLen + timeSlotLen \div 2
    BY DEF LastSlotLarge
  <2>1. phase \notin {"sample", "clear"} /\ chunkCount \in Nat
    BY DEF Types
  <2>2. k \in 1 .. Begun /\ (k = Begun => k = chunkCount)
    BY <2>1 DEF Begun, chunk
  <2> QED
    BY <2>1, <2>2 DEF Slotted
<1> QED
  BY <1>1, TypesCorrect, SlottedCorrect, PTL

-----------------------------------------------------------------------------
(* What solve() divides by.                                                *)

\* The accesses of a chunk so far are its cold misses and what its histogram
\* holds.
Read(k) == IF phase = "access" /\ k = chunk THEN i - from ELSE numInst[k]

Divided ==
  \A k \in 1 .. Begun :
    /\ IsFiniteSet(Entries(reuseDistanceHisto[k]))
    /\ Cardinality(Entries(reuseDistanceHisto[k])) + coldMiss[k] = Read(k)

\* One more reuse is one more entry.
LEMMA EntriesCounted ==
  ASSUME NEW g \in Counts, NEW x \in Nat, IsFiniteSet(Entries(g))
  PROVE  /\ IsFiniteSet(Entries(Counted(g, x)))
         /\ Cardinality(Entries(Counted(g, x))) = Cardinality(Entries(g)) + 1
<1> DEFINE n == IF x \in DOMAIN g THEN g[x] + 1 ELSE 1
           h == Counted(g, x)
<1>1. /\ DOMAIN h = DOMAIN g \union {x} /\ h[x] = n
      /\ \A z \in DOMAIN g : z # x => h[z] = g[z]
  BY CountedType
<1>2. n \in Nat \ {0}
  BY CountsAreNat
<1>3. <<x, n>> \notin Entries(g)
  <2> SUFFICES ASSUME NEW dist \in DOMAIN g, <<x, n>> \in {dist} \X (1 .. g[dist])
               PROVE  FALSE
    BY DEF Entries
  <2>1. x \in DOMAIN g /\ n \in 1 .. g[x] /\ g[x] \in Nat
    BY CountsAreNat
  <2> QED
    BY <2>1
<1>4. Entries(h) = Entries(g) \union {<<x, n>>}
  <2>1. 1 .. n = (IF x \in DOMAIN g THEN 1 .. g[x] ELSE {}) \union {n}
    BY CountsAreNat
  <2>2. \A dist, m : <<dist, m>> \in Entries(g) <=> dist \in DOMAIN g /\ m \in 1 .. g[dist]
    BY DEF Entries
  <2> HIDE DEF h, n
  <2>3. \A dist, m : <<dist, m>> \in Entries(h) <=> dist \in DOMAIN h /\ m \in 1 .. h[dist]
    BY DEF Entries
  <2>4. \A e \in Entries(g) \union Entries(h) : e = <<e[1], e[2]>>
    BY DEF Entries
  <2>5. \A dist, m : <<dist, m>> \in Entries(h) <=>
          <<dist, m>> \in Entries(g) \/ (dist = x /\ m = n)
    <3> SUFFICES ASSUME NEW dist, NEW m
                 PROVE  (dist \in DOMAIN h /\ m \in 1 .. h[dist]) <=>
                          (dist \in DOMAIN g /\ m \in 1 .. g[dist]) \/ (dist = x /\ m = n)
      BY <2>2, <2>3
    <3>1. CASE dist = x
      BY <1>1, <2>1, <3>1
    <3>2. CASE dist # x
      BY <1>1, <3>2
    <3> QED
      BY <3>1, <3>2
  <2> QED
    BY <2>4, <2>5
<1> HIDE DEF h, n
<1>5. /\ IsFiniteSet(Entries(h))
      /\ Cardinality(Entries(h)) = Cardinality(Entries(g)) + 1
  BY <1>3, <1>4, FS_AddElement
<1> QED
  BY <1>5 DEF h

LEMMA DividedStep == Types /\ InChunk /\ Divided /\ [Next]_vars => Divided'
<1> SUFFICES ASSUME Types, InChunk, Divided, [Next]_vars
             PROVE  Divided'
  OBVIOUS
<1>1. CASE Sample \/ UseSample \/ Iterate \/ NextSize \/ Finish \/ UNCHANGED vars
  <2>1. /\ UNCHANGED <<reuseDistanceHisto, coldMiss, numInst, i, from, chunkCount>>
        /\ (phase = "access" <=> phase' = "access")
    BY <1>1 DEF Sample, UseSample, Iterate, NextSize, Finish, vars, slots, stats
  <2>2. Begun' = Begun /\ chunk' = chunk
    BY <2>1 DEF Begun, chunk
  <2>3. \A k : Read(k)' = Read(k)
    BY <2>1, <2>2 DEF Read
  <2> QED
    BY <2>1, <2>2, <2>3 DEF Divided
<1>2. CASE ClearStats
  <2>1. Begun' = 0
    BY <1>2 DEF ClearStats, Begun
  <2> QED
    BY <2>1 DEF Divided
<1>3. CASE StartSlot
  <2>1. /\ phase = "slot" /\ Begun = chunkCount /\ Begun' = chunk /\ chunk' = chunk
        /\ phase' = "access" /\ from' = nextSlotStart /\ i' = nextSlotStart
        /\ coldMiss'[chunk] = 0 /\ reuseDistanceHisto'[chunk] = <<>>
        /\ \A k \in 1 .. chunkCount :
             /\ numInst'[k] = numInst[k] /\ coldMiss'[k] = coldMiss[k]
             /\ reuseDistanceHisto'[k] = reuseDistanceHisto[k]
    BY <1>3, StartSlotFacts
  <2>2. chunk = chunkCount + 1 /\ chunkCount \in Nat /\ nextSlotStart \in Nat
    BY Assumed DEF chunk, Types
  <2> SUFFICES ASSUME NEW k \in 1 .. chunk
               PROVE  /\ IsFiniteSet(Entries(reuseDistanceHisto'[k]))
                      /\ Cardinality(Entries(reuseDistanceHisto'[k])) + coldMiss'[k] = Read(k)'
    BY <2>1 DEF Divided, Entries
  <2>3. CASE k = chunk
    <3>1. Entries(<<>>) = {}
      BY DEF Entries
    <3>2. Read(k)' = 0
      BY <2>1, <2>2, <2>3 DEF Read
    <3>3. IsFiniteSet({}) /\ Cardinality({}) = 0
      BY FS_EmptySet
    <3>4. Entries(reuseDistanceHisto'[k]) = {} /\ coldMiss'[k] = 0
      BY <2>1, <2>3, <3>1
    <3> QED
      BY <3>2, <3>3, <3>4
  <2>4. CASE k # chunk
    <3>1. k \in 1 .. chunkCount
      BY <2>2, <2>4
    <3>2. Read(k) = numInst[k] /\ Read(k)' = numInst'[k]
      BY <2>1, <2>4 DEF Read
    <3> QED
      BY <2>1, <3>1, <3>2 DEF Divided
  <2> QED
    BY <2>3, <2>4
<1>4. CASE Monitor
  <2>1. /\ phase = "access" /\ phase' = "access" /\ i' = i + 1 /\ UNCHANGED <<from, numInst, chunkCount>>
        /\ Begun = chunk /\ Begun' = chunk /\ chunk \in Nat \ {0}
        /\ \A k \in 1 .. chunkCount :
             /\ reuseDistanceHisto'[k] = reuseDistanceHisto[k]
             /\ coldMiss'[k] = coldMiss[k]
    BY <1>4, MonitorFacts
  <2>2. /\ chunk' = chunk /\ chunk = chunkCount + 1 /\ chunkCount \in Nat
        /\ i \in Nat /\ from \in Nat
    BY <2>1, Assumed DEF chunk, Types
  <2> SUFFICES ASSUME NEW k \in 1 .. chunk
               PROVE  /\ IsFiniteSet(Entries(reuseDistanceHisto'[k]))
                      /\ Cardinality(Entries(reuseDistanceHisto'[k])) + coldMiss'[k] = Read(k)'
    BY <2>1 DEF Divided, Entries
  <2>3. CASE k = chunk
    <3> DEFINE g == reuseDistanceHisto[chunk]
               c == coldMiss[chunk]
    <3>1. /\ IsFiniteSet(Entries(g)) /\ Cardinality(Entries(g)) + c = i - from
          /\ g \in Counts /\ c \in Nat
      BY <2>1, <2>2 DEF Divided, Read, Types
    <3>2. Cardinality(Entries(g)) \in Nat
      BY <3>1, FS_CardinalityType
    <3>3. Read(k)' = (i - from) + 1
      BY <2>1, <2>2, <2>3 DEF Read
    <3>4. \/ /\ coldMiss'[chunk] = c
             /\ \E x \in Nat : reuseDistanceHisto'[chunk] = Counted(g, x)
          \/ /\ coldMiss'[chunk] = c + 1
             /\ reuseDistanceHisto'[chunk] = g
      BY <1>4, MonitorFacts
    <3> DEFINE n == Cardinality(Entries(g))
               d == i - from
    <3>n. n \in Nat /\ c \in Nat /\ d \in Int /\ n + c = d
      BY <2>2, <3>1, <3>2
    <3> HIDE DEF g, c, n, d
    <3>5. CASE /\ coldMiss'[chunk] = c
               /\ \E x \in Nat : reuseDistanceHisto'[chunk] = Counted(g, x)
      <4>1. PICK x \in Nat : reuseDistanceHisto'[chunk] = Counted(g, x)
        BY <3>5
      <4>2. /\ IsFiniteSet(Entries(Counted(g, x)))
            /\ Cardinality(Entries(Counted(g, x))) = n + 1
        BY <3>1, EntriesCounted DEF n
      <4>3. (n + 1) + c = d + 1
        BY <3>n
      <4> QED
        BY <2>3, <3>3, <3>5, <4>1, <4>2, <4>3 DEF d
    <3>6. CASE /\ coldMiss'[chunk] = c + 1
               /\ reuseDistanceHisto'[chunk] = g
      <4>1. n + (c + 1) = d + 1
        BY <3>n
      <4> QED
        BY <2>3, <3>1, <3>3, <3>6, <4>1 DEF n, d
    <3> QED
      BY <3>4, <3>5, <3>6
  <2>4. CASE k # chunk
    <3>1. k \in 1 .. chunkCount
      BY <2>2, <2>4
    <3>2. Read(k)' = Read(k)
      BY <2>1, <2>2, <2>4 DEF Read
    <3> QED
      BY <2>1, <3>1, <3>2 DEF Divided
  <2> QED
    BY <2>3, <2>4
<1>5. CASE EndSlot
  <2>1. /\ phase = "access" /\ phase' # "access" /\ chunkCount' = chunk /\ i >= from + len
        /\ UNCHANGED <<reuseDistanceHisto, coldMiss, numInst, i, from>>
    BY <1>5 DEF EndSlot, chunk, slots
  <2>2. Begun' = chunk /\ Begun = chunk
    BY <2>1 DEF Begun
  <2>3. numInst[chunk] = i - from
    <3> DEFINE n == len
    <3>1. n \in Nat /\ i \in from .. from + n /\ i >= from + n /\ numInst[chunk] = n
      BY <2>1, LenIsNat DEF InChunk
    <3>2. i \in Nat /\ from \in Nat
      BY Assumed DEF Types
    <3> HIDE DEF n
    <3>3. n = i - from
      BY <3>1, <3>2
    <3> QED
      BY <3>1, <3>3
  <2>4. \A k : Read(k)' = Read(k)
    BY <2>1, <2>3 DEF Read
  <2> QED
    BY <2>1, <2>2, <2>4 DEF Divided
<1> QED
  BY <1>1, <1>2, <1>3, <1>4, <1>5 DEF Next

\* DivisorCountsReuses: the length of a chunk without its cold misses, by which
\* solve() divides, is the number of reuses in its histogram.
THEOREM DivisorCountsReusesCorrect == Spec => []DivisorCountsReuses
<1>1. Init => Divided
  <2> SUFFICES ASSUME Init
               PROVE  Divided
    OBVIOUS
  <2>1. chunkCount = 0 /\ phase # "access"
    BY DEF Init
  <2> QED
    BY <2>1 DEF Divided, Begun
<1>2. (Types /\ InChunk) /\ Divided /\ [Next]_vars => Divided'
  BY DividedStep
<1>3. (Types /\ InChunk) /\ Divided => DivisorCountsReuses
  <2> SUFFICES ASSUME Types, Divided, NEW k \in 1 .. chunkCount
               PROVE  numInst[k] - coldMiss[k] = Cardinality(Entries(reuseDistanceHisto[k]))
    BY DEF DivisorCountsReuses
  <2>1. k \in 1 .. Begun /\ k # chunk /\ Read(k) = numInst[k]
    BY DEF Begun, chunk, Read, Types
  <2>2. /\ IsFiniteSet(Entries(reuseDistanceHisto[k]))
        /\ Cardinality(Entries(reuseDistanceHisto[k])) + coldMiss[k] = numInst[k]
    BY <2>1 DEF Divided
  <2>3. Cardinality(Entries(reuseDistanceHisto[k])) \in Nat
    BY <2>2, FS_CardinalityType
  <2>4. coldMiss[k] \in Nat /\ numInst[k] \in Nat
    BY <2>1 DEF Types
  <2> QED
    BY <2>2, <2>3, <2>4
<1> QED
  BY <1>1, <1>2, <1>3, TypesCorrect, PTL DEF Spec

-----------------------------------------------------------------------------
(* What the histograms hold.                                               *)

\* The reuses at one distance, and the blocks, of the accesses a to z - 1.
ReusesIn(a, z, dist) ==
  {t \in a .. z - 1 :
     /\ t - dist - 1 \in a .. z - 1 /\ Block(t - dist - 1) = Block(t)
     /\ \A q \in t - dist .. t - 1 : Block(q) # Block(t)}

BlocksIn(a, z) == {Block(t) : t \in a .. z - 1}

\* Of an access whose block is in the range nowhere before no reuse comes, ...
LEMMA FirstUseOfBlock ==
  ASSUME NEW a \in Nat, NEW z \in Nat, a <= z, NEW dist \in Nat,
         \A t \in a .. z - 1 : Block(t) # Block(z)
  PROVE  ReusesIn(a, z + 1, dist) = ReusesIn(a, z, dist)
<1> SUFFICES ASSUME NEW t
             PROVE  t \in ReusesIn(a, z + 1, dist) <=> t \in ReusesIn(a, z, dist)
  OBVIOUS
<1>1. CASE t \in a .. z - 1
  <2>1. t \in a .. z /\ (t - dist - 1 \in a .. z <=> t - dist - 1 \in a .. z - 1)
    BY <1>1
  <2>2. (z + 1) - 1 = z
    OBVIOUS
  <2> QED
    BY <1>1, <2>1, <2>2 DEF ReusesIn
<1>2. CASE t = z
  <2>1. z - dist - 1 \in a .. z => z - dist - 1 \in a .. z - 1
    OBVIOUS
  <2>2. t \notin ReusesIn(a, z + 1, dist)
    BY <1>2, <2>1 DEF ReusesIn
  <2>3. t \notin ReusesIn(a, z, dist)
    BY <1>2 DEF ReusesIn
  <2> QED
    BY <2>2, <2>3
<1>3. CASE t \notin a .. z
  BY <1>3 DEF ReusesIn
<1> QED
  BY <1>1, <1>2, <1>3

\* ... and of one whose block was last used at u a reuse comes at one distance.
LEMMA NextUseOfBlock ==
  ASSUME NEW a \in Nat, NEW z \in Nat, NEW dist \in Nat, NEW u \in a .. z - 1,
         Block(u) = Block(z), \A q \in u + 1 .. z - 1 : Block(q) # Block(z)
  PROVE  /\ z \notin ReusesIn(a, z, dist)
         /\ ReusesIn(a, z + 1, dist) =
              ReusesIn(a, z, dist) \union (IF dist = z - u - 1 THEN {z} ELSE {})
<1>1. z \notin ReusesIn(a, z, dist)
  BY DEF ReusesIn
<1>2. (z + 1) - 1 = z /\ u \in Nat /\ u < z
  OBVIOUS
<1> SUFFICES ASSUME NEW t
             PROVE  t \in ReusesIn(a, z + 1, dist) <=>
                      t \in ReusesIn(a, z, dist) \/ (t = z /\ dist = z - u - 1)
  BY <1>1
<1>3. CASE t \in a .. z - 1
  <2>1. t \in a .. z /\ (t - dist - 1 \in a .. z <=> t - dist - 1 \in a .. z - 1) /\ t # z
    BY <1>3
  <2> QED
    BY <1>2, <1>3, <2>1 DEF ReusesIn
<1>4. CASE t = z
  <2>1. CASE dist = z - u - 1
    <3>1. z \in a .. z /\ z - dist - 1 = u /\ u \in a .. z /\ z - dist = u + 1
      BY <1>2, <2>1
    <3>2. z \in ReusesIn(a, z + 1, dist)
      BY <1>2, <3>1 DEF ReusesIn
    <3> QED
      BY <1>4, <2>1, <3>2
  <2>2. CASE dist # z - u - 1
    <3> SUFFICES ASSUME z \in ReusesIn(a, z + 1, dist)
                 PROVE  FALSE
      BY <1>1, <1>4, <2>2
    <3>1. /\ z - dist - 1 \in a .. z /\ Block(z - dist - 1) = Block(z)
          /\ \A q \in z - dist .. z - 1 : Block(q) # Block(z)
      BY <1>2 DEF ReusesIn
    <3>2. u \in z - dist .. z - 1 \/ z - dist - 1 \in u + 1 .. z - 1
      BY <1>2, <2>2
    <3> QED
      BY <3>1, <3>2
  <2> QED
    BY <2>1, <2>2
<1>5. CASE t \notin a .. z
  <2>1. t \notin ReusesIn(a, z + 1, dist) /\ t \notin ReusesIn(a, z, dist) /\ t # z
    BY <1>2, <1>5 DEF ReusesIn
  <2> QED
    BY <2>1
<1> QED
  BY <1>3, <1>4, <1>5

LEMMA ReusesFinite ==
  ASSUME NEW a \in Nat, NEW z \in Nat, NEW dist \in Nat
  PROVE  /\ IsFiniteSet(ReusesIn(a, z, dist)) /\ Cardinality(ReusesIn(a, z, dist)) \in Nat
         /\ IsFiniteSet(BlocksIn(a, z)) /\ Cardinality(BlocksIn(a, z)) \in Nat
<1> DEFINE w == z - 1
<1>1. w \in Int
  OBVIOUS
<1> HIDE DEF w
<1>2. IsFiniteSet(a .. w)
  BY <1>1, FS_Interval
<1>3. IsFiniteSet(ReusesIn(a, z, dist))
  <2>1. ReusesIn(a, z, dist) \subseteq a .. w
    BY DEF ReusesIn, w
  <2> QED
    BY <1>2, <2>1, FS_Subset
<1>4. IsFiniteSet(BlocksIn(a, z))
  <2> DEFINE T == a .. w
             block == [t \in T |-> Block(t)]
  <2>1. BlocksIn(a, z) = {block[t] : t \in T} /\ IsFiniteSet(T)
    BY <1>2 DEF BlocksIn, w
  <2> HIDE DEF T, block
  <2> QED
    BY <2>1, ImageNotLarger
<1> QED
  BY <1>3, <1>4, FS_CardinalityType

LEMMA OneMoreBlock ==
  ASSUME NEW a \in Nat, NEW z \in Nat, a <= z
  PROVE  BlocksIn(a, z + 1) = BlocksIn(a, z) \union {Block(z)}
<1>1. a .. (z + 1) - 1 = (a .. z - 1) \union {z}
  OBVIOUS
<1> QED
  BY <1>1 DEF BlocksIn

CountAt(hist, dist) == IF dist \in DOMAIN hist THEN hist[dist] ELSE 0

\* A histogram and a number of cold misses that are those of these accesses, ...
Holds(hist, cold, a, z) ==
  /\ \A dist \in Nat : Cardinality(ReusesIn(a, z, dist)) = CountAt(hist, dist)
  /\ DOMAIN hist \subseteq 0 .. sampledSize
  /\ cold = Cardinality(BlocksIn(a, z))

\* ... and a monitored trace that knows where each block was last used.
Remembers(mt, a, z) ==
  /\ DOMAIN mt = BlocksIn(a, z)
  /\ \A b \in DOMAIN mt :
       /\ mt[b] \in a .. z - 1 /\ Block(mt[b]) = b
       /\ \A q \in mt[b] + 1 .. z - 1 : Block(q) # b

LEMMA HoldsAfterFirstUse ==
  ASSUME NEW hist \in Counts, NEW cold \in Nat, NEW a \in Nat, NEW z \in Nat, a <= z,
         Holds(hist, cold, a, z), Block(z) \notin BlocksIn(a, z)
  PROVE  Holds(hist, cold + 1, a, z + 1)
<1>1. \A t \in a .. z - 1 : Block(t) # Block(z)
  BY DEF BlocksIn
<1>2. \A dist \in Nat : ReusesIn(a, z + 1, dist) = ReusesIn(a, z, dist)
  BY <1>1, FirstUseOfBlock
<1>3. \A dist \in Nat : Cardinality(ReusesIn(a, z + 1, dist)) = CountAt(hist, dist)
  BY <1>2 DEF Holds
<1>4. cold + 1 = Cardinality(BlocksIn(a, z + 1))
  <2> DEFINE B == BlocksIn(a, z)
  <2>1. IsFiniteSet(B) /\ Block(z) \notin B /\ cold = Cardinality(B)
    BY ReusesFinite DEF Holds
  <2>2. BlocksIn(a, z + 1) = B \union {Block(z)}
    BY OneMoreBlock
  <2> HIDE DEF B
  <2> QED
    BY <2>1, <2>2, FS_AddElement
<1> QED
  BY <1>3, <1>4 DEF Holds

LEMMA HoldsAfterReuse ==
  ASSUME NEW hist \in Counts, NEW cold \in Nat, NEW a \in Nat, NEW z \in Nat, a <= z,
         Holds(hist, cold, a, z), sampledSize \in Nat, z < sampledSize,
         NEW u \in a .. z - 1, Block(u) = Block(z),
         \A q \in u + 1 .. z - 1 : Block(q) # Block(z)
  PROVE  Holds(Counted(hist, z - u - 1), cold, a, z + 1)
<1> DEFINE d == z - u - 1
           new == Counted(hist, d)
<1>1. d \in Nat /\ d \in 0 .. sampledSize
  OBVIOUS
<1>2. /\ DOMAIN new = DOMAIN hist \union {d}
      /\ new[d] = IF d \in DOMAIN hist THEN hist[d] + 1 ELSE 1
      /\ \A x \in DOMAIN hist : x # d => new[x] = hist[x]
  BY <1>1, CountedType
<1>3. ASSUME NEW dist \in Nat
      PROVE  Cardinality(ReusesIn(a, z + 1, dist)) = CountAt(new, dist)
  <2> DEFINE R == ReusesIn(a, z, dist)
  <2>1. /\ z \notin R /\ IsFiniteSet(R) /\ Cardinality(R) = CountAt(hist, dist)
        /\ ReusesIn(a, z + 1, dist) = R \union (IF dist = d THEN {z} ELSE {})
    <3>1. /\ z \notin ReusesIn(a, z, dist)
          /\ ReusesIn(a, z + 1, dist) =
               ReusesIn(a, z, dist) \union (IF dist = z - u - 1 THEN {z} ELSE {})
      BY NextUseOfBlock
    <3>2. IsFiniteSet(ReusesIn(a, z, dist))
      BY ReusesFinite
    <3>3. Cardinality(ReusesIn(a, z, dist)) = CountAt(hist, dist)
      BY DEF Holds
    <3> QED
      BY <3>1, <3>2, <3>3
  <2> HIDE DEF R, new, d
  <2>2. CASE dist = d
    <3>1. Cardinality(ReusesIn(a, z + 1, dist)) = CountAt(hist, dist) + 1
      BY <2>1, <2>2, FS_AddElement
    <3>2. CountAt(new, dist) = CountAt(hist, dist) + 1
      <4>1. CASE d \in DOMAIN hist
        BY <1>2, <2>2, <4>1 DEF CountAt
      <4>2. CASE d \notin DOMAIN hist
        BY <1>2, <2>2, <4>2 DEF CountAt
      <4> QED
        BY <4>1, <4>2
    <3> QED
      BY <3>1, <3>2
  <2>3. CASE dist # d
    <3>1. Cardinality(ReusesIn(a, z + 1, dist)) = CountAt(hist, dist)
      BY <2>1, <2>3
    <3>2. CountAt(new, dist) = CountAt(hist, dist)
      BY <1>2, <2>3 DEF CountAt
    <3> QED
      BY <3>1, <3>2
  <2> QED
    BY <2>2, <2>3
<1>4. DOMAIN new \subseteq 0 .. sampledSize
  BY <1>1, <1>2 DEF Holds
<1>5. cold = Cardinality(BlocksIn(a, z + 1))
  <2>1. Block(z) \in BlocksIn(a, z)
    BY DEF BlocksIn
  <2>2. BlocksIn(a, z + 1) = BlocksIn(a, z)
    <3> DEFINE B == BlocksIn(a, z)
               x == Block(z)
    <3>1. BlocksIn(a, z + 1) = B \union {x} /\ x \in B
      BY <2>1, OneMoreBlock
    <3> HIDE DEF B, x
    <3>2. B \union {x} = B
      BY <3>1
    <3> QED
      BY <3>1, <3>2 DEF B
  <2> QED
    BY <2>2 DEF Holds
<1> HIDE DEF new, d
<1>6. Holds(new, cold, a, z + 1)
  BY <1>3, <1>4, <1>5 DEF Holds
<1> QED
  BY <1>6 DEF new, d

LEMMA RemembersAfterUse ==
  ASSUME NEW mt \in Counts, NEW a \in Nat, NEW z \in Nat, a <= z, Block(z) \in Nat,
         Remembers(mt, a, z)
  PROVE  Remembers(With(mt, Block(z), z), a, z + 1)
<1> DEFINE c == Block(z)
           new == With(mt, c, z)
<1>1. /\ DOMAIN new = DOMAIN mt \union {c}
      /\ \A b \in DOMAIN mt \union {c} : new[b] = IF b = c THEN z ELSE mt[b]
  BY WithType, ZenonT(60)
<1>2. DOMAIN new = BlocksIn(a, z + 1)
  BY <1>1, OneMoreBlock DEF Remembers
<1> HIDE DEF new
<1>3. ASSUME NEW b \in DOMAIN new
      PROVE  /\ new[b] \in a .. (z + 1) - 1 /\ Block(new[b]) = b
             /\ \A q \in new[b] + 1 .. (z + 1) - 1 : Block(q) # b
  <2>1. CASE b = c
    <3>1. new[b] = z /\ z \in a .. (z + 1) - 1 /\ z + 1 .. (z + 1) - 1 = {}
      BY <1>1, <2>1
    <3> QED
      BY <2>1, <3>1
  <2>2. CASE b # c
    <3>1. /\ new[b] = mt[b] /\ mt[b] \in a .. z - 1 /\ Block(mt[b]) = b
          /\ \A q \in mt[b] + 1 .. z - 1 : Block(q) # b
      BY <1>1, <2>2 DEF Remembers
    <3>2. \A q \in mt[b] + 1 .. (z + 1) - 1 : q \in mt[b] + 1 .. z - 1 \/ q = z
      BY <3>1
    <3> QED
      BY <2>2, <3>1, <3>2
  <2> QED
    BY <2>1, <2>2
<1>4. Remembers(new, a, z + 1)
  BY <1>2, <1>3 DEF Remembers
<1> QED
  BY <1>4 DEF new

\* Where what chunk k has seen ends.
SeenUpTo(k) == IF k > chunkCount THEN i ELSE Behind(k)

Exact ==
  Fits /\ phase \notin {"sample", "clear"} =>
    /\ \A k \in 1 .. Begun :
         Holds(reuseDistanceHisto[k], coldMiss[k], starts[k], SeenUpTo(k))
    /\ phase = "access" => Remembers(monitoredTrace[chunk], from, i)

\* What holds of a trace holds as long as the trace stays as it is.
LEMMA HoldsNext ==
  ASSUME UNCHANGED memoryTraces, NEW hist, NEW cold, NEW a, NEW z, Holds(hist, cold, a, z),
         NEW k, reuseDistanceHisto'[k] = hist, coldMiss'[k] = cold, starts'[k] = a,
         SeenUpTo(k)' = z
  PROVE  Holds(reuseDistanceHisto[k], coldMiss[k], starts[k], SeenUpTo(k))'
<1>1. \A dist : ReusesIn(starts[k], SeenUpTo(k), dist)' = ReusesIn(a, z, dist)
  BY DEF ReusesIn, Block
<1>2. BlocksIn(starts[k], SeenUpTo(k))' = BlocksIn(a, z)
  BY DEF BlocksIn, Block
<1>3. \A dist : CountAt(reuseDistanceHisto[k], dist)' = CountAt(hist, dist)
  BY DEF CountAt
<1>4. sampledSize' = sampledSize
  BY DEF sampledSize
<1> QED
  BY <1>1, <1>2, <1>3, <1>4 DEF Holds

LEMMA RemembersNext ==
  ASSUME UNCHANGED memoryTraces, NEW mt, NEW a, NEW z, Remembers(mt, a, z),
         monitoredTrace'[chunk'] = mt, from' = a, i' = z
  PROVE  Remembers(monitoredTrace[chunk], from, i)'
<1>1. BlocksIn(from, i)' = BlocksIn(a, z)
  BY DEF BlocksIn, Block
<1>2. \A t : Block(t)' = Block(t)
  BY DEF Block
<1> QED
  BY <1>1, <1>2 DEF Remembers, Block

LEMMA NothingSeen ==
  ASSUME NEW a \in Nat, sampledSize \in Nat
  PROVE  Holds(<<>>, 0, a, a) /\ Remembers(<<>>, a, a)
<1>1. a .. a - 1 = {} /\ DOMAIN <<>> = {}
  OBVIOUS
<1>2. \A dist \in Nat : ReusesIn(a, a, dist) = {}
  BY <1>1 DEF ReusesIn
<1>3. BlocksIn(a, a) = {}
  BY <1>1 DEF BlocksIn
<1>4. \A dist \in Nat : CountAt(<<>>, dist) = 0
  BY <1>1 DEF CountAt
<1>5. Cardinality({}) = 0
  BY FS_EmptySet
<1> QED
  BY <1>1, <1>2, <1>3, <1>4, <1>5 DEF Holds, Remembers

\* The access that a turn of the loop looks at.
LEMMA BlockRead ==
  ASSUME Types, InChunk, Slotted, Fits, phase = "access", i < from + len
  PROVE  /\ i < sampledSize /\ Block(i) \in Nat
         /\ \A b \in BlocksAt(i) : b = Block(i)
<1>1. /\ from \in Nat /\ i \in Nat /\ nextSlotStart \in Nat /\ sampledSize \in Nat
      /\ nextSlotStart = from + len /\ nextSlotStart <= sampledSize
  BY EndOfChunk
<1>2. i < nextSlotStart
  BY <1>1
<1>3. i < sampledSize
  BY <1>1, <1>2
<1>4. BlocksAt(i) = {Block(i)}
  BY <1>3 DEF BlocksAt, Block
<1> QED
  BY <1>1, <1>3, <1>4, BlocksAreNat

LEMMA ExactStep ==
  Types /\ InChunk /\ Slotted /\ Exact /\ [Next]_vars => Exact'
<1> SUFFICES ASSUME Types, InChunk, Slotted, Exact, [Next]_vars,
                    Fits', phase' \notin {"sample", "clear"}
             PROVE  /\ \A k \in 1 .. Begun' :
                         Holds(reuseDistanceHisto[k], coldMiss[k], starts[k], SeenUpTo(k))'
                    /\ phase' = "access" => Remembers(monitoredTrace[chunk], from, i)'
  BY DEF Exact
<1>1. CASE Sample \/ UseSample
  BY <1>1 DEF Sample, UseSample
<1>2. CASE ClearStats
  <2>1. phase' = "slot" /\ chunkCount' = 0
    BY <1>2 DEF ClearStats
  <2>2. Begun' = 0
    BY <2>1 DEF Begun
  <2> QED
    BY <2>1, <2>2
<1>3. CASE StartSlot
  <2>1. /\ phase = "slot" /\ Begun = chunkCount /\ Begun' = chunk /\ chunk' = chunk
        /\ chunkCount' = chunkCount
        /\ from' = nextSlotStart /\ i' = nextSlotStart
        /\ coldMiss'[chunk] = 0 /\ reuseDistanceHisto'[chunk] = <<>>
        /\ monitoredTrace'[chunk] = <<>> /\ starts'[chunk] = nextSlotStart
        /\ \A k \in 1 .. chunkCount :
             /\ numInst'[k] = numInst[k] /\ coldMiss'[k] = coldMiss[k] /\ starts'[k] = starts[k]
             /\ reuseDistanceHisto'[k] = reuseDistanceHisto[k]
        /\ UNCHANGED <<sampling, useTimeSlot>>
    BY <1>3, StartSlotFacts
  <2>2. /\ chunk = chunkCount + 1 /\ chunkCount \in Nat /\ nextSlotStart \in Nat
        /\ sampledSize \in Nat
    BY Assumed DEF chunk, Types, sampledSize
  <2>3. UNCHANGED memoryTraces /\ Fits
    BY <2>1, SameTrace DEF sampling
  <2>4. Holds(<<>>, 0, nextSlotStart, nextSlotStart) /\ Remembers(<<>>, nextSlotStart, nextSlotStart)
    BY <2>2, NothingSeen
  <2>5. Remembers(monitoredTrace[chunk], from, i)'
    BY <2>1, <2>3, <2>4, RemembersNext
  <2> SUFFICES ASSUME NEW k \in 1 .. chunk
               PROVE  Holds(reuseDistanceHisto[k], coldMiss[k], starts[k], SeenUpTo(k))'
    BY <2>1, <2>5
  <2>6. CASE k = chunk
    <3>1. SeenUpTo(k)' = nextSlotStart
      BY <2>1, <2>2, <2>6 DEF SeenUpTo
    <3> QED
      BY <2>1, <2>3, <2>4, <2>6, <3>1, HoldsNext
  <2>7. CASE k # chunk
    <3>1. k \in 1 .. chunkCount /\ k # 0 /\ ~(k > chunkCount)
      BY <2>2, <2>7
    <3>2. SeenUpTo(k) = Behind(k) /\ SeenUpTo(k)' = Behind(k)
      BY <2>1, <3>1 DEF SeenUpTo, Behind
    <3>3. Holds(reuseDistanceHisto[k], coldMiss[k], starts[k], SeenUpTo(k))
      BY <2>1, <2>3, <3>1 DEF Exact
    <3> QED
      BY <2>1, <2>3, <3>1, <3>2, <3>3, HoldsNext
  <2> QED
    BY <2>6, <2>7
<1>4. CASE Monitor
  <2>1. /\ phase = "access" /\ i' = i + 1 /\ i < from + len
        /\ Begun = chunk /\ Begun' = chunk
        /\ UNCHANGED <<sampling, useTimeSlot, from, numInst, starts, chunkCount>>
        /\ \A k \in 1 .. chunkCount :
             /\ reuseDistanceHisto'[k] = reuseDistanceHisto[k]
             /\ coldMiss'[k] = coldMiss[k]
    BY <1>4, MonitorFacts
  <2>2. UNCHANGED memoryTraces /\ Fits
    BY <2>1, SameTrace DEF sampling
  <2>3. /\ chunk' = chunk /\ chunk = chunkCount + 1 /\ chunkCount \in Nat
    BY <2>1 DEF chunk, Types
  <2>4. PICK a \in Nat, z \in Nat, hist \in Counts, cold \in Nat, mt \in Counts :
          /\ a = from /\ z = i /\ a <= z /\ starts[chunk] = a
          /\ hist = reuseDistanceHisto[chunk] /\ cold = coldMiss[chunk]
          /\ mt = monitoredTrace[chunk]
    <3>1. /\ from \in Nat /\ i \in Nat /\ from <= i /\ starts[chunk] = from
          /\ chunk \in 1 .. chunk
      BY <2>1, <2>2, EndOfChunk
    <3>2. /\ reuseDistanceHisto[chunk] \in Counts /\ coldMiss[chunk] \in Nat
          /\ monitoredTrace[chunk] \in Counts
      BY <2>1, <3>1 DEF Types
    <3> QED
      BY <3>1, <3>2
  <2>5. /\ z < sampledSize /\ sampledSize \in Nat /\ Block(z) \in Nat
        /\ \A b \in BlocksAt(z) : b = Block(z)
    BY <2>1, <2>2, <2>4, BlockRead, EndOfChunk
  <2>6. SeenUpTo(chunk) = z /\ SeenUpTo(chunk)' = z + 1
    BY <2>1, <2>3, <2>4 DEF SeenUpTo
  <2>7. Holds(hist, cold, a, z) /\ Remembers(mt, a, z)
    <3>1. Holds(reuseDistanceHisto[chunk], coldMiss[chunk], starts[chunk], SeenUpTo(chunk))
      BY <2>1, <2>2, <2>3 DEF Exact
    <3>2. Remembers(monitoredTrace[chunk], from, i)
      BY <2>1, <2>2 DEF Exact
    <3> QED
      BY <2>4, <2>6, <3>1, <3>2
  <2>8. PICK c \in BlocksAt(z) :
          /\ monitoredTrace'[chunk] = With(mt, c, z)
          /\ \/ /\ c \in DOMAIN mt /\ coldMiss'[chunk] = cold
                /\ reuseDistanceHisto'[chunk] = Counted(hist, z - mt[c] - 1)
             \/ /\ c \notin DOMAIN mt /\ coldMiss'[chunk] = cold + 1
                /\ reuseDistanceHisto'[chunk] = hist
    BY <1>4, <2>4, MonitorFacts
  <2>9. c = Block(z)
    BY <2>5, <2>8
  <2>10. Remembers(monitoredTrace[chunk], from, i)'
    <3>1. Remembers(With(mt, c, z), a, z + 1)
      BY <2>4, <2>5, <2>7, <2>9, RemembersAfterUse
    <3> QED
      BY <2>1, <2>2, <2>3, <2>4, <2>8, <3>1, RemembersNext
  <2>11. Holds(reuseDistanceHisto[chunk], coldMiss[chunk], starts[chunk], SeenUpTo(chunk))'
    <3>1. PICK newHist, newCold :
            /\ newHist = reuseDistanceHisto'[chunk] /\ newCold = coldMiss'[chunk]
            /\ Holds(newHist, newCold, a, z + 1)
      <4>1. CASE c \in DOMAIN mt
        <5>1. /\ mt[c] \in a .. z - 1 /\ Block(mt[c]) = Block(z)
              /\ \A q \in mt[c] + 1 .. z - 1 : Block(q) # Block(z)
          BY <2>7, <2>9, <4>1 DEF Remembers
        <5>2. Holds(Counted(hist, z - mt[c] - 1), cold, a, z + 1)
          BY <2>4, <2>5, <2>7, <5>1, HoldsAfterReuse
        <5> QED
          BY <2>8, <4>1, <5>2
      <4>2. CASE c \notin DOMAIN mt
        <5>1. Block(z) \notin BlocksIn(a, z)
          BY <2>7, <2>9, <4>2 DEF Remembers
        <5>2. Holds(hist, cold + 1, a, z + 1)
          BY <2>4, <2>7, <5>1, HoldsAfterFirstUse
        <5> QED
          BY <2>8, <4>2, <5>2
      <4> QED
        BY <4>1, <4>2
    <3>2. starts'[chunk] = a /\ SeenUpTo(chunk)' = z + 1
      BY <2>1, <2>4, <2>6
    <3> QED
      BY <2>2, <2>3, <3>1, <3>2, HoldsNext
  <2> SUFFICES ASSUME NEW k \in 1 .. chunk
               PROVE  Holds(reuseDistanceHisto[k], coldMiss[k], starts[k], SeenUpTo(k))'
    BY <2>1, <2>10
  <2>12. CASE k = chunk
    BY <2>3, <2>11, <2>12
  <2>13. CASE k # chunk
    <3>1. k \in 1 .. chunkCount /\ ~(k > chunkCount)
      BY <2>3, <2>13
    <3>2. SeenUpTo(k)' = SeenUpTo(k)
      BY <2>1, <3>1 DEF SeenUpTo, Behind
    <3>3. Holds(reuseDistanceHisto[k], coldMiss[k], starts[k], SeenUpTo(k))
      BY <2>1, <2>2 DEF Exact
    <3> QED
      BY <2>1, <2>2, <3>1, <3>2, <3>3, HoldsNext
  <2> QED
    BY <2>12, <2>13
<1>5. CASE EndSlot
  <2>1. /\ phase = "access" /\ phase' # "access" /\ chunkCount' = chunk /\ i >= from + len
        /\ UNCHANGED <<memoryTraces, useTimeSlot, reuseDistanceHisto, coldMiss, numInst,
                       starts, i>>
    BY <1>5 DEF EndSlot, chunk, slots, sampling
  <2>2. Fits /\ Begun' = chunk /\ Begun = chunk
    BY <2>1, SameTrace DEF Begun
  <2>3. Behind(chunk) = i /\ chunk = chunkCount + 1 /\ chunkCount \in Nat
    <3>1. /\ nextSlotStart = Behind(chunk) /\ nextSlotStart = from + len
          /\ i \in from .. nextSlotStart /\ nextSlotStart \in Nat /\ from \in Nat
      BY <2>1, <2>2, EndOfChunk
    <3>2. i = nextSlotStart
      BY <2>1, <3>1
    <3> QED
      BY <3>1, <3>2 DEF chunk, Types
  <2> SUFFICES ASSUME NEW k \in 1 .. chunk
               PROVE  Holds(reuseDistanceHisto[k], coldMiss[k], starts[k], SeenUpTo(k))'
    BY <2>1, <2>2
  <2>4. SeenUpTo(k)' = SeenUpTo(k)
    <3>1. SeenUpTo(k)' = Behind(k)
      BY <2>1, <2>3 DEF SeenUpTo, Behind
    <3>2. k > chunkCount => k = chunk
      BY <2>3
    <3> QED
      BY <2>3, <3>1, <3>2 DEF SeenUpTo
  <2>5. Holds(reuseDistanceHisto[k], coldMiss[k], starts[k], SeenUpTo(k))
    BY <2>1, <2>2 DEF Exact
  <2> QED
    BY <2>1, <2>4, <2>5, HoldsNext
<1>6. CASE Iterate \/ NextSize \/ Finish \/ UNCHANGED vars
  <2>1. /\ UNCHANGED <<memoryTraces, useTimeSlot, reuseDistanceHisto, monitoredTrace, coldMiss,
                       numInst, starts, i, from, chunkCount>>
        /\ (phase = "access" <=> phase' = "access")
        /\ phase \notin {"sample", "clear"}
    BY <1>6 DEF Iterate, NextSize, Finish, vars, sampling, slots, stats
  <2>2. Fits /\ Begun' = Begun /\ chunk' = chunk
    BY <2>1, SameTrace DEF Begun, chunk
  <2>3. ASSUME NEW k \in 1 .. Begun
        PROVE  Holds(reuseDistanceHisto[k], coldMiss[k], starts[k], SeenUpTo(k))'
    <3>1. SeenUpTo(k)' = SeenUpTo(k)
      BY <2>1 DEF SeenUpTo, Behind
    <3>2. Holds(reuseDistanceHisto[k], coldMiss[k], starts[k], SeenUpTo(k))
      BY <2>1, <2>2 DEF Exact
    <3> QED
      BY <2>1, <3>1, <3>2, HoldsNext
  <2>4. phase' = "access" => Remembers(monitoredTrace[chunk], from, i)'
    <3>1. phase' = "access" => Remembers(monitoredTrace[chunk], from, i)
      BY <2>1, <2>2 DEF Exact
    <3> QED
      BY <2>1, <2>2, <3>1, RemembersNext
  <2> QED
    BY <2>2, <2>3, <2>4
<1> QED
  BY <1>1, <1>2, <1>3, <1>4, <1>5, <1>6 DEF Next

\* HistogramExact: when the trace fits, a chunk's histogram counts for each
\* distance the accesses whose block was last used so many accesses before, and
\* its cold misses are its blocks, at every moment of the reading.
THEOREM HistogramExactCorrect == Spec => []HistogramExact
<1>1. Init => Exact
  BY DEF Init, Exact
<1>2. (Types /\ InChunk) /\ Slotted /\ Exact /\ [Next]_vars => Exact'
  BY ExactStep
<1>3. (Types /\ InChunk) /\ Exact => HistogramExact
  <2> SUFFICES ASSUME Types, InChunk, Exact, Fits, NEW k \in Chunks
               PROVE  /\ \A dist \in 0 .. sampledSize :
                           Cardinality(Reuses(k, dist)) =
                             IF dist \in DOMAIN reuseDistanceHisto[k]
                             THEN reuseDistanceHisto[k][dist] ELSE 0
                      /\ DOMAIN reuseDistanceHisto[k] \subseteq 0 .. sampledSize
                      /\ coldMiss[k] = Cardinality({Block(t) : t \in Seen(k)})
    BY DEF HistogramExact
  <2>1. k \in 1 .. Begun
    BY DEF Chunks, Types
  <2>2. phase \notin {"sample", "clear"}
    BY <2>1 DEF Types, Begun
  <2>3. Holds(reuseDistanceHisto[k], coldMiss[k], starts[k], SeenUpTo(k))
    BY <2>1, <2>2 DEF Exact
  <2>4. Seen(k) = starts[k] .. SeenUpTo(k) - 1
    BY DEF Seen, SeenUpTo
  <2>5. \A dist : Reuses(k, dist) = ReusesIn(starts[k], SeenUpTo(k), dist)
    BY <2>4 DEF Reuses, ReusesIn
  <2>6. {Block(t) : t \in Seen(k)} = BlocksIn(starts[k], SeenUpTo(k))
    BY <2>4 DEF BlocksIn
  <2>7. \A dist \in 0 .. sampledSize : dist \in Nat
    BY DEF Types, sampledSize
  <2> QED
    BY <2>3, <2>5, <2>6, <2>7 DEF Holds, CountAt
<1> QED
  BY <1>1, <1>2, <1>3, TypesCorrect, SlottedCorrect, PTL DEF Spec
-----------------------------------------------------------------------------
(***************************************************************************)
(* What solve() computes: it grows with the ratio that it starts from, and *)
(* shrinks with the size of the cache.                                     *)
(***************************************************************************)

\* Division by a divisor: the multiple below, and the next one above.
LEMMA DivBounds ==
  ASSUME NEW a \in Nat, NEW b \in Nat \ {0}
  PROVE  a \div b \in Nat /\ (a \div b) * b <= a /\ a < (a \div b) * b + b
<1> DEFINE q == a \div b
           r0 == a % b
<1>1. q \in Nat /\ r0 \in 0 .. b - 1 /\ a = q * b + r0
  BY DivMod
<1> HIDE DEF q, r0
<1>2. q * b \in Nat
  BY <1>1
<1>3. q * b <= a /\ a < q * b + b
  BY <1>1, <1>2
<1> QED
  BY <1>1, <1>3 DEF q

\* A multiple that is less than one more multiple is not greater.
LEMMA MultipleBelow ==
  ASSUME NEW q \in Nat, NEW p \in Nat, NEW b \in Nat \ {0}, q * b < p * b + b
  PROVE  q <= p
<1> SUFFICES ASSUME p < q
             PROVE  FALSE
  OBVIOUS
<1>1. PICK k \in Nat : q = p + 1 + k
  <2>1. q - p - 1 \in Nat /\ q = p + 1 + (q - p - 1)
    OBVIOUS
  <2> QED
    BY <2>1
<1>2. q * b = p * b + b + k * b
  BY <1>1
<1>3. k * b \in Nat /\ p * b \in Nat
  OBVIOUS
<1> QED
  BY <1>2, <1>3

\* Products of natural numbers grow with their factors.
LEMMA ProductGrows ==
  ASSUME NEW a \in Nat, NEW b \in Nat, NEW n \in Nat, a <= b
  PROVE  a * n <= b * n /\ n * a <= n * b /\ a * n \in Nat /\ b * n \in Nat
<1>1. PICK k \in Nat : b = a + k
  <2>1. b - a \in Nat /\ b = a + (b - a)
    OBVIOUS
  <2> QED
    BY <2>1
<1>2. b * n = a * n + k * n /\ k * n \in Nat /\ a * n \in Nat
  BY <1>1
<1>3. n * a = a * n /\ n * b = b * n
  OBVIOUS
<1> QED
  BY <1>2, <1>3

\* What one replacement leaves: more of more, and more in a larger cache.
Share(p, L) == (p * (L - 1)) \div L

\* A replacement leaves no more than there was.
LEMMA ShareGrows ==
  ASSUME NEW p \in Nat, NEW pp \in Nat, p <= pp,
         NEW L \in Nat \ {0}, NEW M \in Nat \ {0}, L <= M
  PROVE  /\ Share(p, L) \in Nat /\ Share(pp, M) \in Nat
         /\ Share(p, L) <= p
         /\ Share(p, L) <= Share(pp, M)
<1> DEFINE q == (p * (L - 1)) \div L
           s == (pp * (M - 1)) \div M
<1>1. p * (L - 1) \in Nat /\ p * (L - 1) = p * L - p /\ p * L \in Nat
  OBVIOUS
<1>2. pp * (M - 1) \in Nat /\ p * (M - 1) <= pp * (M - 1) /\ p * (M - 1) = p * M - p /\ p * M \in Nat
  <2>1. M - 1 \in Nat
    OBVIOUS
  <2>2. p * (M - 1) <= pp * (M - 1) /\ pp * (M - 1) \in Nat
    BY <2>1, ProductGrows
  <2> QED
    BY <2>2
<1>3. q \in Nat /\ q * L <= p * (L - 1)
  BY <1>1, DivBounds
<1>4. s \in Nat /\ pp * (M - 1) < s * M + M
  BY <1>2, DivBounds
<1> HIDE DEF q, s
<1>5. q <= p
  <2>1. q * L <= p * L /\ q * L \in Nat
    BY <1>1, <1>3
  <2>2. q * L < p * L + L
    BY <1>1, <2>1
  <2> QED
    BY <1>3, <2>2, MultipleBelow
<1>6. PICK d \in Nat : p = q + d
  <2>1. p - q \in Nat /\ p = q + (p - q)
    BY <1>3, <1>5
  <2> QED
    BY <2>1
<1>7. d * L >= p
  <2>1. p * L = q * L + d * L /\ q * L \in Nat /\ d * L \in Nat
    BY <1>3, <1>6
  <2> QED
    BY <1>1, <1>3, <2>1
<1>8. d * M >= p
  <2>1. d * L <= d * M /\ d * L \in Nat /\ d * M \in Nat
    BY ProductGrows
  <2> QED
    BY <1>7, <2>1
<1>9. q * M <= p * (M - 1)
  <2>1. p * M = q * M + d * M /\ q * M \in Nat /\ d * M \in Nat
    BY <1>3, <1>6
  <2> QED
    BY <1>2, <1>8, <2>1
<1>10. q <= s
  <2>1. q * M \in Nat /\ s * M \in Nat /\ p * (M - 1) \in Int
    BY <1>3, <1>4
  <2>2. q * M < s * M + M
    BY <1>2, <1>4, <1>9, <2>1
  <2> QED
    BY <1>3, <1>4, <2>2, MultipleBelow
<1> QED
  BY <1>3, <1>4, <1>5, <1>10 DEF q, s, Share

\* Between two exponents: the line through the two powers.
Between(p0, p1, s) == p0 - ((p0 - p1) * s) \div Scale

\* The line lies between the two powers, and starts at the first.
LEMMA BetweenPowers ==
  ASSUME NEW p0 \in Nat, NEW p1 \in Nat, p1 <= p0, NEW s \in 0 .. Scale - 1
  PROVE  /\ Between(p0, p1, s) \in Nat
         /\ p1 <= Between(p0, p1, s) /\ Between(p0, p1, s) <= p0
         /\ Between(p0, p1, 0) = p0
<1> DEFINE d == p0 - p1
           q == (d * s) \div Scale
<1>1. Scale \in Nat \ {0} /\ d \in Nat /\ s \in Nat /\ s <= Scale
  BY StatCacheAssumption
<1>a. p0 = p1 + d
  OBVIOUS
<1> HIDE DEF d
<1>2. d * s \in Nat /\ d * s <= d * Scale /\ d * Scale \in Nat
  <2>1. s * d <= Scale * d /\ s * d \in Nat /\ Scale * d \in Nat
    BY <1>1, ProductGrows
  <2>2. s * d = d * s /\ Scale * d = d * Scale
    BY <1>1
  <2> QED
    BY <2>1, <2>2
<1>3. q \in Nat /\ q * Scale <= d * s
  BY <1>1, <1>2, DivBounds
<1>4. 0 \div Scale = 0 /\ d * 0 = 0
  BY <1>1
<1>5. Between(p0, p1, 0) = p0
  BY <1>4 DEF Between, d
<1> HIDE DEF q
<1>6. q <= d
  <2>1. q * Scale \in Nat
    BY <1>1, <1>3
  <2>2. q * Scale < d * Scale + Scale
    BY <1>1, <1>2, <1>3, <2>1
  <2> QED
    BY <1>1, <1>3, <2>2, MultipleBelow
<1>7. Between(p0, p1, s) = p0 - q
  BY DEF Between, q, d
<1> QED
  BY <1>1, <1>a, <1>3, <1>5, <1>6, <1>7

\* It is higher between higher powers, and falls along its way.
LEMMA BetweenGrows ==
  ASSUME NEW p0 \in Nat, NEW p1 \in Nat, p1 <= p0, NEW s \in 0 .. Scale - 1,
         NEW q0 \in Nat, NEW q1 \in Nat, q1 <= q0, NEW t \in 0 .. Scale - 1,
         p0 <= q0, p1 <= q1, t <= s
  PROVE  Between(p0, p1, s) <= Between(q0, q1, t)
<1>1. Scale \in Nat \ {0} /\ s \in Nat /\ t \in Nat /\ s <= Scale
  BY StatCacheAssumption
<1>2. PICK d \in Nat, e \in Nat, g \in Nat, h \in Nat :
        p0 = p1 + d /\ q0 = q1 + e /\ q0 = p0 + g /\ q1 = p1 + h
  <2>1. /\ p0 - p1 \in Nat /\ q0 - q1 \in Nat /\ q0 - p0 \in Nat /\ q1 - p1 \in Nat
        /\ p0 = p1 + (p0 - p1) /\ q0 = q1 + (q0 - q1) /\ q0 = p0 + (q0 - p0)
        /\ q1 = p1 + (q1 - p1)
    OBVIOUS
  <2> QED
    BY <2>1
<1> DEFINE u == (d * s) \div Scale
           v == (e * t) \div Scale
<1>3. Between(p0, p1, s) = p0 - u /\ Between(q0, q1, t) = q0 - v
  <2>1. p0 - p1 = d /\ q0 - q1 = e
    BY <1>2
  <2> QED
    BY <2>1 DEF Between
<1>4. d * s \in Nat /\ e * t \in Nat
  BY <1>1
<1>5. u \in Nat /\ d * s < u * Scale + Scale /\ v \in Nat /\ v * Scale <= e * t
  BY <1>1, <1>4, DivBounds
<1> HIDE DEF u, v
<1>6. e * t <= e * s /\ e * s \in Nat
  BY <1>1, ProductGrows
<1>7. e * s <= d * s + g * Scale
  <2>1. e + h = d + g
    BY <1>2
  <2>2. (e + h) * s = e * s + h * s /\ (d + g) * s = d * s + g * s
    BY <1>1
  <2>3. g * s <= g * Scale /\ h * s \in Nat /\ g * s \in Nat /\ g * Scale \in Nat
    <3>1. g * s <= g * Scale
      BY <1>1, ProductGrows
    <3> QED
      BY <1>1, <3>1
  <2> QED
    BY <1>4, <1>6, <2>1, <2>2, <2>3
<1>8. v <= u + g
  <2>1. (u + g) * Scale = u * Scale + g * Scale
    BY <1>1, <1>5
  <2>2. u * Scale \in Nat /\ g * Scale \in Nat /\ v * Scale \in Nat /\ u + g \in Nat
    BY <1>1, <1>5
  <2>3. v * Scale < (u + g) * Scale + Scale
    BY <1>1, <1>4, <1>5, <1>6, <1>7, <2>1, <2>2
  <2> QED
    BY <1>1, <1>5, <2>2, <2>3, MultipleBelow
<1> QED
  BY <1>2, <1>3, <1>5, <1>8

\* The powers that Survives computes, and the first of them.
Powers(L, p) ==
  p = [n \in Nat |-> IF n = 0 THEN Scale ELSE Share(p[n - 1], L)]
PowersUpTo(L, p, m) ==
  /\ p \in [0 .. m -> Nat]
  /\ p[0] = Scale
  /\ \A n \in 1 .. m : p[n] = Share(p[n - 1], L)

\* The powers are defined, one after another, up to every exponent ...
LEMMA FirstPowersExist ==
  ASSUME NEW L \in Nat \ {0}, NEW n \in Nat
  PROVE  \E p : PowersUpTo(L, p, n)
<1> DEFINE Bad == {m \in Nat : ~\E p : PowersUpTo(L, p, m)}
<1> SUFFICES ASSUME Bad # {} PROVE FALSE
  OBVIOUS
<1>0. Scale \in Nat
  BY StatCacheAssumption
<1>1. PICK m \in Bad : \A k \in Bad : m <= k
  <2> HIDE DEF Bad
  <2>1. Bad \subseteq Nat
    BY DEF Bad
  <2> QED
    BY <2>1, LeastExists
<1>2. m # 0
  <2>1. PowersUpTo(L, [k \in 0 .. 0 |-> Scale], 0)
    BY <1>0 DEF PowersUpTo
  <2> QED
    BY <2>1
<1>3. m \in Nat /\ m - 1 \in Nat /\ m - 1 \notin Bad
  BY <1>1, <1>2
<1>4. PICK g : PowersUpTo(L, g, m - 1)
  BY <1>3
<1>5. g \in [0 .. m - 1 -> Nat] /\ g[m - 1] \in Nat
  BY <1>3, <1>4 DEF PowersUpTo
<1> DEFINE w == Share(g[m - 1], L)
           p == [k \in 0 .. m |-> IF k < m THEN g[k] ELSE w]
<1>6. w \in Nat
  BY <1>5, ShareGrows
<1> HIDE DEF w
<1>7. p \in [0 .. m -> Nat] /\ p[0] = Scale
  BY <1>3, <1>4, <1>5, <1>6 DEF PowersUpTo
<1>8. ASSUME NEW k \in 1 .. m
      PROVE  p[k] = Share(p[k - 1], L)
  <2>1. k - 1 \in 0 .. m /\ k - 1 < m /\ p[k - 1] = g[k - 1]
    BY <1>3
  <2>2. CASE k = m
    <3>1. p[k] = w
      BY <1>3, <2>2
    <3> HIDE DEF p
    <3> QED
      BY <2>1, <2>2, <3>1 DEF w
  <2>3. CASE k # m
    <3>1. p[k] = g[k] /\ k \in 1 .. m - 1
      BY <1>3, <2>3
    <3> HIDE DEF p
    <3> QED
      BY <1>4, <2>1, <3>1 DEF PowersUpTo
  <2> QED
    BY <2>2, <2>3
<1>9. PowersUpTo(L, p, m)
  <2> HIDE DEF p
  <2> QED
    BY <1>7, <1>8 DEF PowersUpTo
<1> QED
  BY <1>9

\* ... where two such lists agree ...
LEMMA SamePowers ==
  ASSUME NEW L, NEW p, NEW q, NEW m \in Nat, NEW k \in Nat,
         PowersUpTo(L, p, m), PowersUpTo(L, q, k), NEW n \in Nat, n <= m, n <= k
  PROVE  p[n] = q[n]
<1> DEFINE Bad == {j \in Nat : j <= m /\ j <= k /\ p[j] # q[j]}
<1> SUFFICES ASSUME Bad # {} PROVE FALSE
  OBVIOUS
<1>1. PICK j \in Bad : \A l \in Bad : j <= l
  <2> HIDE DEF Bad
  <2>1. Bad \subseteq Nat
    BY DEF Bad
  <2> QED
    BY <2>1, LeastExists
<1>2. j \in Nat /\ j <= m /\ j <= k /\ p[j] # q[j]
  BY <1>1
<1>3. j # 0
  BY <1>2 DEF PowersUpTo
<1>4. j - 1 \in Nat /\ j - 1 <= m /\ j - 1 <= k /\ j - 1 \notin Bad
  BY <1>1, <1>2, <1>3
<1>5. p[j - 1] = q[j - 1]
  BY <1>4
<1>6. j \in 1 .. m /\ j \in 1 .. k
  BY <1>2, <1>3
<1> QED
  BY <1>2, <1>5, <1>6 DEF PowersUpTo

\* ... and so they are defined for all exponents.
LEMMA PowersExist ==
  ASSUME NEW L \in Nat \ {0}
  PROVE  \E p : Powers(L, p)
<1> DEFINE First(n) == CHOOSE q : PowersUpTo(L, q, n)
           p == [n \in Nat |-> First(n)[n]]
<1>1. ASSUME NEW n \in Nat
      PROVE  PowersUpTo(L, First(n), n)
  BY FirstPowersExist
<1>2. ASSUME NEW n \in Nat
      PROVE  p[n] = IF n = 0 THEN Scale ELSE Share(p[n - 1], L)
  <2>1. p[n] = First(n)[n] /\ PowersUpTo(L, First(n), n)
    BY <1>1
  <2>2. CASE n = 0
    BY <2>1, <2>2 DEF PowersUpTo
  <2>3. CASE n # 0
    <3>1. n - 1 \in Nat /\ n - 1 <= n /\ n \in 1 .. n
      BY <2>3
    <3>2. p[n - 1] = First(n - 1)[n - 1] /\ PowersUpTo(L, First(n - 1), n - 1)
      BY <1>1, <3>1
    <3> HIDE DEF p, First
    <3>3. First(n - 1)[n - 1] = First(n)[n - 1]
      BY <2>1, <3>1, <3>2, SamePowers
    <3>4. First(n)[n] = Share(First(n)[n - 1], L)
      BY <2>1, <3>1 DEF PowersUpTo
    <3> QED
      BY <2>1, <2>3, <3>2, <3>3, <3>4
  <2> QED
    BY <2>2, <2>3
<1>3. p = [n \in Nat |-> p[n]]
  OBVIOUS
<1>4. Powers(L, p)
  <2> HIDE DEF p
  <2> QED
    BY <1>2, <1>3 DEF Powers
<1> QED
  BY <1>4

\* One power after another.
LEMMA PowersEquation ==
  ASSUME NEW L, NEW p, Powers(L, p)
  PROVE  p[0] = Scale /\ \A n \in Nat : p[n + 1] = Share(p[n], L)
<1> DEFINE G == [n \in Nat |-> IF n = 0 THEN Scale ELSE Share(p[n - 1], L)]
<1>1. p = G
  BY DEF Powers
<1>2. G[0] = Scale
  OBVIOUS
<1>3. ASSUME NEW n \in Nat
      PROVE  G[n + 1] = Share(p[n], L)
  <2>1. n + 1 \in Nat /\ n + 1 # 0 /\ (n + 1) - 1 = n
    OBVIOUS
  <2>2. G[n + 1] = Share(p[(n + 1) - 1], L)
    BY <2>1
  <2> QED
    BY <2>1, <2>2
<1> HIDE DEF G
<1> QED
  BY <1>1, <1>2, <1>3

\* They are larger for a larger cache ...
LEMMA PowersOrdered ==
  ASSUME NEW L \in Nat \ {0}, NEW M \in Nat \ {0}, L <= M,
         NEW p, NEW q, Powers(L, p), Powers(M, q), NEW n \in Nat
  PROVE  p[n] \in Nat /\ q[n] \in Nat /\ p[n] <= q[n]
<1> DEFINE Good(k) == p[k] \in Nat /\ q[k] \in Nat /\ p[k] <= q[k]
           Bad == {k \in Nat : ~Good(k)}
<1> SUFFICES ASSUME Bad # {} PROVE FALSE
  OBVIOUS
<1>1. PICK j \in Bad : \A l \in Bad : j <= l
  <2> HIDE DEF Bad
  <2>1. Bad \subseteq Nat
    BY DEF Bad
  <2> QED
    BY <2>1, LeastExists
<1>2. j # 0
  <2>1. p[0] = Scale /\ q[0] = Scale /\ Scale \in Nat
    BY PowersEquation, StatCacheAssumption
  <2>2. Good(0)
    BY <2>1
  <2> QED
    BY <2>2
<1>3. PICK k \in Nat : j = k + 1 /\ Good(k)
  <2>1. j \in Nat /\ j - 1 \in Nat /\ j - 1 \notin Bad /\ j = (j - 1) + 1
    BY <1>1, <1>2
  <2> QED
    BY <2>1
<1>4. p[j] = Share(p[k], L) /\ q[j] = Share(q[k], M)
  BY <1>3, PowersEquation
<1>5. p[j] \in Nat /\ p[j] <= q[j]
  BY <1>3, <1>4, ShareGrows
<1>6. q[j] \in Nat
  BY <1>3, <1>4, ShareGrows
<1> QED
  BY <1>1, <1>5, <1>6

\* ... and fall with the exponent.
LEMMA PowersFall ==
  ASSUME NEW L \in Nat \ {0}, NEW p, Powers(L, p), NEW n \in Nat, NEW m \in Nat, n <= m
  PROVE  p[m] <= p[n] /\ p[m] \in Nat /\ p[n] \in Nat /\ p[n] <= Scale
<1>1. ASSUME NEW k \in Nat
      PROVE  p[k] \in Nat /\ p[k + 1] \in Nat /\ p[k + 1] <= p[k]
  <2>1. p[k] \in Nat /\ p[k + 1] \in Nat
    BY PowersOrdered
  <2>2. Share(p[k], L) <= p[k]
    BY <2>1, ShareGrows
  <2> QED
    BY <2>1, <2>2, PowersEquation
<1>2. ASSUME NEW a \in Nat, NEW b \in Nat, a <= b
      PROVE  p[b] <= p[a]
  <2> DEFINE Bad == {k \in Nat : a <= k /\ ~(p[k] <= p[a])}
  <2> SUFFICES ASSUME Bad # {} PROVE FALSE
    BY <1>2
  <2>1. PICK j \in Bad : \A l \in Bad : j <= l
    <3> HIDE DEF Bad
    <3>1. Bad \subseteq Nat
      BY DEF Bad
    <3> QED
      BY <3>1, LeastExists
  <2>2. j # a
    BY <1>1, <2>1
  <2>3. PICK k \in Nat : j = k + 1 /\ p[k] <= p[a]
    <3>1. j - 1 \in Nat /\ a <= j - 1 /\ j - 1 \notin Bad /\ j = (j - 1) + 1
      BY <2>1, <2>2
    <3> QED
      BY <3>1
  <2>4. p[j] <= p[k] /\ p[j] \in Nat /\ p[k] \in Nat /\ p[a] \in Nat
    BY <1>1, <2>3
  <2> QED
    BY <2>1, <2>3, <2>4
<1>3. p[0] = Scale /\ p[n] <= p[0]
  BY <1>2, PowersEquation
<1> QED
  BY <1>1, <1>2, <1>3

\* What survives x / Scale replacements, with those powers.
LEMMA SurvivesBetween ==
  ASSUME NEW L \in Nat \ {0}
  PROVE  \E p : /\ Powers(L, p)
                /\ \A x : Survives(L, x) =
                     Between(p[x \div Scale], p[x \div Scale + 1], x % Scale)
<1> DEFINE P == CHOOSE p : Powers(L, p)
<1>1. Powers(L, P)
  BY PowersExist
<1>2. ASSUME NEW x
      PROVE  Survives(L, x) = Between(P[x \div Scale], P[x \div Scale + 1], x % Scale)
  BY DEF Survives, Powers, Between, Share
<1> QED
  BY <1>1, <1>2

\* More replacements leave less, and less in a smaller cache.
LEMMA SurvivesOrdered ==
  ASSUME NEW L \in Nat \ {0}, NEW M \in Nat \ {0}, L <= M,
         NEW x \in Nat, NEW y \in Nat, x <= y
  PROVE  /\ Survives(L, y) \in Nat /\ Survives(M, x) \in Nat
         /\ Survives(L, y) <= Survives(M, x) /\ Survives(M, x) <= Scale
<1>0. Scale \in Nat \ {0}
  BY StatCacheAssumption
<1>1. PICK p : /\ Powers(L, p)
               /\ \A z : Survives(L, z) =
                    Between(p[z \div Scale], p[z \div Scale + 1], z % Scale)
  BY SurvivesBetween
<1>2. PICK q : /\ Powers(M, q)
               /\ \A z : Survives(M, z) =
                    Between(q[z \div Scale], q[z \div Scale + 1], z % Scale)
  BY SurvivesBetween
<1>3. PICK n \in Nat, s \in 0 .. Scale - 1 : n = x \div Scale /\ s = x % Scale /\ x = n * Scale + s
  BY <1>0, DivMod
<1>4. PICK m \in Nat, t \in 0 .. Scale - 1 : m = y \div Scale /\ t = y % Scale /\ y = m * Scale + t
  BY <1>0, DivMod
<1>5. n <= m /\ (n = m => s <= t)
  <2>1. n <= m
    BY <1>0, <1>3, <1>4, DivMonotone
  <2>2. n = m => s <= t
    BY <1>0, <1>3, <1>4
  <2> QED
    BY <2>1, <2>2
<1>6. n + 1 \in Nat /\ m + 1 \in Nat /\ n <= n + 1 /\ m <= m + 1
  OBVIOUS
<1>7. /\ p[n] \in Nat /\ p[n + 1] \in Nat /\ p[n + 1] <= p[n]
      /\ p[m] \in Nat /\ p[m + 1] \in Nat /\ p[m + 1] <= p[m]
      /\ q[n] \in Nat /\ q[n + 1] \in Nat /\ q[n + 1] <= q[n] /\ q[n] <= Scale
  BY <1>1, <1>2, <1>6, PowersFall
<1>8. p[n] <= q[n] /\ p[n + 1] <= q[n + 1]
  BY <1>1, <1>2, <1>6, PowersOrdered
<1>9. Survives(M, x) = Between(q[n], q[n + 1], s)
  BY <1>2, <1>3
<1>10. Survives(L, y) = Between(p[m], p[m + 1], t)
  BY <1>1, <1>4
<1>11. /\ Between(q[n], q[n + 1], s) \in Nat /\ Between(p[m], p[m + 1], t) \in Nat
       /\ Between(q[n], q[n + 1], s) <= q[n] /\ q[n + 1] <= Between(q[n], q[n + 1], s)
       /\ Between(p[m], p[m + 1], t) <= p[m]
  BY <1>7, BetweenPowers
<1>12. Between(p[m], p[m + 1], t) <= Between(q[n], q[n + 1], s)
  <2>1. CASE n = m
    BY <1>5, <1>7, <1>8, <2>1, BetweenGrows
  <2>2. CASE n # m
    <3>1. n + 1 <= m
      BY <1>5, <2>2
    <3>2. p[m] <= p[n + 1]
      BY <1>1, <1>6, <3>1, PowersFall
    <3> QED
      BY <1>7, <1>8, <1>11, <3>2
  <2> QED
    BY <2>1, <2>2
<1>13. Between(q[n], q[n + 1], s) <= Scale
  BY <1>0, <1>7, <1>11
<1> QED
  BY <1>9, <1>10, <1>11, <1>12, <1>13

\* So f grows with the replacements, and shrinks with the size of the cache.
LEMMA fOrdered ==
  ASSUME NEW L \in Nat \ {0}, NEW M \in Nat \ {0}, L <= M,
         NEW x \in Nat, NEW y \in Nat, x <= y
  PROVE  f(M, x) \in Nat /\ f(L, y) \in Nat /\ f(M, x) <= f(L, y)
<1>1. /\ Survives(L, y) \in Nat /\ Survives(M, x) \in Nat
      /\ Survives(L, y) <= Survives(M, x) /\ Survives(M, x) <= Scale
  BY SurvivesOrdered
<1>2. Scale \in Nat
  BY StatCacheAssumption
<1> QED
  BY <1>1, <1>2 DEF f

\* The sums of the parts of a set, as MapThenSumSet builds them up: an element is
\* chosen, and added to the sum of the others.
Chosen(s) == CHOOSE x \in s : TRUE
Sums(S, g, it) ==
  it = [s \in SUBSET S |-> IF s = {} THEN 0 ELSE g[Chosen(s)] + it[s \ {Chosen(s)}]]
SumsUpTo(S, g, it, m) ==
  /\ it \in [{s \in SUBSET S : Cardinality(s) <= m} -> Nat]
  /\ \A s \in SUBSET S : Cardinality(s) <= m =>
       it[s] = IF s = {} THEN 0 ELSE g[Chosen(s)] + it[s \ {Chosen(s)}]

\* A set without the element that is chosen from it.
LEMMA WithoutChosen ==
  ASSUME NEW S, IsFiniteSet(S), NEW s \in SUBSET S
  PROVE  /\ Cardinality(s) \in Nat
         /\ s = {} <=> Cardinality(s) = 0
         /\ s # {} => /\ Chosen(s) \in s /\ Chosen(s) \in S
                      /\ s \ {Chosen(s)} \in SUBSET S
                      /\ Cardinality(s \ {Chosen(s)}) = Cardinality(s) - 1
<1>1. IsFiniteSet(s)
  BY FS_Subset
<1>2. Cardinality(s) \in Nat /\ (s = {} <=> Cardinality(s) = 0)
  BY <1>1, FS_CardinalityType, FS_EmptySet
<1>3. ASSUME s # {}
      PROVE  Chosen(s) \in s
  BY <1>3 DEF Chosen
<1>4. ASSUME s # {}
      PROVE  Cardinality(s \ {Chosen(s)}) = Cardinality(s) - 1
  BY <1>1, <1>3, <1>4, FS_RemoveElement
<1> QED
  BY <1>2, <1>3, <1>4

\* The sums are defined for the sets of up to every number of elements ...
LEMMA FirstSumsExist ==
  ASSUME NEW S, IsFiniteSet(S), NEW g, \A x \in S : g[x] \in Nat, NEW n \in Nat
  PROVE  \E it : SumsUpTo(S, g, it, n)
<1> DEFINE Bad == {m \in Nat : ~\E it : SumsUpTo(S, g, it, m)}
<1> SUFFICES ASSUME Bad # {} PROVE FALSE
  OBVIOUS
<1>1. PICK m \in Bad : \A k \in Bad : m <= k
  <2> HIDE DEF Bad
  <2>1. Bad \subseteq Nat
    BY DEF Bad
  <2> QED
    BY <2>1, LeastExists
<1>2. m # 0
  <2>1. ASSUME NEW s \in SUBSET S
        PROVE  Cardinality(s) <= 0 <=> s = {}
    <3>1. Cardinality(s) \in Nat /\ (s = {} <=> Cardinality(s) = 0)
      BY WithoutChosen
    <3> QED
      BY <3>1
  <2>2. SumsUpTo(S, g, [s \in {z \in SUBSET S : Cardinality(z) <= 0} |-> 0], 0)
    BY <2>1 DEF SumsUpTo
  <2> QED
    BY <2>2
<1>3. m \in Nat /\ m - 1 \in Nat /\ m - 1 \notin Bad
  BY <1>1, <1>2
<1>4. PICK h : SumsUpTo(S, g, h, m - 1)
  BY <1>3
<1> DEFINE New(s) == IF s = {} THEN 0 ELSE g[Chosen(s)] + h[s \ {Chosen(s)}]
           it == [s \in {z \in SUBSET S : Cardinality(z) <= m} |-> New(s)]
<1>5. ASSUME NEW s \in SUBSET S, Cardinality(s) <= m - 1
      PROVE  h[s] = New(s) /\ h[s] \in Nat
  BY <1>4, <1>5 DEF SumsUpTo
<1>6. ASSUME NEW s \in SUBSET S, Cardinality(s) <= m, s # {}
      PROVE  LET rest == s \ {Chosen(s)}
             IN rest \in SUBSET S /\ Cardinality(rest) <= m - 1 /\ g[Chosen(s)] \in Nat
  BY <1>3, <1>6, WithoutChosen
<1>7. ASSUME NEW s \in SUBSET S, Cardinality(s) <= m
      PROVE  New(s) \in Nat
  <2>1. CASE s = {}
    BY <2>1
  <2>2. CASE s # {}
    <3>1. g[Chosen(s)] \in Nat /\ h[s \ {Chosen(s)}] \in Nat
      BY <1>5, <1>6, <1>7, <2>2
    <3> QED
      BY <2>2, <3>1
  <2> QED
    BY <2>1, <2>2
<1>8. ASSUME NEW s \in SUBSET S, Cardinality(s) <= m
      PROVE  it[s] = IF s = {} THEN 0 ELSE g[Chosen(s)] + it[s \ {Chosen(s)}]
  <2>1. it[s] = New(s)
    BY <1>8
  <2>2. CASE s = {}
    BY <2>1, <2>2
  <2>3. CASE s # {}
    <3> DEFINE rest == s \ {Chosen(s)}
    <3>1. rest \in SUBSET S /\ Cardinality(rest) <= m - 1
      BY <1>6, <1>8, <2>3
    <3>2. Cardinality(rest) <= m
      BY <1>3, <3>1, WithoutChosen
    <3>3. it[rest] = New(rest) /\ h[rest] = New(rest)
      BY <1>5, <3>1, <3>2
    <3>4. New(s) = g[Chosen(s)] + h[rest]
      BY <2>3
    <3> HIDE DEF rest, it, New
    <3> QED
      BY <2>1, <2>3, <3>3, <3>4 DEF rest
  <2> QED
    BY <2>2, <2>3
<1>9. it \in [{z \in SUBSET S : Cardinality(z) <= m} -> Nat]
  <2> HIDE DEF New
  <2> QED
    BY <1>7
<1>10. SumsUpTo(S, g, it, m)
  <2> HIDE DEF it
  <2> QED
    BY <1>8, <1>9 DEF SumsUpTo
<1> QED
  BY <1>10

\* ... and so for every finite set.
LEMMA SumsExist ==
  ASSUME NEW S, IsFiniteSet(S), NEW g, \A x \in S : g[x] \in Nat
  PROVE  \E it : Sums(S, g, it)
<1> DEFINE n == Cardinality(S)
<1>1. n \in Nat /\ \A s \in SUBSET S : Cardinality(s) <= n
  BY FS_Subset, FS_CardinalityType
<1> HIDE DEF n
<1>2. PICK it : SumsUpTo(S, g, it, n)
  BY <1>1, FirstSumsExist
<1>3. {s \in SUBSET S : Cardinality(s) <= n} = SUBSET S
  BY <1>1
<1>4. it \in [SUBSET S -> Nat]
  BY <1>2, <1>3 DEF SumsUpTo
<1>5. \A s \in SUBSET S : it[s] = IF s = {} THEN 0 ELSE g[Chosen(s)] + it[s \ {Chosen(s)}]
  BY <1>1, <1>2 DEF SumsUpTo
<1>6. it = [s \in SUBSET S |-> it[s]]
  BY <1>4
<1> QED
  BY <1>5, <1>6 DEF Sums

\* A sum of larger numbers is larger.
LEMMA SumsOrdered ==
  ASSUME NEW S, IsFiniteSet(S), NEW g, NEW h,
         \A x \in S : g[x] \in Nat /\ h[x] \in Nat /\ g[x] <= h[x],
         NEW it, NEW jt, Sums(S, g, it), Sums(S, h, jt)
  PROVE  it[S] \in Nat /\ jt[S] \in Nat /\ it[S] <= jt[S]
<1> DEFINE Good(s) == it[s] \in Nat /\ jt[s] \in Nat /\ it[s] <= jt[s]
           Bad == {m \in Nat : \E s \in SUBSET S : Cardinality(s) = m /\ ~Good(s)}
<1>1. ASSUME NEW s \in SUBSET S
      PROVE  /\ it[s] = IF s = {} THEN 0 ELSE g[Chosen(s)] + it[s \ {Chosen(s)}]
             /\ jt[s] = IF s = {} THEN 0 ELSE h[Chosen(s)] + jt[s \ {Chosen(s)}]
  <2> DEFINE A == [z \in SUBSET S |-> IF z = {} THEN 0 ELSE g[Chosen(z)] + it[z \ {Chosen(z)}]]
             B == [z \in SUBSET S |-> IF z = {} THEN 0 ELSE h[Chosen(z)] + jt[z \ {Chosen(z)}]]
  <2>1. it = A /\ jt = B
    BY DEF Sums
  <2>2. /\ A[s] = IF s = {} THEN 0 ELSE g[Chosen(s)] + it[s \ {Chosen(s)}]
        /\ B[s] = IF s = {} THEN 0 ELSE h[Chosen(s)] + jt[s \ {Chosen(s)}]
    OBVIOUS
  <2> HIDE DEF A, B
  <2> QED
    BY <2>1, <2>2
<1>2. Bad = {}
  <2> SUFFICES ASSUME Bad # {} PROVE FALSE
    OBVIOUS
  <2>1. PICK m \in Bad : \A k \in Bad : m <= k
    <3> HIDE DEF Bad
    <3>1. Bad \subseteq Nat
      BY DEF Bad
    <3> QED
      BY <3>1, LeastExists
  <2>2. PICK s \in SUBSET S : Cardinality(s) = m /\ ~Good(s)
    BY <2>1
  <2>3. s # {}
    <3> SUFFICES ASSUME s = {}
                 PROVE  Good(s)
      BY <2>2
    <3>1. it[s] = 0 /\ jt[s] = 0
      BY <1>1
    <3> QED
      BY <3>1
  <2> DEFINE rest == s \ {Chosen(s)}
  <2>4. rest \in SUBSET S /\ Cardinality(rest) = m - 1 /\ m - 1 \in Nat /\ Chosen(s) \in S
    BY <2>1, <2>2, <2>3, WithoutChosen
  <2>5. m - 1 \notin Bad
    BY <2>1, <2>4
  <2>6. Good(rest)
    BY <2>4, <2>5
  <2>7. it[s] = g[Chosen(s)] + it[rest] /\ jt[s] = h[Chosen(s)] + jt[rest]
    BY <1>1, <2>3
  <2> HIDE DEF rest
  <2>8. Good(s)
    BY <2>4, <2>6, <2>7
  <2> QED
    BY <2>2, <2>8
<1>3. Cardinality(S) \in Nat /\ Cardinality(S) \notin Bad
  BY <1>2, FS_CardinalityType
<1>4. Good(S)
  BY <1>3
<1> QED
  BY <1>4

\* The sum that solve() divides, as such a sum.
Weights(hist, L, ratio) == [dist \in DOMAIN hist |-> hist[dist] * f(L, dist * ratio)]
Weighed(hist, L, ratio) ==
  MapThenSumSet(LAMBDA dist : hist[dist] * f(L, dist * ratio), DOMAIN hist)

LEMMA WeighedIsSum ==
  ASSUME NEW hist, IsFiniteSet(DOMAIN hist), NEW L, NEW ratio,
         \A dist \in DOMAIN hist : Weights(hist, L, ratio)[dist] \in Nat
  PROVE  \E it : /\ Sums(DOMAIN hist, Weights(hist, L, ratio), it)
                 /\ Weighed(hist, L, ratio) = it[DOMAIN hist]
<1> DEFINE g == Weights(hist, L, ratio)
           D == DOMAIN hist
           Direct(it) == it = [s \in SUBSET D |->
                          IF s = {} THEN 0
                          ELSE LET x == CHOOSE y \in s : TRUE
                               IN hist[x] * f(L, x * ratio) + it[s \ {x}]]
           I == CHOOSE it : Direct(it)
<1>1. ASSUME NEW it, NEW s \in SUBSET D
      PROVE  (IF s = {} THEN 0
              ELSE LET x == CHOOSE y \in s : TRUE
                   IN hist[x] * f(L, x * ratio) + it[s \ {x}])
               = IF s = {} THEN 0 ELSE g[Chosen(s)] + it[s \ {Chosen(s)}]
  <2>1. CASE s = {}
    BY <2>1
  <2>2. CASE s # {}
    <3>1. Chosen(s) \in D
      BY <2>2, WithoutChosen
    <3>2. g[Chosen(s)] = hist[Chosen(s)] * f(L, Chosen(s) * ratio)
      BY <3>1 DEF Weights
    <3> HIDE DEF g
    <3> QED
      BY <2>2, <3>2 DEF Chosen
  <2> QED
    BY <2>1, <2>2
<1>2. ASSUME NEW it
      PROVE  Direct(it) <=> Sums(D, g, it)
  <2> HIDE DEF g
  <2> QED
    BY <1>1 DEF Sums
<1>3. \E it : Sums(D, g, it)
  BY SumsExist
<1>4. \E it : Direct(it)
  <2> HIDE DEF Direct, g, D
  <2> QED
    BY <1>2, <1>3
<1>5. Direct(I)
  <2> HIDE DEF Direct
  <2> QED
    BY <1>4
<1>6. Weighed(hist, L, ratio) = I[D]
  BY DEF Weighed, MapThenSumSet, MapThenFoldSet
<1> HIDE DEF I, Direct
<1> QED
  BY <1>2, <1>5, <1>6

\* solve() on a histogram.
Ratio(hist, divisor, L, x) ==
  IF divisor = 0 THEN NaN ELSE IF divisor < 0 THEN 0 ELSE Weighed(hist, L, x) \div divisor
Divisor(k) == numInst[k] - coldMiss[k]

LEMMA SolveIsRatio ==
  ASSUME NEW x, NEW L, NEW k
  PROVE  solve(x, L, k) = Ratio(reuseDistanceHisto[k], Divisor(k), L, x)
BY DEF solve, Ratio, Divisor, Weighed

\* It is larger for a larger ratio, and smaller for a larger cache.
LEMMA RatioOrdered ==
  ASSUME NEW hist \in Counts, IsFiniteSet(DOMAIN hist), NEW divisor \in Int, divisor # 0,
         NEW L \in Nat \ {0}, NEW M \in Nat \ {0}, L <= M,
         NEW x \in Nat, NEW y \in Nat, x <= y
  PROVE  /\ Ratio(hist, divisor, M, x) \in Nat /\ Ratio(hist, divisor, L, y) \in Nat
         /\ Ratio(hist, divisor, M, x) <= Ratio(hist, divisor, L, y)
<1> DEFINE D == DOMAIN hist
           g == Weights(hist, M, x)
           h == Weights(hist, L, y)
<1>1. ASSUME NEW dist \in D
      PROVE  g[dist] \in Nat /\ h[dist] \in Nat /\ g[dist] <= h[dist]
  <2>1. dist \in Nat /\ hist[dist] \in Nat
    BY CountsAreNat
  <2>2. dist * x \in Nat /\ dist * y \in Nat /\ dist * x <= dist * y
    BY <2>1, ProductGrows
  <2>3. f(M, dist * x) \in Nat /\ f(L, dist * y) \in Nat /\ f(M, dist * x) <= f(L, dist * y)
    BY <2>2, fOrdered
  <2>4. /\ hist[dist] * f(M, dist * x) \in Nat /\ hist[dist] * f(L, dist * y) \in Nat
        /\ hist[dist] * f(M, dist * x) <= hist[dist] * f(L, dist * y)
    <3> DEFINE n == hist[dist]
               a == f(M, dist * x)
               b == f(L, dist * y)
    <3>1. n \in Nat /\ a \in Nat /\ b \in Nat /\ a <= b
      BY <2>1, <2>3
    <3> HIDE DEF n, a, b
    <3>2. n * a \in Nat /\ n * b \in Nat /\ n * a <= n * b
      BY <3>1, ProductGrows
    <3> QED
      BY <3>2 DEF n, a, b
  <2> QED
    BY <2>4 DEF Weights
<1>2. IsFiniteSet(D)
  OBVIOUS
<1>3. PICK it : Sums(D, g, it) /\ Weighed(hist, M, x) = it[D]
  <2>1. \A dist \in DOMAIN hist : Weights(hist, M, x)[dist] \in Nat
    BY <1>1
  <2> QED
    BY <2>1, WeighedIsSum
<1>4. PICK jt : Sums(D, h, jt) /\ Weighed(hist, L, y) = jt[D]
  <2>1. \A dist \in DOMAIN hist : Weights(hist, L, y)[dist] \in Nat
    BY <1>1
  <2> QED
    BY <2>1, WeighedIsSum
<1> HIDE DEF g, h, D
<1>5. it[D] \in Nat /\ jt[D] \in Nat /\ it[D] <= jt[D]
  BY <1>1, <1>2, <1>3, <1>4, SumsOrdered
<1>6. CASE divisor < 0
  BY <1>6 DEF Ratio
<1>7. CASE ~(divisor < 0)
  <2>1. divisor \in Nat \ {0}
    BY <1>7
  <2>2. /\ Ratio(hist, divisor, M, x) = it[D] \div divisor
        /\ Ratio(hist, divisor, L, y) = jt[D] \div divisor
    BY <1>3, <1>4, <1>7 DEF Ratio
  <2>3. it[D] \div divisor \in Nat /\ jt[D] \div divisor \in Nat
    BY <1>5, <2>1, DivBounds
  <2>4. it[D] \div divisor <= jt[D] \div divisor
    BY <1>5, <2>1, DivMonotone
  <2> QED
    BY <2>2, <2>3, <2>4
<1> QED
  BY <1>6, <1>7

\* The iterate y has passed no ratio that another turn would lead back over: what
\* bounds the solution from one side bounds the iterates.
Keeps(hist, divisor, L, y) ==
  \A x \in Nat :
    /\ x <= Half /\ Ratio(hist, divisor, L, x) >= x => y >= x
    /\ x >= Half /\ Ratio(hist, divisor, L, x) <= x => y <= x

\* The next turn leads on in the direction away from one half.
Directed(hist, divisor, L, y) ==
  \/ y <= Half /\ Ratio(hist, divisor, L, y) <= y
  \/ y >= Half /\ Ratio(hist, divisor, L, y) >= y

\* One half, in units of 1 / Scale, is a number.
LEMMA HalfIsNat == Half \in Nat
<1>1. Scale \in Nat /\ 2 \in Nat \ {0}
  BY StatCacheAssumption
<1>2. Scale \div 2 \in Nat
  BY <1>1, DivMod
<1> QED
  BY <1>2 DEF Half

\* The first turn of solve() starts from one half ...
LEMMA FirstTurn ==
  ASSUME NEW hist \in Counts, IsFiniteSet(DOMAIN hist), NEW divisor \in Int, divisor # 0,
         NEW L \in Nat \ {0}
  PROVE  Keeps(hist, divisor, L, Half) /\ Directed(hist, divisor, L, Half)
<1>1. Half \in Nat /\ Ratio(hist, divisor, L, Half) \in Nat
  BY HalfIsNat, RatioOrdered
<1>2. Keeps(hist, divisor, L, Half)
  BY <1>1 DEF Keeps
<1>3. Directed(hist, divisor, L, Half)
  BY <1>1 DEF Directed
<1> QED
  BY <1>2, <1>3

\* ... and another turn keeps the direction of the one before it.
LEMMA NextTurn ==
  ASSUME NEW hist \in Counts, IsFiniteSet(DOMAIN hist), NEW divisor \in Int, divisor # 0,
         NEW L \in Nat \ {0}, NEW y \in Nat,
         Keeps(hist, divisor, L, y), Directed(hist, divisor, L, y)
  PROVE  LET z == Ratio(hist, divisor, L, y)
         IN z \in Nat /\ Keeps(hist, divisor, L, z) /\ Directed(hist, divisor, L, z)
<1> DEFINE F(x) == Ratio(hist, divisor, L, x)
           z == F(y)
<1>1. Half \in Nat
  BY HalfIsNat
<1>2. \A a, b \in Nat : F(a) \in Nat /\ F(b) \in Nat /\ (a <= b => F(a) <= F(b))
  <2>1. ASSUME NEW a \in Nat, NEW b \in Nat, a <= b
        PROVE  F(a) \in Nat /\ F(b) \in Nat /\ F(a) <= F(b)
    BY <2>1, RatioOrdered
  <2> HIDE DEF F
  <2> QED
    BY <2>1
<1>3. \A x \in Nat : /\ x <= Half /\ F(x) >= x => y >= x
                     /\ x >= Half /\ F(x) <= x => y <= x
  BY DEF Keeps
<1>4. (y <= Half /\ z <= y) \/ (y >= Half /\ z >= y)
  BY DEF Directed
<1>5. z \in Nat
  BY RatioOrdered
<1>6. Keeps(hist, divisor, L, z)
  <2> SUFFICES ASSUME NEW x \in Nat
               PROVE  /\ x <= Half /\ F(x) >= x => z >= x
                      /\ x >= Half /\ F(x) <= x => z <= x
    BY DEF Keeps
  <2> F(x) \in Nat
    BY <1>2
  <2>1. ASSUME x <= Half, F(x) >= x
        PROVE  z >= x
    <3>1. x <= y
      BY <1>3, <2>1
    <3>2. F(x) <= z
      BY <1>2, <3>1
    <3> HIDE DEF F, z
    <3> QED
      BY <1>5, <2>1, <3>2
  <2>2. ASSUME x >= Half, F(x) <= x
        PROVE  z <= x
    <3>1. y <= x
      BY <1>3, <2>2
    <3>2. z <= F(x)
      BY <1>2, <3>1
    <3> HIDE DEF F, z
    <3> QED
      BY <1>5, <2>2, <3>2
  <2> QED
    BY <2>1, <2>2
<1>7. Directed(hist, divisor, L, z)
  <2>1. F(z) \in Nat /\ (z <= y => F(z) <= z) /\ (y <= z => z <= F(z))
    BY <1>2, <1>5
  <2>2. (z <= Half /\ F(z) <= z) \/ (z >= Half /\ F(z) >= z)
    <3> HIDE DEF F, z
    <3> QED
      BY <1>1, <1>4, <1>5, <2>1
  <2> HIDE DEF z
  <2> QED
    BY <2>2 DEF Directed
<1> QED
  BY <1>5, <1>6, <1>7

\* When a larger cache has the larger ratio, one of the two iterations had not come
\* to its solution.
LEMMA LargerRatio ==
  ASSUME NEW hist \in Counts, IsFiniteSet(DOMAIN hist), NEW divisor \in Int, divisor # 0,
         NEW L \in Nat \ {0}, NEW M \in Nat \ {0}, L <= M, NEW x \in Nat, NEW y \in Nat,
         Keeps(hist, divisor, L, x), Keeps(hist, divisor, M, y), x < y
  PROVE  Ratio(hist, divisor, M, y) < y \/ Ratio(hist, divisor, L, x) > x
<1> DEFINE F(z) == Ratio(hist, divisor, L, z)
           G(z) == Ratio(hist, divisor, M, z)
<1>1. Half \in Nat
  BY HalfIsNat
<1>2. \A z \in Nat : F(z) \in Nat /\ G(z) \in Nat /\ G(z) <= F(z)
  <2> TAKE z \in Nat
  <2> QED
    BY RatioOrdered
<1>3. \A z \in Nat : /\ z <= Half /\ F(z) >= z => x >= z
                     /\ z >= Half /\ F(z) <= z => x <= z
  BY DEF Keeps
<1>4. \A z \in Nat : /\ z <= Half /\ G(z) >= z => y >= z
                     /\ z >= Half /\ G(z) <= z => y <= z
  BY DEF Keeps
<1> SUFFICES ASSUME G(y) >= y, F(x) <= x
             PROVE  FALSE
  BY <1>2
<1> HIDE DEF F, G
<1>5. CASE y <= Half
  BY <1>2, <1>3, <1>5
<1>6. CASE y > Half /\ x >= Half
  BY <1>2, <1>4, <1>6
<1>7. CASE y > Half /\ x < Half
  <2>1. ~(G(Half) <= Half)
    BY <1>1, <1>4, <1>7
  <2>2. F(Half) >= Half
    BY <1>1, <1>2, <2>1
  <2> QED
    BY <1>1, <1>3, <1>7, <2>2
<1> QED
  BY <1>1, <1>5, <1>6, <1>7

\* The total of some ratios.
Total(v) == MapThenSumSet(LAMBDA k : v[k], 1 .. Len(v))

\* The total is a sum, as MapThenSumSet adds it up.
LEMMA TotalIsSum ==
  ASSUME NEW v \in Seq(Nat)
  PROVE  \E it : Sums(1 .. Len(v), v, it) /\ Total(v) = it[1 .. Len(v)]
<1> DEFINE D == 1 .. Len(v)
           I == CHOOSE it : Sums(D, v, it)
<1>1. IsFiniteSet(D) /\ \A k \in D : v[k] \in Nat
  <2>1. 1 \in Int /\ Len(v) \in Int
    OBVIOUS
  <2>2. IsFiniteSet(D)
    BY <2>1, FS_Interval
  <2> QED
    BY <2>2
<1>2. Sums(D, v, I)
  BY <1>1, SumsExist
<1>3. Total(v) = I[D]
  BY DEF Total, MapThenSumSet, MapThenFoldSet, Sums, Chosen
<1> HIDE DEF I
<1> QED
  BY <1>2, <1>3

\* If no ratio is larger, neither is the total.
LEMMA TotalsOrdered ==
  ASSUME NEW v \in Seq(Nat), NEW w \in Seq(Nat), Len(v) = Len(w),
         \A k \in 1 .. Len(v) : v[k] <= w[k]
  PROVE  Total(v) <= Total(w)
<1> DEFINE D == 1 .. Len(v)
<1>1. IsFiniteSet(D) /\ \A k \in D : v[k] \in Nat /\ w[k] \in Nat /\ v[k] <= w[k]
  <2>1. 1 \in Int /\ Len(v) \in Int
    OBVIOUS
  <2>2. IsFiniteSet(D)
    BY <2>1, FS_Interval
  <2> QED
    BY <2>2
<1>2. PICK it : Sums(D, v, it) /\ Total(v) = it[D]
  BY TotalIsSum
<1>3. PICK jt : Sums(D, w, jt) /\ Total(w) = jt[D]
  BY TotalIsSum
<1> HIDE DEF D
<1> QED
  BY <1>1, <1>2, <1>3, SumsOrdered

\* A total of ratios is a number.
LEMMA TotalIsNat ==
  ASSUME NEW v \in Seq(Nat)
  PROVE  Total(v) \in Nat
<1> DEFINE D == 1 .. Len(v)
<1>1. IsFiniteSet(D) /\ \A k \in D : v[k] \in Nat /\ v[k] <= v[k]
  <2>1. 1 \in Int /\ Len(v) \in Int
    OBVIOUS
  <2>2. IsFiniteSet(D)
    BY <2>1, FS_Interval
  <2> QED
    BY <2>2
<1>2. PICK it : Sums(D, v, it) /\ Total(v) = it[D]
  BY TotalIsSum
<1> HIDE DEF D
<1> QED
  BY <1>1, <1>2, SumsOrdered

\* What solve() gets: histograms of finitely many distances.
Histos == \A k \in 1 .. Begun : IsFiniteSet(DOMAIN reuseDistanceHisto[k])

\* An access adds one distance at most.
LEMMA HistosStep == Types /\ InChunk /\ Histos /\ [Next]_vars => Histos'
<1> SUFFICES ASSUME Types, InChunk, Histos, [Next]_vars
             PROVE  Histos'
  OBVIOUS
<1>0. chunk = chunkCount + 1 /\ chunkCount \in Nat
  BY DEF chunk, Types
<1>1. CASE Sample \/ UseSample \/ Iterate \/ NextSize \/ Finish \/ UNCHANGED vars
  <2>1. /\ UNCHANGED <<reuseDistanceHisto, chunkCount>>
        /\ (phase = "access" <=> phase' = "access")
    BY <1>1 DEF Sample, UseSample, Iterate, NextSize, Finish, vars, slots, stats
  <2>2. Begun' = Begun
    BY <2>1 DEF Begun, chunk
  <2> QED
    BY <2>1, <2>2 DEF Histos
<1>2. CASE ClearStats
  <2>1. Begun' = 0
    BY <1>2 DEF ClearStats, Begun
  <2> QED
    BY <2>1 DEF Histos
<1>3. CASE StartSlot
  <2>1. /\ Begun = chunkCount /\ Begun' = chunk
        /\ reuseDistanceHisto'[chunk] = <<>>
        /\ \A k \in 1 .. chunkCount : reuseDistanceHisto'[k] = reuseDistanceHisto[k]
    BY <1>3, StartSlotFacts
  <2>2. IsFiniteSet(DOMAIN <<>>)
    <3>1. DOMAIN <<>> = {}
      OBVIOUS
    <3> QED
      BY <3>1, FS_EmptySet
  <2>3. \A k \in 1 .. chunk : k = chunk \/ k \in 1 .. chunkCount
    BY <1>0
  <2> QED
    BY <2>1, <2>2, <2>3 DEF Histos
<1>4. CASE Monitor
  <2>1. /\ Begun = chunk /\ Begun' = chunk
        /\ \A k \in 1 .. chunkCount : reuseDistanceHisto'[k] = reuseDistanceHisto[k]
        /\ \/ \E x \in Nat : reuseDistanceHisto'[chunk] = Counted(reuseDistanceHisto[chunk], x)
           \/ reuseDistanceHisto'[chunk] = reuseDistanceHisto[chunk]
    BY <1>4, MonitorFacts
  <2>2. /\ reuseDistanceHisto[chunk] \in Counts
        /\ IsFiniteSet(DOMAIN reuseDistanceHisto[chunk])
    <3>1. chunk \in 1 .. chunk
      BY <1>0
    <3> QED
      BY <2>1, <3>1 DEF Types, Histos
  <2>3. ASSUME NEW x \in Nat
        PROVE  IsFiniteSet(DOMAIN Counted(reuseDistanceHisto[chunk], x))
    <3>1. DOMAIN Counted(reuseDistanceHisto[chunk], x) = DOMAIN reuseDistanceHisto[chunk] \union {x}
      BY <2>2, CountedType
    <3>2. IsFiniteSet(DOMAIN reuseDistanceHisto[chunk] \union {x})
      BY <2>2, FS_AddElement
    <3> QED
      BY <3>1, <3>2
  <2>4. \A k \in 1 .. chunk : k = chunk \/ k \in 1 .. chunkCount
    BY <1>0
  <2> QED
    BY <2>1, <2>2, <2>3, <2>4 DEF Histos
<1>5. CASE EndSlot
  <2>1. phase = "access" /\ phase' # "access" /\ chunkCount' = chunk /\ UNCHANGED reuseDistanceHisto
    BY <1>5 DEF EndSlot, chunk
  <2> QED
    BY <2>1 DEF Histos, Begun
<1> QED
  BY <1>1, <1>2, <1>3, <1>4, <1>5 DEF Next

\* A ratio that was found for chunk k in the s-th cache, or is on the way there.
Approached(s, k, y) ==
  /\ y \in Nat /\ Divisor(k) # 0
  /\ Keeps(reuseDistanceHisto[k], Divisor(k), CacheLineNums[s], y)
Found(s, v) == v \in Seq(Nat) /\ \A k \in 1 .. Len(v) : Approached(s, k, v[k])

\* What was found for the caches so far.
Recorded ==
  \A s \in 1 .. Len(ratios) : Found(s, ratios[s]) /\ Len(ratios[s]) = chunkCount

\* The next chunk is being solved.
Underway ==
  /\ solved <= chunkCount
  /\ solved = chunkCount => r = Half
  /\ solved < chunkCount =>
       \/ r = NaN /\ Divisor(solved + 1) = 0
       \/ r = Half
       \/ /\ Approached(size, solved + 1, r)
          /\ Directed(reuseDistanceHisto[solved + 1], Divisor(solved + 1),
                      CacheLineNums[size], r)

\* Where postProcessing is, and what it has found.
Solving ==
  /\ size \in 1 .. Len(CacheLineNums)
  /\ Found(size, missRatio)
  /\ phase \notin {"solve", "done"} =>
       r = Half /\ missRatio = <<>> /\ size = 1 /\ reported = <<>> /\ ratios = <<>>
  /\ phase = "solve" => Underway /\ Len(ratios) = size - 1
  /\ Len(ratios) \in 0 .. Len(CacheLineNums) /\ Len(reported) = Len(ratios)
  /\ ratios \in Seq(Seq(Nat)) /\ reported = [s \in 1 .. Len(ratios) |-> Total(ratios[s])]
  /\ Recorded

\* The caches have lines, and the chunks to be solved histograms.
LEMMA Solvable ==
  ASSUME Types, Histos, phase \in {"solve", "done"}
  PROVE  /\ \A s \in 1 .. Len(CacheLineNums) : CacheLineNums[s] \in Nat \ {0}
         /\ \A k \in 1 .. chunkCount :
              /\ reuseDistanceHisto[k] \in Counts /\ IsFiniteSet(DOMAIN reuseDistanceHisto[k])
              /\ Divisor(k) \in Int
<1>1. CacheLineNums \in Seq(Nat \ {0})
  BY StatCacheAssumption
<1>2. Begun = chunkCount /\ chunkCount \in Nat
  BY DEF Begun, Types
<1>3. ASSUME NEW k \in 1 .. chunkCount
      PROVE  /\ reuseDistanceHisto[k] \in Counts /\ IsFiniteSet(DOMAIN reuseDistanceHisto[k])
             /\ numInst[k] \in Nat /\ coldMiss[k] \in Nat
  BY <1>2 DEF Types, Histos
<1> QED
  BY <1>1, <1>3 DEF Divisor

\* A turn of the loop.
LEMMA IterateFacts ==
  ASSUME Types, Histos, Solving, Iterate
  PROVE  LET k == solved + 1
             F(x) == Ratio(reuseDistanceHisto[k], Divisor(k), CacheLineNums[size], x)
         IN /\ phase = "solve" /\ k \in 1 .. chunkCount /\ Len(missRatio) = k - 1
            /\ \/ Divisor(k) = 0 /\ r' = NaN /\ UNCHANGED missRatio
               \/ /\ Approached(size, k, r)
                  /\ Directed(reuseDistanceHisto[k], Divisor(k), CacheLineNums[size], r)
                  /\ Approached(size, k, F(r))
                  /\ Directed(reuseDistanceHisto[k], Divisor(k), CacheLineNums[size], F(r))
                  /\ \/ missRatio' = Append(missRatio, F(r)) /\ r' = Half
                     \/ missRatio' = missRatio /\ r' = F(r)
<1> DEFINE k == solved + 1
           hist == reuseDistanceHisto[k]
           d == Divisor(k)
           L == CacheLineNums[size]
           F(x) == Ratio(hist, d, L, x)
<1>1. /\ phase = "solve" /\ solved < chunkCount
      /\ \/ /\ Converged(solve(r, L, k), r)
            /\ missRatio' = Append(missRatio, solve(r, L, k)) /\ r' = Half
         \/ /\ ~Converged(solve(r, L, k), r)
            /\ r' = solve(r, L, k) /\ UNCHANGED missRatio
  BY DEF Iterate
<1>2. solve(r, L, k) = F(r)
  BY SolveIsRatio
<1>3. solved \in Nat /\ k \in 1 .. chunkCount /\ Len(missRatio) = k - 1
  BY <1>1 DEF Solving, Found, solved, Types
<1>4. /\ L \in Nat \ {0} /\ hist \in Counts /\ IsFiniteSet(DOMAIN hist) /\ d \in Int
  BY <1>1, <1>3, Solvable DEF Solving
<1>5. CASE d = 0
  <2>1. F(r) = NaN
    BY <1>5 DEF Ratio
  <2>2. ~Converged(NaN, r)
    BY DEF Converged
  <2> QED
    BY <1>1, <1>2, <1>3, <1>5, <2>1, <2>2
<1>6. CASE d # 0
  <2>1. Keeps(hist, d, L, r) /\ Directed(hist, d, L, r) /\ r \in Nat
    <3>1. CASE r = Half
      BY <1>4, <1>6, <3>1, FirstTurn, HalfIsNat
    <3>2. CASE r # Half
      BY <1>1, <1>6, <3>2 DEF Solving, Underway, Approached
    <3> QED
      BY <3>1, <3>2
  <2> HIDE DEF hist, d, L
  <2>2. F(r) \in Nat /\ Keeps(hist, d, L, F(r)) /\ Directed(hist, d, L, F(r))
    BY <1>4, <1>6, <2>1, NextTurn
  <2>3. Approached(size, k, r) /\ Approached(size, k, F(r))
    <3> HIDE DEF F, k
    <3> QED
      BY <1>6, <2>1, <2>2 DEF Approached, hist, d, L
  <2>4. \/ missRatio' = Append(missRatio, F(r)) /\ r' = Half
        \/ missRatio' = missRatio /\ r' = F(r)
    BY <1>1, <1>2
  <2> QED
    BY <1>1, <1>3, <2>1, <2>2, <2>3, <2>4 DEF hist, d, L
<1> QED
  BY <1>5, <1>6

\* Nothing is solved at first.
LEMMA SolvingInit == Init => Solving
<1> SUFFICES ASSUME Init
             PROVE  Solving
  OBVIOUS
<1>1. /\ phase \notin {"solve", "done"} /\ missRatio = <<>> /\ r = Half /\ size = 1
      /\ reported = <<>> /\ ratios = <<>> /\ chunkCount = 0
  BY DEF Init
<1>2. Len(CacheLineNums) \in Nat /\ 1 \in 1 .. Len(CacheLineNums)
  BY StatCacheAssumption
<1>3. Found(size, missRatio) /\ Recorded
  BY <1>1 DEF Found, Recorded
<1>4. /\ Len(ratios) = 0 /\ ratios \in Seq(Seq(Nat)) /\ Len(reported) = 0
      /\ reported = [s \in 1 .. Len(ratios) |-> Total(ratios[s])]
  BY <1>1
<1> QED
  BY <1>1, <1>2, <1>3, <1>4 DEF Solving

\* A sequence is the function of its positions, and so is a longer one.
LEMMA SeqAsFunction ==
  ASSUME NEW S, NEW q \in Seq(S), NEW n \in Nat, Len(q) = n
  PROVE  q = [s \in 1 .. n |-> q[s]]
OBVIOUS

LEMMA AppendAsFunction ==
  ASSUME NEW S, NEW q \in Seq(S), NEW x \in S, NEW n \in Nat, Len(q) = n
  PROVE  Append(q, x) = [s \in 1 .. n + 1 |-> IF s = n + 1 THEN x ELSE q[s]]
<1> DEFINE F == Append(q, x)
<1>1. F \in Seq(S) /\ Len(F) = n + 1 /\ F[n + 1] = x /\ \A s \in 1 .. n : F[s] = q[s]
  BY OneMore
<1> HIDE DEF F
<1>2. F = [s \in 1 .. n + 1 |-> F[s]]
  BY <1>1, SeqAsFunction
<1>3. \A s \in 1 .. n + 1 : s = n + 1 \/ s \in 1 .. n
  OBVIOUS
<1>4. [s \in 1 .. n + 1 |-> F[s]] = [s \in 1 .. n + 1 |-> IF s = n + 1 THEN x ELSE q[s]]
  BY <1>1, <1>3
<1>5. F = [s \in 1 .. n + 1 |-> IF s = n + 1 THEN x ELSE q[s]]
  BY <1>2, <1>4
<1> QED
  BY <1>5 DEF F

\* Every step of postProcessing keeps what it has found.
LEMMA SolvingStep ==
  Types /\ InChunk /\ Histos /\ Solving /\ [Next]_vars => Solving'
<1> SUFFICES ASSUME Types, InChunk, Histos, Solving, [Next]_vars
             PROVE  Solving'
  OBVIOUS
<1>0. Len(CacheLineNums) \in Nat /\ chunkCount \in Nat
  BY StatCacheAssumption DEF Types
<1>1. CASE Sample \/ UseSample \/ ClearStats \/ StartSlot \/ Monitor
  <2>1. /\ phase \notin {"solve", "done"} /\ phase' \notin {"solve", "done"}
        /\ UNCHANGED <<r, size, reported, ratios>> /\ missRatio' \in {missRatio, <<>>}
    BY <1>1 DEF Sample, UseSample, ClearStats, StartSlot, Monitor, solving
  <2>2. /\ r = Half /\ missRatio = <<>> /\ size = 1 /\ reported = <<>> /\ ratios = <<>>
        /\ size \in 1 .. Len(CacheLineNums)
    BY <2>1 DEF Solving
  <2>3. /\ r' = Half /\ missRatio' = <<>> /\ size' = 1 /\ reported' = <<>> /\ ratios' = <<>>
    BY <2>1, <2>2
  <2>4. chunkCount' \in Nat
    BY <1>0, <1>1 DEF Sample, UseSample, ClearStats, StartSlot, Monitor, stats
  <2>5. Found(size, missRatio)'
    BY <2>3 DEF Found
  <2>6. /\ Len(ratios') = 0 /\ ratios' \in Seq(Seq(Nat)) /\ Len(reported') = 0
        /\ reported' = [s \in 1 .. Len(ratios') |-> Total(ratios'[s])]
    BY <2>3
  <2>7. Recorded'
    BY <2>6 DEF Recorded
  <2> QED
    BY <1>0, <2>1, <2>2, <2>3, <2>4, <2>5, <2>6, <2>7 DEF Solving
<1>2. CASE EndSlot
  <2>1. /\ phase = "access" /\ phase' # "done" /\ chunkCount' = chunkCount + 1
        /\ UNCHANGED <<r, size, reported, ratios, missRatio, reuseDistanceHisto, numInst, coldMiss>>
    BY <1>2 DEF EndSlot, solving
  <2>2. /\ r = Half /\ missRatio = <<>> /\ size = 1 /\ reported = <<>> /\ ratios = <<>>
        /\ size \in 1 .. Len(CacheLineNums)
    BY <2>1 DEF Solving
  <2>3. /\ r' = Half /\ missRatio' = <<>> /\ size' = 1 /\ reported' = <<>> /\ ratios' = <<>>
        /\ chunkCount' \in Nat
    BY <1>0, <2>1, <2>2
  <2>4. Found(size, missRatio)' /\ Underway'
    <3>1. solved' = 0
      BY <2>3 DEF solved
    <3> QED
      BY <2>3, <3>1 DEF Found, Underway
  <2>5. /\ Len(ratios') = 0 /\ ratios' \in Seq(Seq(Nat)) /\ Len(reported') = 0
        /\ reported' = [s \in 1 .. Len(ratios') |-> Total(ratios'[s])]
    BY <2>3
  <2>6. Recorded'
    BY <2>5 DEF Recorded
  <2> QED
    BY <1>0, <2>1, <2>2, <2>3, <2>4, <2>5, <2>6 DEF Solving
<1>3. CASE Iterate
  <2> DEFINE k == solved + 1
             z == Ratio(reuseDistanceHisto[k], Divisor(k), CacheLineNums[size], r)
  <2>1. /\ phase = "solve" /\ phase' = "solve"
        /\ UNCHANGED <<size, reported, ratios, chunkCount, reuseDistanceHisto, numInst, coldMiss>>
    BY <1>3 DEF Iterate, stats
  <2>2. /\ k \in 1 .. chunkCount /\ solved \in Nat
        /\ \/ Divisor(k) = 0 /\ r' = NaN /\ UNCHANGED missRatio
           \/ /\ Approached(size, k, z)
              /\ Directed(reuseDistanceHisto[k], Divisor(k), CacheLineNums[size], z)
              /\ \/ missRatio' = Append(missRatio, z) /\ r' = Half
                 \/ missRatio' = missRatio /\ r' = z
    <3>1. solved \in Nat
      BY DEF Solving, Found, solved
    <3> QED
      BY <1>3, <3>1, IterateFacts
  <2>3. \A j : Divisor(j)' = Divisor(j)
    BY <2>1 DEF Divisor
  <2>5. /\ size \in 1 .. Len(CacheLineNums) /\ Found(size, missRatio)
        /\ Len(ratios) = size - 1
        /\ Len(ratios) \in 0 .. Len(CacheLineNums) /\ Len(reported) = Len(ratios)
        /\ ratios \in Seq(Seq(Nat)) /\ reported = [s \in 1 .. Len(ratios) |-> Total(ratios[s])]
        /\ Recorded
    BY <2>1 DEF Solving
  <2>6. Recorded'
    BY <2>1, <2>3, <2>5 DEF Recorded, Found, Approached
  <2>7. Found(size, missRatio)' /\ Underway'
    <3>1. CASE Divisor(k) = 0 /\ r' = NaN /\ UNCHANGED missRatio
      <4>1. Found(size, missRatio)'
        BY <2>1, <2>3, <2>5, <3>1 DEF Found, Approached
      <4>2. solved' = solved /\ solved' < chunkCount' /\ Divisor(solved + 1)' = 0
        <5>1. solved' = solved
          BY <3>1 DEF solved
        <5> QED
          BY <1>0, <2>1, <2>2, <2>3, <3>1, <5>1
      <4>3. Underway'
        <5>1. solved' # chunkCount' /\ solved' <= chunkCount' /\ r' = NaN
          BY <1>0, <2>1, <2>2, <3>1, <4>2
        <5> HIDE DEF k, z
        <5> QED
          BY <4>2, <5>1 DEF Underway
      <4> QED
        BY <4>1, <4>3
    <3>2. CASE Approached(size, k, z) /\ missRatio' = Append(missRatio, z) /\ r' = Half
      <4>1. Found(size, missRatio')
        <5>1. missRatio \in Seq(Nat) /\ z \in Nat /\ k = Len(missRatio) + 1
          BY <2>5, <3>2 DEF Found, Approached, solved
        <5>2. /\ missRatio' \in Seq(Nat) /\ Len(missRatio') = k /\ missRatio'[k] = z
              /\ \A j \in 1 .. Len(missRatio) : missRatio'[j] = missRatio[j]
          <6> HIDE DEF z
          <6> QED
            BY <3>2, <5>1
        <5>3. \A j \in 1 .. k : j = k \/ j \in 1 .. Len(missRatio)
          BY <5>1
        <5> HIDE DEF k, z
        <5> QED
          BY <2>5, <3>2, <5>2, <5>3 DEF Found
      <4>2. Found(size, missRatio)'
        BY <2>1, <2>3, <4>1 DEF Found, Approached
      <4>3. solved' = k
        <5>1. missRatio \in Seq(Nat)
          BY <2>5 DEF Found
        <5> QED
          BY <3>2, <5>1 DEF solved
      <4>4. solved' <= chunkCount'
        BY <1>0, <2>1, <2>2, <4>3
      <4>5. Underway'
        BY <3>2, <4>4 DEF Underway
      <4> QED
        BY <4>2, <4>5
    <3>3. CASE /\ Approached(size, k, z)
               /\ Directed(reuseDistanceHisto[k], Divisor(k), CacheLineNums[size], z)
               /\ missRatio' = missRatio /\ r' = z
      <4>1. Found(size, missRatio)'
        BY <2>1, <2>3, <2>5, <3>3 DEF Found, Approached
      <4>2. solved' = solved /\ solved' < chunkCount'
        <5>1. solved' = solved
          BY <3>3 DEF solved
        <5> QED
          BY <1>0, <2>1, <2>2, <5>1
      <4>3. Approached(size, solved + 1, r)'
        <5> HIDE DEF z
        <5> QED
          BY <2>1, <2>3, <3>3, <4>2 DEF Approached
      <4>4. Directed(reuseDistanceHisto[solved + 1], Divisor(solved + 1), CacheLineNums[size], r)'
        <5> HIDE DEF z
        <5> QED
          BY <2>1, <2>3, <3>3, <4>2 DEF Directed
      <4>5. solved' <= chunkCount' /\ solved' # chunkCount'
        BY <1>0, <2>1, <2>2, <4>2
      <4>6. Underway'
        BY <4>2, <4>3, <4>4, <4>5 DEF Underway
      <4> QED
        BY <4>1, <4>6
    <3> QED
      BY <2>2, <3>1, <3>2, <3>3
  <2>8. /\ Len(ratios') = size' - 1 /\ size' \in 1 .. Len(CacheLineNums)
        /\ Len(ratios') \in 0 .. Len(CacheLineNums) /\ Len(reported') = Len(ratios')
        /\ ratios' \in Seq(Seq(Nat)) /\ reported' = [s \in 1 .. Len(ratios') |-> Total(ratios'[s])]
    BY <2>1, <2>5
  <2> QED
    BY <2>1, <2>6, <2>7, <2>8 DEF Solving
<1>4. CASE NextSize \/ Finish
  <2>1. /\ phase = "solve" /\ solved = chunkCount /\ r' = r
        /\ reported' = Append(reported, TotalMissRatio) /\ ratios' = Append(ratios, missRatio)
        /\ UNCHANGED <<chunkCount, reuseDistanceHisto, numInst, coldMiss>>
        /\ \/ /\ phase' = "solve" /\ size < Len(CacheLineNums) /\ size' = size + 1
              /\ missRatio' = <<>>
           \/ /\ phase' = "done" /\ UNCHANGED <<size, missRatio>>
    BY <1>4 DEF NextSize, Finish, stats
  <2>2. /\ size \in 1 .. Len(CacheLineNums) /\ Found(size, missRatio) /\ r = Half
        /\ Len(ratios) = size - 1 /\ Len(reported) = Len(ratios)
        /\ ratios \in Seq(Seq(Nat)) /\ reported = [s \in 1 .. Len(ratios) |-> Total(ratios[s])]
        /\ Recorded
    BY <2>1 DEF Solving, Underway
  <2>3. missRatio \in Seq(Nat) /\ Len(missRatio) = chunkCount
    BY <2>1, <2>2 DEF Found, solved
  <2>4. TotalMissRatio = Total(missRatio)
    BY DEF TotalMissRatio, Total, solved
  <2>5. /\ ratios' \in Seq(Seq(Nat)) /\ Len(ratios') = size /\ ratios'[size] = missRatio
        /\ \A s \in 1 .. Len(ratios) : ratios'[s] = ratios[s]
    BY <2>1, <2>2, <2>3
  <2>6. \A s \in 1 .. size : s = size \/ s \in 1 .. Len(ratios)
    BY <2>2
  <2>7. reported' = [s \in 1 .. Len(ratios') |-> Total(ratios'[s])] /\ Len(reported') = size
    <3> DEFINE T == Total(missRatio)
               A == [s \in 1 .. Len(ratios) |-> Total(ratios[s])]
               B == [s \in 1 .. Len(ratios') |-> Total(ratios'[s])]
    <3>1. size - 1 \in Nat /\ size \in Nat /\ Len(ratios) = size - 1
      BY <1>0, <2>2
    <3>2. /\ Append(A, T) = [s \in 1 .. size |-> IF s = size THEN T ELSE A[s]]
      <4> DEFINE C == {A[s] : s \in 1 .. Len(ratios)} \union {T}
                 n == size - 1
      <4>1. A \in Seq(C) /\ Len(A) = n /\ n \in Nat /\ size = n + 1 /\ T \in C
        BY <3>1
      <4> HIDE DEF A, T, C, n
      <4>2. Append(A, T) = [s \in 1 .. n + 1 |-> IF s = n + 1 THEN T ELSE A[s]]
        BY <4>1, AppendAsFunction
      <4> QED
        BY <4>1, <4>2
    <3>3. ASSUME NEW s \in 1 .. size
          PROVE  B[s] = IF s = size THEN T ELSE A[s]
      BY <2>5, <2>6
    <3>4. B = [s \in 1 .. size |-> B[s]]
      BY <2>5
    <3>5. reported' = Append(A, T)
      BY <2>1, <2>2, <2>4
    <3> HIDE DEF A, B, T
    <3>6. reported' = B
      BY <3>2, <3>3, <3>4, <3>5
    <3>7. Len(reported') = size
      <4>1. DOMAIN reported' = 1 .. size
        BY <3>2, <3>5
      <4> QED
        BY <2>1, <2>2, <3>1
    <3> QED
      BY <3>6, <3>7 DEF B
  <2>8. \A k : Divisor(k)' = Divisor(k)
    BY <2>1 DEF Divisor
  <2>9. Recorded'
    <3>1. \A s \in 1 .. Len(ratios') : Found(s, ratios'[s]) /\ Len(ratios'[s]) = chunkCount
      BY <2>2, <2>3, <2>5, <2>6 DEF Recorded
    <3> QED
      BY <2>1, <2>8, <3>1 DEF Recorded, Found, Approached
  <2>10. /\ Found(size, missRatio)' /\ size' \in 1 .. Len(CacheLineNums)
         /\ phase' = "solve" => Underway'
    <3>1. CASE phase' = "solve" /\ size < Len(CacheLineNums) /\ size' = size + 1 /\ missRatio' = <<>>
      <4>1. Found(size, missRatio)' /\ solved' = 0
        BY <3>1 DEF Found, solved
      <4>2. Underway'
        BY <1>0, <2>1, <2>2, <3>1, <4>1 DEF Underway
      <4> QED
        BY <1>0, <2>2, <3>1, <4>1, <4>2
    <3>2. CASE phase' = "done" /\ UNCHANGED <<size, missRatio>>
      BY <2>1, <2>2, <2>8, <3>2 DEF Found, Approached
    <3> QED
      BY <2>1, <3>1, <3>2
  <2>11. phase' = "solve" => Len(ratios') = size' - 1
    BY <2>1, <2>2, <2>5
  <2>12. Len(ratios') \in 0 .. Len(CacheLineNums)
    BY <1>0, <2>2, <2>5
  <2>13. phase' \in {"solve", "done"} /\ r' = Half
    BY <2>1, <2>2
  <2>14. Len(reported') = Len(ratios')
    BY <2>5, <2>7
  <2> QED
    BY <2>5, <2>7, <2>9, <2>10, <2>11, <2>12, <2>13, <2>14 DEF Solving
<1>5. CASE UNCHANGED vars
  <2>1. UNCHANGED <<phase, size, missRatio, r, reported, ratios, chunkCount, reuseDistanceHisto,
                    numInst, coldMiss>>
    BY <1>5 DEF vars, stats, solving
  <2>2. \A k : Divisor(k)' = Divisor(k)
    BY <2>1 DEF Divisor
  <2> QED
    BY <2>1, <2>2 DEF Solving, Underway, Recorded, Found, Approached, Directed, solved
<1> QED
  BY <1>1, <1>2, <1>3, <1>4, <1>5 DEF Next

\* So it holds at every moment.
LEMMA SolvingCorrect == Spec => [](Histos /\ Solving)
<1>1. Init => Histos /\ Solving
  <2>1. Init => Begun = 0
    BY DEF Init, Begun
  <2>2. Init => Histos
    BY <2>1 DEF Histos
  <2> QED
    BY <2>2, SolvingInit
<1>2. (Types /\ InChunk) /\ (Histos /\ Solving) /\ [Next]_vars => (Histos /\ Solving)'
  BY HistosStep, SolvingStep
<1> QED
  BY <1>1, <1>2, TypesCorrect, PTL DEF Spec

\* LargerCacheNoWorse: when a larger cache is reported with more misses, one of
\* the two iterations was ended by eps before it came to its solution, for all
\* traces, sizes and precisions.
THEOREM LargerCacheNoWorseCorrect == Spec => []LargerCacheNoWorse
<1>1. Types /\ Histos /\ Solving => LargerCacheNoWorse
  <2> SUFFICES ASSUME Types, Histos, Solving,
                      NEW a \in 1 .. Len(reported), NEW b \in 1 .. Len(reported),
                      CacheLineNums[a] <= CacheLineNums[b], reported[a] < reported[b]
               PROVE  \E k \in 1 .. chunkCount :
                        \/ OneMoreTurn(b, k) < ratios[b][k]
                        \/ OneMoreTurn(a, k) > ratios[a][k]
    BY DEF LargerCacheNoWorse
  <2>1. /\ a \in 1 .. Len(ratios) /\ b \in 1 .. Len(ratios)
        /\ a \in 1 .. Len(CacheLineNums) /\ b \in 1 .. Len(CacheLineNums)
        /\ reported[a] = Total(ratios[a]) /\ reported[b] = Total(ratios[b])
        /\ Found(a, ratios[a]) /\ Len(ratios[a]) = chunkCount
        /\ Found(b, ratios[b]) /\ Len(ratios[b]) = chunkCount
    BY DEF Solving, Recorded
  <2>2. phase \in {"solve", "done"}
    BY <2>1 DEF Solving
  <2>3. ratios[a] \in Seq(Nat) /\ ratios[b] \in Seq(Nat)
    BY <2>1 DEF Found
  <2>4. PICK k \in 1 .. chunkCount : ratios[a][k] < ratios[b][k]
    <3> SUFFICES ASSUME \A k \in 1 .. chunkCount : ~(ratios[a][k] < ratios[b][k])
                 PROVE  FALSE
      OBVIOUS
    <3>1. \A k \in 1 .. Len(ratios[b]) : ratios[b][k] <= ratios[a][k]
      BY <2>1, <2>3
    <3>2. Total(ratios[b]) <= Total(ratios[a])
      BY <2>1, <2>3, <3>1, TotalsOrdered
    <3>3. Total(ratios[a]) \in Nat /\ Total(ratios[b]) \in Nat
      BY <2>3, TotalIsNat
    <3> QED
      BY <2>1, <3>2, <3>3
  <2> DEFINE hist == reuseDistanceHisto[k]
             d == Divisor(k)
             L == CacheLineNums[a]
             M == CacheLineNums[b]
             x == ratios[a][k]
             y == ratios[b][k]
  <2>5. /\ x \in Nat /\ y \in Nat /\ d # 0 /\ Keeps(hist, d, L, x) /\ Keeps(hist, d, M, y)
    BY <2>1 DEF Found, Approached
  <2>6. /\ L \in Nat \ {0} /\ M \in Nat \ {0} /\ d \in Int
        /\ hist \in Counts /\ IsFiniteSet(DOMAIN hist)
    BY <2>1, <2>2, Solvable
  <2>7. OneMoreTurn(b, k) = Ratio(hist, d, M, y) /\ OneMoreTurn(a, k) = Ratio(hist, d, L, x)
    BY SolveIsRatio DEF OneMoreTurn
  <2>8. L <= M /\ x < y
    BY <2>4
  <2> HIDE DEF hist, d, L, M, x, y
  <2>9. Ratio(hist, d, M, y) < y \/ Ratio(hist, d, L, x) > x
    BY <2>5, <2>6, <2>8, LargerRatio
  <2> QED
    BY <2>7, <2>9 DEF x, y
<1> QED
  BY <1>1, TypesCorrect, SolvingCorrect, PTL

\* OneDirection: the iterates only fall or only rise from one half on, until they
\* converge or are no number.
THEOREM OneDirectionCorrect == Spec => OneDirection
<1>1. Types /\ Histos /\ Solving /\ [Next]_vars =>
        [phase = "solve" /\ solved' = solved /\ size' = size =>
           \/ r' = NaN
           \/ r <= Half /\ r' <= r
           \/ r >= Half /\ r' >= r]_vars
  <2> SUFFICES ASSUME Types, Histos, Solving, Next,
                      phase = "solve", solved' = solved, size' = size
               PROVE  \/ r' = NaN
                      \/ r <= Half /\ r' <= r
                      \/ r >= Half /\ r' >= r
    BY DEF vars
  <2>1. CASE Iterate
    <3>1. missRatio \in Seq(Nat)
      BY DEF Solving, Found
    <3> DEFINE k == solved + 1
               z == Ratio(reuseDistanceHisto[k], Divisor(k), CacheLineNums[size], r)
    <3>2. \/ r' = NaN
          \/ /\ Directed(reuseDistanceHisto[k], Divisor(k), CacheLineNums[size], r)
             /\ missRatio' = Append(missRatio, z) \/ r' = z
      BY <2>1, IterateFacts
    <3>3. missRatio' # Append(missRatio, z)
      <4> HIDE DEF z
      <4> QED
        BY <3>1 DEF solved
    <3> QED
      BY <3>2, <3>3 DEF Directed
  <2>2. CASE NextSize \/ Finish
    <3>1. r = Half /\ r' = r
      BY <2>2 DEF NextSize, Finish, Solving, Underway
    <3> QED
      BY <3>1, HalfIsNat
  <2>3. Next => Iterate \/ NextSize \/ Finish
    BY DEF Next, Sample, UseSample, ClearStats, StartSlot, Monitor, EndSlot
  <2> QED
    BY <2>1, <2>2, <2>3
<1> QED
  BY <1>1, TypesCorrect, SolvingCorrect, PTL DEF Spec, OneDirection
=============================================================================
