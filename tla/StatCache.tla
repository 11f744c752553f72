----------------------------- MODULE StatCache ------------------------------
(***************************************************************************)
(* The statistical cache model, cache_simulator/statCache.cc.  main()      *)
(* reads a trace, may sample it, cuts it into time slots, collects the     *)
(* reuse distances of every slot (runTimeStatsFull) and then solves, for   *)
(* every cache size and slot, the equation of the miss ratio               *)
(* (postProcessing).  Ratios are fixed-point numbers of unit 1 / Scale.    *)
(***************************************************************************)
EXTENDS Integers, Sequences, FiniteSets, FiniteSetsExt

CONSTANTS
  BlkSize,        \* bytes of a cache line
  Inputs,         \* of main(): the trace, doSample, and useTimeSlot, where 0
                  \* asks for a single slot
  SampleStep,     \* sampleStep ...
  SampleStepDiff, \* ... and sampleStepDiff
  Modulus,        \* `unsigned' is arithmetic modulo this: 2^32 in the build
  Beyond,         \* the addresses that a read behind the trace may see
  CacheLineNums,  \* the lines of each simulated cache, in main()'s order
  Scale, Eps,     \* fixed-point unit of a ratio, and eps in that unit
  NaN,            \* a ratio that is not a finite number
  MaxChunks       \* bound of the model: the chunks that fit into memory

ASSUME StatCacheAssumption ==
  /\ {BlkSize, SampleStep, Modulus, Scale, Eps, MaxChunks} \subseteq Nat \ {0}
  /\ Inputs \subseteq
       [trace : Seq(Nat), doSample : BOOLEAN, useTimeSlot : 0 .. Modulus - 1]
  /\ Beyond # {} /\ Beyond \subseteq Nat
  /\ SampleStepDiff \in 0 .. SampleStep - 1
  /\ CacheLineNums \in Seq(Nat \ {0}) \ {<<>>}
  /\ NaN \notin Int

VARIABLES
  phase,               \* where main() is
  memoryTraces,        \* the trace, replaced by its sample when there is one
  sampleContainer,
  counter,             \* position of sampleTrace in the trace
  useTimeSlot,
  from, nextSlotStart, finished,   \* main()'s slot loop
  i,                   \* runTimeStatsFull's index into the trace
  reuseDistanceHisto,  \* one entry per chunk: distance |-> count
  monitoredTrace,      \* one entry per chunk: block |-> index of its last use
  coldMiss,            \* one entry per chunk
  numInst,             \* one entry per chunk
  chunkCount,
  missRatio,           \* one entry per chunk solved for this size
  r,                   \* the iterate of postProcessing; lastR at the loop's head
  size,                \* which of CacheLineNums is being solved
  reported,            \* the total miss ratio of each size solved so far
  starts,              \* history: where each chunk begins
  ratios               \* history: the missRatio that each total was made of

sampling == <<memoryTraces, sampleContainer, counter>>
slots == <<useTimeSlot, from, nextSlotStart, finished, i>>
stats == <<reuseDistanceHisto, monitoredTrace, coldMiss, numInst, chunkCount, starts>>
solving == <<missRatio, r, size, reported, ratios>>
vars == <<phase, sampling, slots, stats, solving>>

Half == Scale \div 2

Init ==
  /\ \E input \in Inputs :
       /\ memoryTraces = input.trace
       /\ phase = IF input.doSample THEN "sample" ELSE "clear"
       /\ useTimeSlot = input.useTimeSlot
  /\ sampleContainer = <<>>
  /\ counter = 0
  /\ from = 0 /\ nextSlotStart = 0 /\ finished = FALSE /\ i = 0
  /\ reuseDistanceHisto = <<>> /\ monitoredTrace = <<>>
  /\ coldMiss = <<>> /\ numInst = <<>> /\ chunkCount = 0 /\ starts = <<>>
  /\ missRatio = <<>> /\ r = Half /\ size = 1 /\ reported = <<>> /\ ratios = <<>>

-----------------------------------------------------------------------------
(* sampleTrace: the first access, then one after every random step.        *)

\* A bug in RandSteps, one step too many.
RandStepsTooWide == SampleStep - SampleStepDiff .. SampleStep + SampleStepDiff + 1

RandSteps == SampleStep - SampleStepDiff .. SampleStep + SampleStepDiff

Sample ==
  /\ phase = "sample"
  /\ counter < Len(memoryTraces)
  /\ sampleContainer' = Append(sampleContainer, memoryTraces[counter + 1])
  /\ \E step \in RandSteps : counter' = counter + step
  /\ UNCHANGED <<phase, memoryTraces, slots, stats, solving>>

\* main() keeps the sample in the place of the trace.
UseSample ==
  /\ phase = "sample"
  /\ counter >= Len(memoryTraces)
  /\ memoryTraces' = sampleContainer
  /\ phase' = "clear"
  /\ UNCHANGED <<sampleContainer, counter, slots, stats, solving>>

-----------------------------------------------------------------------------
(* The slot loop of main() and runTimeStatsFull.                           *)

sampledSize == Len(memoryTraces)
timeSlotLen == (IF useTimeSlot > 0 THEN useTimeSlot ELSE sampledSize) % Modulus

\* clearStats empties every vector but _numInst; main() then sets its loop up.
ClearStats ==
  /\ phase = "clear"
  /\ reuseDistanceHisto' = <<>> /\ monitoredTrace' = <<>>
  /\ coldMiss' = <<>> /\ missRatio' = <<>> /\ chunkCount' = 0
  /\ nextSlotStart' = 0 /\ finished' = FALSE
  /\ phase' = "slot"
  /\ UNCHANGED <<sampling, useTimeSlot, from, i, numInst, r, size, reported, ratios,
                 starts>>

\* The end of the slot that begins at nextSlotStart, and whether it is the last:
\* what would be left is less than half a slot.
SlotEnd == (nextSlotStart + timeSlotLen) % Modulus

\* Bugs in LastSlot: small last slots not avoided, and a trace that is expected
\* to be full slots.
LastSlotOfAnySize == SlotEnd >= sampledSize
LastSlotMeetsEnd == SlotEnd = sampledSize
LastSlot == SlotEnd >= sampledSize \/ sampledSize - SlotEnd < timeSlotLen \div 2

\* A bug in NextStart, the last slot not cut at the end of the trace.
NextStartUncut == SlotEnd

NextStart == IF LastSlot THEN sampledSize % Modulus ELSE SlotEnd

StartSlot ==
  /\ phase = "slot"
  /\ chunkCount < MaxChunks
  /\ from' = nextSlotStart
  /\ nextSlotStart' = NextStart
  /\ finished' = LastSlot
  /\ i' = nextSlotStart
  /\ reuseDistanceHisto' = Append(reuseDistanceHisto, <<>>)
  /\ monitoredTrace' = Append(monitoredTrace, <<>>)
  /\ coldMiss' = Append(coldMiss, 0)
  /\ numInst' = Append(numInst, (NextStart - nextSlotStart) % Modulus)
  /\ starts' = Append(starts, nextSlotStart)
  /\ phase' = "access"
  /\ UNCHANGED <<sampling, useTimeSlot, chunkCount, solving>>

chunk == chunkCount + 1
len == (nextSlotStart - from) % Modulus

\* The block of trace[i]; nothing checks that i is inside the trace.
BlocksAt(pos) ==
  {a \div BlkSize : a \in IF pos < sampledSize THEN {memoryTraces[pos + 1]} ELSE Beyond}

\* f with one more or a changed entry for x.
With(f, x, y) == [z \in DOMAIN f \union {x} |-> IF z = x THEN y ELSE f[z]]

\* A bug in Counted, no increment.
CountedOnce(hist, dist) == With(hist, dist, 1)

\* The histogram with one more reuse at distance dist.
Counted(hist, dist) ==
  With(hist, dist, IF dist \in DOMAIN hist THEN hist[dist] + 1 ELSE 1)

\* A bug in LastUse, a reuse that leaves mt alone.
FirstUse(mt, b, pos) == IF b \in DOMAIN mt THEN mt ELSE With(mt, b, pos)

\* _monitoredTrace after a use of block b.
LastUse(mt, b, pos) == With(mt, b, pos)

\* One turn of the loop: a block that is monitored yields a distance, another
\* one a cold miss.  _coldMissTrace has the same keys as _monitoredTrace.
Monitor ==
  /\ phase = "access"
  /\ i < from + len
  /\ \E b \in BlocksAt(i) :
       LET mt == monitoredTrace[chunk] IN
       /\ \/ /\ b \in DOMAIN mt
             /\ reuseDistanceHisto' = [reuseDistanceHisto EXCEPT
                                        ![chunk] = Counted(@, i - mt[b] - 1)]
             /\ UNCHANGED coldMiss
          \/ /\ b \notin DOMAIN mt
             /\ coldMiss' = [coldMiss EXCEPT ![chunk] = @ + 1]
             /\ UNCHANGED reuseDistanceHisto
       /\ monitoredTrace' = [monitoredTrace EXCEPT ![chunk] = LastUse(@, b, i)]
  /\ i' = i + 1
  /\ UNCHANGED <<phase, sampling, useTimeSlot, from, nextSlotStart, finished,
                 numInst, chunkCount, starts, solving>>

EndSlot ==
  /\ phase = "access"
  /\ i >= from + len
  /\ chunkCount' = chunkCount + 1
  /\ phase' = IF finished THEN "solve" ELSE "slot"
  /\ UNCHANGED <<sampling, slots, reuseDistanceHisto, monitoredTrace, coldMiss,
                 numInst, starts, solving>>

-----------------------------------------------------------------------------
(* postProcessing.                                                         *)

\* pow(1 - 1 / L, x / Scale): exact at whole exponents but for the rounding,
\* linear between them.
Survives(L, x) ==
  LET power[n \in Nat] == IF n = 0 THEN Scale ELSE (power[n - 1] * (L - 1)) \div L
      n0 == x \div Scale
  IN power[n0] - ((power[n0] - power[n0 + 1]) * (x % Scale)) \div Scale

\* A bug in f, the `1 -' forgotten.
fOfHits(L, x) == Survives(L, x)

\* f of the paper, for a cache of L lines and x / Scale replacements.
f(L, x) == Scale - Survives(L, x)

\* The difference of two uint64_t: when it wraps, the quotient is next to zero.
\* A quotient by zero is not finite, and neither is any later iterate.
solve(ratio, L, k) ==
  LET hist == reuseDistanceHisto[k]
      sum == MapThenSumSet(LAMBDA dist : hist[dist] * f(L, dist * ratio), DOMAIN hist)
      divisor == numInst[k] - coldMiss[k]
  IN IF divisor = 0 THEN NaN ELSE IF divisor < 0 THEN 0 ELSE sum \div divisor

solved == Len(missRatio)

\* A bug in Converged, lastR never assigned in the loop.
ConvergedToStart(new, last) ==
  /\ new # NaN
  /\ new - Half < Eps
  /\ Half - new < Eps

\* fabs(r - lastR) < eps, false of anything that is not a number.
Converged(new, last) ==
  /\ new # NaN
  /\ new - last < Eps
  /\ last - new < Eps

\* One turn of the while loop for the next unsolved chunk.
Iterate ==
  /\ phase = "solve"
  /\ solved < chunkCount
  /\ LET new == solve(r, CacheLineNums[size], solved + 1) IN
       \/ /\ Converged(new, r)
          /\ missRatio' = Append(missRatio, new)
          /\ r' = Half
       \/ /\ ~Converged(new, r)
          /\ r' = new
          /\ UNCHANGED missRatio
  /\ UNCHANGED <<phase, sampling, slots, stats, size, reported, ratios>>

TotalMissRatio == MapThenSumSet(LAMBDA k : missRatio[k], 1 .. solved)

\* main() reports the total (it divides it by the number of chunks) and goes on
\* to the next size, for which missRatio is cleared.
NextSize ==
  /\ phase = "solve"
  /\ solved = chunkCount
  /\ size < Len(CacheLineNums)
  /\ size' = size + 1
  /\ reported' = Append(reported, TotalMissRatio)
  /\ ratios' = Append(ratios, missRatio)
  /\ missRatio' = <<>>
  /\ UNCHANGED <<phase, sampling, slots, stats, r>>

\* The last size ends main().
Finish ==
  /\ phase = "solve"
  /\ solved = chunkCount
  /\ size = Len(CacheLineNums)
  /\ reported' = Append(reported, TotalMissRatio)
  /\ ratios' = Append(ratios, missRatio)
  /\ phase' = "done"
  /\ UNCHANGED <<sampling, slots, stats, missRatio, r, size>>

Next ==
  \/ Sample \/ UseSample
  \/ ClearStats \/ StartSlot \/ Monitor \/ EndSlot
  \/ Iterate \/ NextSize \/ Finish

Spec == Init /\ [][Next]_vars

\* One thread, which no step of its own can block.
FairSpec == Spec /\ WF_vars(Next)

-----------------------------------------------------------------------------
(* Properties.                                                             *)

Chunks == 1 .. Len(reuseDistanceHisto)

\* The sample begins with the first access and skips no more and no less than
\* randStep allows, up to the end of the trace: its size, from which all ratios
\* are computed, is within the bounds that the steps set.
SampleSpread ==
  phase = "sample" /\ counter >= Len(memoryTraces) =>
    LET n == Len(sampleContainer) IN
    /\ n * (SampleStep - SampleStepDiff) <= counter
    /\ counter <= n * (SampleStep + SampleStepDiff)
    /\ n > 0 => /\ sampleContainer[1] = memoryTraces[1]
                /\ n - 1 <= (Len(memoryTraces) - 1) \div (SampleStep - SampleStepDiff)
                /\ n * (SampleStep + SampleStepDiff) >= Len(memoryTraces)

\* The end of every slot that the loop of main() computes is an `unsigned'.
Fits ==
  sampledSize + (IF useTimeSlot = 0 THEN 0 ELSE useTimeSlot - useTimeSlot \div 2) < Modulus

\* Where chunk k ends, and the next one begins.
Behind(k) == IF k = 0 THEN 0 ELSE starts[k] + numInst[k]

\* Unless the trace comes within half a slot of 2^32 entries, the slots follow
\* each other through the trace: no access is analysed twice, none outside the
\* trace, and when the last slot is done none is left.
SlotsPartition ==
  Fits =>
  /\ \A k \in DOMAIN starts : starts[k] = Behind(k - 1)
  /\ phase = "access" =>
       /\ i \in from .. nextSlotStart /\ nextSlotStart <= sampledSize
       /\ from = starts[chunk] /\ nextSlotStart = Behind(chunk)
  /\ phase \in {"solve", "done"} => sampledSize = Behind(chunkCount)

\* `last slot cannot be too small': all slots are full but the last, which has
\* from half a slot to one and a half.
LastSlotLarge ==
  Fits =>
  \A k \in 1 .. chunkCount :
    \/ numInst[k] = timeSlotLen
    \/ /\ k = chunkCount /\ finished
       /\ k > 1 => numInst[k] >= timeSlotLen \div 2
       /\ numInst[k] < timeSlotLen + timeSlotLen \div 2

\* The part of the trace that chunk k has seen.
Seen(k) == starts[k] .. (IF k > chunkCount THEN i ELSE Behind(k)) - 1
Block(t) == memoryTraces[t + 1] \div BlkSize

\* The accesses of chunk k whose block was last used dist accesses before, in
\* the same chunk.
Reuses(k, dist) ==
  {t \in Seen(k) :
     /\ t - dist - 1 \in Seen(k) /\ Block(t - dist - 1) = Block(t)
     /\ \A q \in t - dist .. t - 1 : Block(q) # Block(t)}

\* At every moment a chunk's histogram counts its reuses by their distance, and
\* every other access was a cold miss, once for each block.
HistogramExact ==
  Fits =>
  \A k \in Chunks :
    /\ \A dist \in 0 .. sampledSize :
         Cardinality(Reuses(k, dist)) =
           IF dist \in DOMAIN reuseDistanceHisto[k] THEN reuseDistanceHisto[k][dist] ELSE 0
    /\ DOMAIN reuseDistanceHisto[k] \subseteq 0 .. sampledSize
    /\ coldMiss[k] = Cardinality({Block(t) : t \in Seen(k)})

\* What a histogram counts, one by one.
Entries(hist) == UNION {{dist} \X (1 .. hist[dist]) : dist \in DOMAIN hist}

\* solve() divides by the number of reuses: what a chunk's length and its cold
\* misses leave is what its histogram holds.
DivisorCountsReuses ==
  \A k \in 1 .. chunkCount :
    numInst[k] - coldMiss[k] = Cardinality(Entries(reuseDistanceHisto[k]))

\* The iteration never turns round: from one half it only falls or only rises.
OneDirection ==
  [][phase = "solve" /\ solved' = solved /\ size' = size =>
       \/ r' = NaN
       \/ r <= Half /\ r' <= r
       \/ r >= Half /\ r' >= r]_vars

\* The ratio that the s-th cache got for chunk k after one more iteration.
OneMoreTurn(s, k) == solve(ratios[s][k], CacheLineNums[s], k)

\* A larger cache is reported with more misses only where eps ended an iteration
\* too early: the larger cache's was still falling or the smaller one's rising.
LargerCacheNoWorse ==
  \A a, b \in 1 .. Len(reported) :
    CacheLineNums[a] <= CacheLineNums[b] /\ reported[a] < reported[b] =>
      \E k \in 1 .. chunkCount :
        \/ OneMoreTurn(b, k) < ratios[b][k]
        \/ OneMoreTurn(a, k) > ratios[a][k]

\* Every chunk has a block that it uses twice.
AllReuse == \A k \in 1 .. chunkCount : numInst[k] # coldMiss[k]

\* When every chunk has a reuse the iterations end for every chunk and size.
SolvesReuse == (phase = "solve" /\ AllReuse) ~> (phase = "done")

\* `The post-processing part in the paper. Returns R'.
Returns == (phase = "solve") ~> (phase = "done")

\* main() gets through the slots of a trace of such a length.
SlotsEnd == (phase = "slot" /\ Fits) ~> (phase = "solve")
=============================================================================
