------------------------------ MODULE OurCache ------------------------------
(***************************************************************************)
(* The offline cache simulator, cache_simulator/cacheSimulator.cc: a bank  *)
(* of caches of growing size (OurCache, made of OurCacheSets), all fed     *)
(* with the same trace of addresses, each with its own clock and counters. *)
(* main() reads the whole trace first, then accesses every cache with the  *)
(* first address, every cache with the second, and so on.                  *)
(***************************************************************************)
EXTENDS Integers, Sequences, FiniteSets

CONSTANTS
  BlkSize,       \* blkSize: bytes of a cache line
  DefaultAssoc,  \* defaultAssoc: ways of a set, unless fully associative
  Sizes,         \* bytes of each cache, in the order main() builds them
  Traces,        \* the traces the simulator may be given
  Arguments,     \* what may follow the file name: <<>>, or what atoi makes of it
  Garbage        \* what an uninitialised OurCacheLine may hold

Caches == 1 .. Len(Sizes)
ReplPolicy == {"LRU", "RANDOM"}
Addr == Nat
TimeStamp == Nat

\* `valid' is the only field with an initialiser: tag and timestamp of a new
\* line are whatever the memory held.
OurCacheLine == [tag : Addr, timestamp : TimeStamp, valid : BOOLEAN]

ASSUME GeometryAssumption ==
  /\ BlkSize \in Nat \ {0}
  /\ DefaultAssoc \in Nat \ {0}
  /\ Sizes \in Seq(Nat)
  /\ Sizes # <<>>
  /\ \A c \in Caches : Sizes[c] \div (DefaultAssoc * BlkSize) > 0
\* main() doubles the size from one cache to the next, so the sets of a smaller
\* cache divide those of a larger one.
ASSUME GrowthAssumption ==
  \A c, d \in Caches : c < d =>
    /\ Sizes[c] <= Sizes[d]
    /\ (Sizes[d] \div (DefaultAssoc * BlkSize)) % (Sizes[c] \div (DefaultAssoc * BlkSize)) = 0
ASSUME InputAssumption ==
  /\ Traces \subseteq Seq(Addr)
  /\ Arguments \subseteq Seq(Int)
  /\ Garbage \subseteq {l \in OurCacheLine : ~l.valid}

VARIABLES
  memoryTraces,  \* the trace, read whole before the loop
  i,             \* main()'s index into it
  cur,           \* the cache of the inner loop that is accessed next
  rp,            \* _rp, the same for every cache
  fullyAssoc,    \* the constructor's argument, the same for every cache
  lines,         \* lines[c][s][w]: way w of set s of cache c
  globalClock,   \* globalClock[c]: _globalClock of cache c
  numHits,
  numMisses

mode == <<memoryTraces, rp, fullyAssoc>>
vars == <<memoryTraces, i, cur, rp, fullyAssoc, lines, globalClock, numHits, numMisses>>

-----------------------------------------------------------------------------
(* Geometry of a cache and the place of an address in it.                  *)

NumSets(c) == IF fullyAssoc THEN 1 ELSE Sizes[c] \div (DefaultAssoc * BlkSize)
Assoc(c) == IF fullyAssoc THEN Sizes[c] \div BlkSize ELSE DefaultAssoc

Sets(c) == 0 .. NumSets(c) - 1
Ways(c) == 0 .. Assoc(c) - 1

findSet(c, addr) == (addr \div BlkSize) % NumSets(c)
getTag(c, addr) == addr \div (BlkSize * NumSets(c))

-----------------------------------------------------------------------------
(* OurCacheSet: the scans over the ways of a set stop at the first match.  *)

First(W) == CHOOSE w \in W : \A v \in W : w <= v

HitWays(c, s, tag) ==
  {w \in Ways(c) : lines[c][s][w].valid /\ lines[c][s][w].tag = tag}

InvalidWays(c, s) == {w \in Ways(c) : ~lines[c][s][w].valid}

\* A bug in OldestWays, the comparison turned round.
YoungestWays(c, s) ==
  {w \in Ways(c) : \A v \in Ways(c) : lines[c][s][w].timestamp >= lines[c][s][v].timestamp}

OldestWays(c, s) ==
  {w \in Ways(c) : \A v \in Ways(c) : lines[c][s][w].timestamp <= lines[c][s][v].timestamp}

\* A bug in ReplacementWays, the loop over invalid ways forgotten.
AllWays(c, s) == Ways(c)

\* The ways getReplacementWay may return.
ReplacementWays(c, s) ==
  IF InvalidWays(c, s) # {} THEN {First(InvalidWays(c, s))}
  ELSE IF rp = "LRU" THEN {First(OldestWays(c, s))}
  ELSE Ways(c)

\* A bug in Hit, the timestamp not updated: LRU becomes FIFO.
HitUntouched(c, addr) ==
  /\ HitWays(c, findSet(c, addr), getTag(c, addr)) # {}
  /\ numHits' = [numHits EXCEPT ![c] = @ + 1]
  /\ UNCHANGED <<lines, numMisses>>

\* OurCache::access when OurCacheSet::access returns true ...
Hit(c, addr) ==
  LET s == findSet(c, addr)
      ways == HitWays(c, s, getTag(c, addr))
  IN /\ ways # {}
     /\ lines' = [lines EXCEPT ![c][s][First(ways)].timestamp = globalClock[c]]
     /\ numHits' = [numHits EXCEPT ![c] = @ + 1]
     /\ UNCHANGED numMisses

\* ... and when it replaces a line and returns false.
Miss(c, addr) ==
  LET s == findSet(c, addr)
      tag == getTag(c, addr)
  IN /\ HitWays(c, s, tag) = {}
     /\ \E w \in ReplacementWays(c, s) :
          lines' = [lines EXCEPT ![c][s][w] =
                      [tag |-> tag, timestamp |-> globalClock[c], valid |-> TRUE]]
     /\ numMisses' = [numMisses EXCEPT ![c] = @ + 1]
     /\ UNCHANGED numHits

\* A bug in Access, the clock advanced by hits only.
AccessTicksOnHit(c, addr) ==
  \/ Hit(c, addr) /\ globalClock' = [globalClock EXCEPT ![c] = @ + 1]
  \/ Miss(c, addr) /\ UNCHANGED globalClock

Access(c, addr) ==
  /\ Hit(c, addr) \/ Miss(c, addr)
  /\ globalClock' = [globalClock EXCEPT ![c] = @ + 1]

-----------------------------------------------------------------------------
(* main().                                                                 *)

\* The lines of cache c as `new' leaves them: nothing but `valid' initialised.
NewCache(c) == [Sets(c) -> [Ways(c) -> Garbage]]

\* main() reads one switch for both choices.  Without it the policy keeps its
\* initial value, and fullyAssoc has none: it is what the stack held.
ReadsArgument(argv) ==
  /\ rp = IF argv # <<>> /\ argv[1] # 0 THEN "RANDOM" ELSE "LRU"
  /\ fullyAssoc \in IF argv = <<>> THEN BOOLEAN ELSE {argv[1] # 0}

Init ==
  /\ memoryTraces \in Traces
  /\ \E argv \in Arguments : ReadsArgument(argv)
  /\ i = 0
  /\ cur = 1
  /\ lines \in {h \in [Caches -> UNION {NewCache(c) : c \in Caches}] :
                 \A c \in Caches : h[c] \in NewCache(c)}
  /\ globalClock = [c \in Caches |-> 0]
  /\ numHits = [c \in Caches |-> 0]
  /\ numMisses = [c \in Caches |-> 0]

\* A bug in SimulateOne, the inner loop's cursor reset one cache too late.
SimulateOneTooFar ==
  /\ i < Len(memoryTraces)
  /\ Access(cur, memoryTraces[i + 1])
  /\ cur' = cur + 1
  /\ i' = IF cur = Len(Sizes) THEN i + 1 ELSE i
  /\ UNCHANGED mode

\* One turn of the inner loop: the next cache sees the current address.
SimulateOne ==
  /\ i < Len(memoryTraces)
  /\ Access(cur, memoryTraces[i + 1])
  /\ cur' = IF cur = Len(Sizes) THEN 1 ELSE cur + 1
  /\ i' = IF cur = Len(Sizes) THEN i + 1 ELSE i
  /\ UNCHANGED mode

Next == SimulateOne

Spec == Init /\ [][Next]_vars
-----------------------------------------------------------------------------
(* Properties.                                                             *)

\* Every variable has its type; the caches share the mode, not the geometry.
TypeOK ==
  /\ memoryTraces \in Traces
  /\ i \in 0 .. Len(memoryTraces)
  /\ cur \in Caches
  /\ rp \in ReplPolicy /\ fullyAssoc \in BOOLEAN
  /\ lines = [c \in Caches |-> lines[c]]
  /\ \A c \in Caches : lines[c] \in [Sets(c) -> [Ways(c) -> OurCacheLine]]
  /\ globalClock \in [Caches -> TimeStamp]
  /\ numHits \in [Caches -> Nat]
  /\ numMisses \in [Caches -> Nat]

\* The address that a cache's clock read t at.
AddrAt(t) == memoryTraces[t + 1]
BlockAt(t) == AddrAt(t) \div BlkSize

\* The clocks and counters follow the two loops of main(): the caches before
\* the inner loop's cursor are one access ahead of the others, every access was
\* counted once, and none was made beyond the end of the trace.
InStep ==
  \A c \in Caches :
    /\ globalClock[c] <= Len(memoryTraces)
    /\ globalClock[c] = i + (IF c < cur THEN 1 ELSE 0)
    /\ globalClock[c] = numHits[c] + numMisses[c]

\* A valid line stands for one block of memory: its timestamp is the time of
\* the last access to that block, whose set and tag are those of the line, and
\* no two lines of a set have the same timestamp.  So no block sits in a set
\* twice, whatever lay in the memory of the new lines, and two addresses share
\* a line only when they share a block.
LineHistory ==
  \A c \in Caches : \A s \in Sets(c) : \A w \in Ways(c) :
    LET l == lines[c][s][w] IN
    l.valid =>
      /\ l.timestamp < globalClock[c]
      /\ findSet(c, AddrAt(l.timestamp)) = s
      /\ getTag(c, AddrAt(l.timestamp)) = l.tag
      /\ \A t \in l.timestamp + 1 .. globalClock[c] - 1 : BlockAt(t) # BlockAt(l.timestamp)
      /\ \A v \in Ways(c) \ {w} :
           lines[c][s][v].valid => lines[c][s][v].timestamp # l.timestamp

\* Block b lies in cache c.
Resident(c, b) ==
  \E s \in Sets(c), w \in Ways(c) :
    lines[c][s][w].valid /\ lines[c][s][w].tag * NumSets(c) + s = b

\* Under LRU a block that was used and is no longer in the cache left a full
\* set behind, every line of which was used after it.
LruOrder ==
  rp = "LRU" =>
    \A c \in Caches : \A t \in 0 .. globalClock[c] - 1 :
      \/ Resident(c, BlockAt(t))
      \/ \A w \in Ways(c) :
           LET l == lines[c][findSet(c, AddrAt(t))][w]
           IN l.valid /\ l.timestamp > t

\* The number of blocks of set s that cache c has been asked for.
Footprint(c, s) ==
  Cardinality({BlockAt(t) : t \in {u \in 0 .. globalClock[c] - 1 : findSet(c, AddrAt(u)) = s}})

\* Under either policy nothing is evicted while the blocks of a set still fit
\* in its ways: such a set takes compulsory misses only.
NoEarlyEviction ==
  \A c \in Caches : \A t \in 0 .. globalClock[c] - 1 :
    Footprint(c, findSet(c, AddrAt(t))) <= Assoc(c) => Resident(c, BlockAt(t))

\* Under LRU a larger cache never does worse: whenever two caches have seen the
\* same accesses the larger one holds every block of the smaller, and at no
\* time, in the middle of an inner loop either, has it missed more often.
Inclusion ==
  rp = "LRU" =>
    \A c, d \in Caches : c < d =>
      /\ globalClock[c] = globalClock[d] =>
           \A t \in 0 .. globalClock[c] - 1 :
             Resident(c, BlockAt(t)) => Resident(d, BlockAt(t))
      /\ numMisses[d] <= numMisses[c]

\* The LRU caches implement stack distances: each access hits exactly when the
\* trace says that a cache of that geometry should.  Caches that replace at
\* random are shown to the abstract specification as idle.
Shown(count) == IF rp = "LRU" THEN count ELSE [c \in Caches |-> 0]
Abstract == INSTANCE StackDistance WITH
  position <- Shown(globalClock),
  numHits <- Shown(numHits),
  numMisses <- Shown(numMisses),
  numSets <- [c \in Caches |-> NumSets(c)],
  assoc <- [c \in Caches |-> Assoc(c)]
ImplementsStackDistance == Abstract!Spec
=============================================================================
