--------------------------- MODULE PinCacheTracer ---------------------------
(***************************************************************************)
(* The Pin tool that simulates caches while the guest runs,                *)
(* pin-cache-tracer: the instrumentation and the ROI of PinTracer, with a  *)
(* RecordMem that accesses a bank of LRU caches instead of keeping the     *)
(* address.  Its OurCache is the class of cacheSimulator.cc with LRU and   *)
(* set association only; `traces' becomes what the caches were fed with.   *)
(***************************************************************************)
EXTENDS PinTracer

CONSTANTS BlkSize, SetWays, Sizes, Garbage   \* as in OurCache

VARIABLES lines, globalClock, numHits, numMisses   \* as in OurCache

cacheVars == <<lines, globalClock, numHits, numMisses>>

OurCache == INSTANCE OurCache WITH
  DefaultAssoc <- SetWays, Traces <- {}, Arguments <- {<<0>>},
  memoryTraces <- traces, i <- accessCount, cur <- 1, rp <- "LRU", fullyAssoc <- FALSE

caches == 1 .. Len(Sizes)

ASSUME CacheAssumption ==
  /\ BlkSize \in Nat \ {0} /\ SetWays \in Nat \ {0} /\ Sizes \in Seq(Nat)
  /\ \A c \in caches : Sizes[c] \div (SetWays * BlkSize) > 0
  /\ Garbage \subseteq {l \in OurCache!OurCacheLine : ~l.valid}

CacheInit ==
  /\ Init
  /\ lines \in {h \in [caches -> UNION {OurCache!NewCache(c) : c \in caches}] :
                 \A c \in caches : h[c] \in OurCache!NewCache(c)}
  /\ globalClock = [c \in caches |-> 0]
  /\ numHits = [c \in caches |-> 0]
  /\ numMisses = [c \in caches |-> 0]

-----------------------------------------------------------------------------

\* A bug in getReplacementWay, minWay never assigned.
FirstWay(c, s) ==
  LET invalid == OurCache!InvalidWays(c, s)
  IN OurCache!First(IF invalid # {} THEN invalid ELSE OurCache!Ways(c))

\* The first invalid way, or else the first of those with the least timestamp.
getReplacementWay(c, s) ==
  LET invalid == OurCache!InvalidWays(c, s)
  IN OurCache!First(IF invalid # {} THEN invalid ELSE OurCache!OldestWays(c, s))

HitIn(c, addr) == OurCache!HitWays(c, OurCache!findSet(c, addr), OurCache!getTag(c, addr))

\* OurCacheSet::access, as the lines of cache c that it leaves behind.
LinesAfter(c, addr) ==
  LET s == OurCache!findSet(c, addr)
      way == IF HitIn(c, addr) # {} THEN OurCache!First(HitIn(c, addr))
             ELSE getReplacementWay(c, s)
  IN [lines[c] EXCEPT ![s][way] = [tag |-> OurCache!getTag(c, addr),
                                   timestamp |-> globalClock[c], valid |-> TRUE]]

\* The loop of RecordMem below the limit: every cache sees the address.
AccessCaches(addr) ==
  /\ lines' = [c \in caches |-> LinesAfter(c, addr)]
  /\ numHits' = [c \in caches |-> numHits[c] + IF HitIn(c, addr) # {} THEN 1 ELSE 0]
  /\ numMisses' = [c \in caches |-> numMisses[c] + IF HitIn(c, addr) = {} THEN 1 ELSE 0]
  /\ globalClock' = [c \in caches |-> globalClock[c] + 1]

CacheMemoryAccess(addr) ==
  /\ MemoryAccess(addr)
  /\ IF accessCount' # accessCount THEN AccessCaches(addr) ELSE UNCHANGED cacheVars

CacheNext ==
  \/ \E u \in Units : Enter(u) /\ UNCHANGED cacheVars
  \/ \E addr \in Addrs : CacheMemoryAccess(addr)
  \/ Docount /\ UNCHANGED cacheVars
  \/ startROI /\ UNCHANGED cacheVars
  \/ stopROI /\ UNCHANGED cacheVars
  \/ GuestExit /\ UNCHANGED cacheVars
  \/ Fini /\ UNCHANGED cacheVars

CacheSpec == CacheInit /\ [][CacheNext]_<<vars, cacheVars>>
-----------------------------------------------------------------------------
(* Properties.                                                             *)

StackDistance == INSTANCE StackDistance WITH
  Caches <- caches, memoryTraces <- traces, position <- globalClock,
  numSets <- [c \in caches |-> OurCache!NumSets(c)],
  assoc <- [c \in caches |-> OurCache!Assoc(c)]

\* The tool that simulates while it traces prints the numbers that the offline
\* simulator would find in the trace that the other tool records: as many hits
\* as the stack distances of the recorded accesses allow, and no more.
OnlineMatchesOffline ==
  \A c \in caches :
    /\ numHits[c] = Cardinality({t \in 0 .. Len(traces) - 1 : StackDistance!WithinReach(c, t)})
    /\ numHits[c] + numMisses[c] = accessCount
=============================================================================
