--------------------------- MODULE StackDistance ---------------------------
(***************************************************************************)
(* What a bank of LRU caches promises, with no cache in it.  A cache with  *)
(* assoc ways per set hits on an access exactly when the block was used    *)
(* before and fewer than assoc other blocks of its set were used since:    *)
(* the access's stack distance is below the associativity.                 *)
(***************************************************************************)
EXTENDS Integers, Sequences, FiniteSets

CONSTANTS
  BlkSize,    \* bytes of a cache line
  Caches      \* the caches fed with the trace

VARIABLES
  memoryTraces,  \* the addresses, in the order in which they are accessed
  numSets,       \* numSets[c]: the sets of cache c
  assoc,         \* assoc[c]: the lines of each of its sets
  position,      \* position[c]: the accesses cache c has performed
  numHits,
  numMisses

vars == <<memoryTraces, numSets, assoc, position, numHits, numMisses>>

\* The block accessed at time t (times count from 0).
BlockAt(t) == memoryTraces[t + 1] \div BlkSize

SetAt(c, t) == BlockAt(t) % numSets[c]

\* The other blocks of the set of access t of cache c that were used after time u.
UsedSince(c, u, t) ==
  {BlockAt(v) : v \in {x \in u + 1 .. t - 1 : SetAt(c, x) = SetAt(c, t)}}

\* Access t finds its block: some earlier use of the block has only a few
\* other blocks of the set after it.
WithinReach(c, t) ==
  \E u \in 0 .. t - 1 :
    /\ BlockAt(u) = BlockAt(t)
    /\ Cardinality(UsedSince(c, u, t) \ {BlockAt(t)}) < assoc[c]

Init ==
  /\ position = [c \in Caches |-> 0]
  /\ numHits = [c \in Caches |-> 0]
  /\ numMisses = [c \in Caches |-> 0]

Access(c) ==
  /\ position[c] < Len(memoryTraces)
  /\ position' = [position EXCEPT ![c] = @ + 1]
  /\ \/ /\ WithinReach(c, position[c])
        /\ numHits' = [numHits EXCEPT ![c] = @ + 1]
        /\ UNCHANGED numMisses
     \/ /\ ~WithinReach(c, position[c])
        /\ numMisses' = [numMisses EXCEPT ![c] = @ + 1]
        /\ UNCHANGED numHits
  /\ UNCHANGED <<memoryTraces, numSets, assoc>>

Next == \E c \in Caches : Access(c)

Spec == Init /\ [][Next]_vars
=============================================================================
