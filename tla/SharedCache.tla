---------------------------- MODULE SharedCache -----------------------------
(***************************************************************************)
(* What happens in the shared cache when the programs of the repository    *)
(* run on it: the microbenchmark icar.cc as the target, and the loops of   *)
(* CachePirate::pirate, of forkTest.cc beside the target and of            *)
(* cachePirate.cc on their own.  The cache is external: sets with LRU      *)
(* replacement, as the repository simulates it, of the geometry that the   *)
(* pirates are constructed with.  The mappings are contiguous (huge pages) *)
(* and begin at a multiple of the pirates' way size.                       *)
(***************************************************************************)
EXTENDS Integers, Sequences, FiniteSets, SequencesExt

CONSTANTS
  blkSize,                \* bytes of a cache line
  cacheSize, cacheAssoc,  \* the arguments of CachePirate, and the cache
  pirateMapped,           \* bytes of a pirate's mapping
  full_size, part_size, stride, work_iteration, arrayMapped,   \* of icar.cc
  Experiments             \* what may be run

waySize == cacheSize \div cacheAssoc
Sets == 0 .. waySize \div blkSize - 1

\* forkTest runs its pirates in a team of one or two threads; cachePirate has
\* one pirate and no target.
Experiment == [program : {"forkTest", "cachePirate"}, team : 1 .. 2, stealWayNum : Nat]

ASSUME SharedCacheAssumption ==
  /\ {blkSize, cacheAssoc, full_size, part_size, stride} \subseteq Nat \ {0}
  /\ {cacheSize, pirateMapped, arrayMapped, work_iteration} \subseteq Nat
  /\ blkSize = 2 * stride                       \* `2 elements used per line'
  /\ waySize > 0 /\ waySize % blkSize = 0 /\ waySize * cacheAssoc = cacheSize
  /\ full_size % (4 * stride) = 0 /\ part_size % (4 * stride) = 0
  /\ part_size <= full_size
  /\ Experiments \subseteq Experiment

VARIABLES
  experiment,
  row, way,            \* i and j of each pirate
  iteration, i, access,   \* of icar: its loops, and which of the four accesses of
                          \* a turn is next
  recency              \* of each set: the lines used, the last one first

pirateVars == <<row, way>>
icarVars == <<iteration, i, access>>
vars == <<experiment, pirateVars, icarVars, recency>>

Pirates == 0 .. 1
Target == 2

-----------------------------------------------------------------------------
(* The cache.  A line is named by whose mapping it is in and its number.   *)

Line(owner, offset) == [owner |-> owner, number |-> offset \div blkSize]
SetOf(line) == line.number % (waySize \div blkSize)

\* The cache holds the cacheAssoc lines of a set that were used last.
Use(line) ==
  recency' = [recency EXCEPT ![SetOf(line)] = <<line>> \o RemoveFirst(@, line)]

Used(line) == Contains(recency[SetOf(line)], line)

\* The lines of a set used after `line'.
Ahead(order, line) ==
  {order[a] : a \in {k \in DOMAIN order : \E b \in DOMAIN order : k < b /\ order[b] = line}}

After(line) == Ahead(recency[SetOf(line)], line)

Resident(line) == Used(line) /\ Cardinality(After(line)) < cacheAssoc

Init ==
  /\ experiment \in Experiments
  /\ row = [p \in Pirates |-> 0] /\ way = [p \in Pirates |-> 0]
  /\ iteration = 0 /\ i = 0 /\ access = 1
  /\ recency = [s \in Sets |-> <<>>]

-----------------------------------------------------------------------------
(* CachePirate::pirate, called again and again.                            *)

\* A bug in waysToSteal, each of the two pirates asked for all ways.
AllWaysEach == experiment.stealWayNum

waysToSteal ==
  IF experiment.program = "forkTest" THEN experiment.stealWayNum \div 2
  ELSE experiment.stealWayNum

Running == 0 .. experiment.team - 1

\* A bug in Asserted, the assertion left out.
NotAsserted == TRUE

Asserted == waysToSteal <= cacheAssoc

\* A bug in dataIndex, the lines of a pirate next to each other.
Neighbours(p) == row[p] + way[p] * blkSize

dataIndex(p) == row[p] + way[p] * waySize

Steal(p) ==
  /\ p \in Running
  /\ Asserted
  /\ way[p] < waysToSteal
  /\ Use(Line(p, dataIndex(p)))
  /\ IF way[p] + 1 < waysToSteal
     THEN way' = [way EXCEPT ![p] = @ + 1] /\ UNCHANGED row
     ELSE /\ way' = [way EXCEPT ![p] = 0]
          /\ row' = [row EXCEPT ![p] = IF @ + blkSize < waySize THEN @ + blkSize ELSE 0]
  /\ UNCHANGED <<experiment, icarVars>>

-----------------------------------------------------------------------------
(* The loops of icar.cc.                                                   *)

\* A bug in arrayIndex, the part not wrapped.
PartNotWrapped == i + (access - 1) * stride

\* The elements of a turn: two of line i, and two of the line after the one at
\* the same place of the part.
arrayIndex ==
  CASE access = 1 -> i
    [] access = 2 -> i + stride
    [] access = 3 -> (i % part_size) + 2 * stride
    [] access = 4 -> (i % part_size) + 3 * stride

Icar ==
  /\ experiment.program = "forkTest"
  /\ iteration < work_iteration
  /\ Use(Line(Target, arrayIndex))
  /\ access' = (access % 4) + 1
  /\ i' = IF access < 4 THEN i ELSE (i + 4 * stride) % full_size
  /\ iteration' = IF access = 4 /\ i' = 0 THEN iteration + 1 ELSE iteration
  /\ UNCHANGED <<experiment, pirateVars>>

Next == Icar \/ \E p \in Pirates : Steal(p)

Spec == Init /\ [][Next]_vars
-----------------------------------------------------------------------------
(* Properties.                                                             *)

IcarRuns == experiment.program = "forkTest" /\ iteration < work_iteration

\* No access of a pirate or of icar goes beyond its mapping: the assertion of
\* pirate() is needed for that, and the mappings are not larger than needed.
WithinMappings ==
  /\ \A p \in Running : dataIndex(p) < pirateMapped
  /\ IcarRuns => arrayIndex < arrayMapped

\* The pirates leave the target the ways that were not asked for: whatever the
\* interleaving, a line of the target stays in the cache until the target has
\* used as many other lines of its set.
TargetGetsRest ==
  \A s \in Sets : \A k \in DOMAIN recency[s] :
    LET line == recency[s][k]
    IN /\ line.owner = Target
       /\ Cardinality({x \in After(line) : x.owner = Target}) + experiment.stealWayNum
            < cacheAssoc
       => Resident(line)

\* The lines that pirate p is to keep in set s, the first one of a pass first.
Loot(p, s) == [k \in 1 .. waysToSteal |-> Line(p, s * blkSize + (k - 1) * waySize)]

\* Pirate p is not on its way through set s, where it was before.
Passed(p, s) ==
  /\ Used(Loot(p, s)[1])
  /\ row[p] = s * blkSize => way[p] = 0

\* What is stolen is stolen: as long as the target has used no more lines of a
\* set than it is left with since the pirates' last pass through the set, each
\* pirate has its share of the ways there, and the target cannot have them.
PiratesHold ==
  waysToSteal > 0 /\ waysToSteal * experiment.team <= cacheAssoc =>
    \A s \in Sets :
      (\A p \in Running :
         /\ Passed(p, s)
         /\ Cardinality({x \in After(Loot(p, s)[1]) : x.owner = Target})
              <= cacheAssoc - waysToSteal * experiment.team)
      => \A p \in Running : \A k \in 1 .. waysToSteal : Resident(Loot(p, s)[k])

\* icar's lines: those of the full iteration, and those of the part.
Turns == {t \in 0 .. full_size - 1 : t % (4 * stride) = 0}
FullLines(s) == {Line(Target, t) : t \in {u \in Turns : SetOf(Line(Target, u)) = s}}
PartLines(s) ==
  {x \in {Line(Target, t + 2 * stride) : t \in {u \in Turns : u < part_size}} : SetOf(x) = s}

\* Lines of the full iteration in set s between two uses of a line of the part.
Passing(s) ==
  {Line(Target, t) : t \in {u \in Turns : u < part_size /\ SetOf(Line(Target, u)) = s}}

\* What icar is made for.  The second element of a line always hits.  The first
\* one of a line of the part hits whenever it was used before, provided that the
\* part fits into the ways the pirates leave; and that of a line of the full
\* iteration always misses, provided that the iteration does not fit at all.
WorkingSets ==
  IcarRuns /\ experiment.stealWayNum < cacheAssoc =>
    LET line == Line(Target, arrayIndex)
        s == SetOf(line)
    IN /\ access \in {2, 4} => Resident(line)
       /\ /\ access = 3 /\ Used(line)
          /\ Cardinality(PartLines(s) \union Passing(s)) + experiment.stealWayNum <= cacheAssoc
          => Resident(line)
       /\ access = 1 /\ Cardinality(FullLines(s) \union PartLines(s)) > cacheAssoc
          => ~Resident(line)
=============================================================================
