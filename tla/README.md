# A verification project for ICAR2022

The repository measures how the miss ratio of a program depends on the size of
the cache, in four ways: it *traces* the program's memory accesses (two Pin
tools and an LLVM pass), *simulates* a bank of caches on the trace, *estimates*
the ratios from the trace's reuse distances (StatCache), and *steals* cache
from the running program (Cache Pirate).  This directory holds TLA+ models of
the programs, TLC configurations that check them on small instances, and
theorems about them that TLAPS checks for all instances.

## 1. Inventory

| Part | Source | State | Operations | Module |
|---|---|---|---|---|
| cache simulator | `cache_simulator/cacheSimulator.cc` | lines (tag, timestamp, valid), clock, hit and miss counters of each cache; the loops of `main` | `OurCacheSet::access`, `getReplacementWay`, `OurCache::access`, construction, `main` | `OurCache` |
| statistical model | `cache_simulator/statCache.cc` | histograms, last uses, cold misses and lengths of the chunks; slot bounds; iterates | `sampleTrace`, `clearStats`, `runTimeStatsFull`, `postProcessing` with `solve` and `f`, `main` | `StatCache` |
| trace reader, random numbers | `gzipToTrace.h`, `our_utils.h` | none | `convertGZip2MemoryTraces`, `getRandInt` | `TracePipe`; choices in the two above |
| Pin memory tracer | `pin-memory-tracer/memory_tracer.cpp` | `isROI`, `count`, `accessCount`, `roiInstCount`, `traces`; what each piece of code was compiled with | `Instruction`, `RecordMem`, `docount`, `startROI`, `stopROI`, `Fini` | `PinTracer`, `TracePipe` |
| trace pipe | `pin-memory-tracer/run.sh` | the bytes in the pipe and in the file | the shell's pipeline | `TracePipe` (composes `PinTracer`) |
| Pin cache tracer | `pin-cache-tracer/memory_tracer.cpp` | the same with caches in the place of `traces` | the same | `PinCacheTracer` (composes `PinTracer`, `OurCache`, `StackDistance`) |
| LLVM tracer | `llvm-memory-tracer/.../Utils/MemoryTracer.cpp` | the IR of each block; in the program it makes: `counterVariable`, `memoryInstcounterVariable` | four loops of `run`, generated `memory_trace` | `LlvmTracer` |
| cache pirate | `cache_pirate/forkTest.cc` | three processes, their pids, PCM counters | `main` of parent, target and pirate | `ForkTest` |
| stand-alone pirate | `cache_pirate/cachePirate.cc` | the indices of `pirate` | `CachePirate::pirate`, `main` | `SharedCache` |
| perf counters | `cache_pirate/chp_perf.h` | the group of events, clock readings, accumulated counts | `init_perf`, `init_counters`, `reset_counter`, `start_counter`, `stop_counter`, `read_counter` | `PerfCounters` |
| microbenchmark | `microbenchmark/icar.cc` | the loop indices | `main` | `SharedCache` |
| scripts, vendored LLVM files | `rackham-scripts/`, `PassBuilder.cpp`, `PassRegistry.def` | none | - | not modelled |

How they interact: a tracer writes 8-byte addresses to `stderr`; the shell
swaps the streams and compresses them; the simulators read the file whole.  A
guest of the Pin tools marks its region of interest (ROI) by calls of
`PIN_Start` and `PIN_Stop`, which the tools replace by their own routines.  The
pirate shares nothing with its parent and the target but the cache, the process
table and the counters.

What is hard to get right, and hard to test (`PROJECT.json` lists every case at
its line):

* **order of use** - replacement decisions depend on the whole history of a
  set, through timestamps, and start from uninitialised lines;
* **time of a decision** - the Pin tools test the ROI flag when code is
  compiled, not when it runs;
* **rewriting** - four loops of the LLVM pass insert code that the next ones
  walk over;
* **numbers** - 32-bit slot bounds over a 64-bit size, unsigned differences,
  an unbounded floating-point iteration, limits at which a trace ends;
* **protocols** - counters that are reset, started, stopped and read by a caller
  who is told no order;
* **sharing** - two pirate threads and the target in the sets of one cache, with
  nothing that orders their accesses;
* **a byte stream** - two writers on one `stderr`, and a reader that takes every
  eight bytes for an address;
* **processes** - forks whose failures are not looked at, a target that runs
  before it is measured, a wait that ends early, a pirate that must be killed.

For each part, what makes it correct: the simulator's caches are LRU (or random)
caches of their geometry; the statistical model sees the reuse distances of the
trace and its iteration ends; a tracer records the accesses of the ROI, in
order, once, up to the limit, and they reach the simulators; a pirate keeps the
ways it steals and the target the others; the pirate's parent measures the target to its end
and leaves no process behind and no other process harmed.

## 2. Modules

* **`StackDistance`** - the abstract specification of a bank of LRU caches
  without a cache in it: an access hits iff its block was used before and fewer
  than `assoc` other blocks of its set were used since.
* **`OurCache`** - the simulator.  One step (`SimulateOne`) is one turn of the
  inner loop of `main`: one cache sees the current address.  `Hit` and `Miss`
  are the two outcomes of `OurCacheSet::access`; the scans over ways become sets
  (`HitWays`, `InvalidWays`, `OldestWays`) of which the first element counts.  A
  new line's tag and timestamp are arbitrary (`Garbage`).  `ReadsArgument` is what
  `main` makes of its optional argument: without one `fullyAssoc` is arbitrary,
  for line 171 gives it no value.  Addresses and times
  are natural numbers; 2^64 accesses do not happen.
* **`StatCache`** - one action per loop turn: `Sample`, `StartSlot`, `Monitor`,
  `EndSlot`, `Iterate`, ...  `unsigned` is arithmetic modulo `Modulus`; a read
  behind the trace yields an address of `Beyond`; ratios are multiples of
  `1 / Scale`, a quotient by zero is `NaN`, and `pow` is exact at whole
  exponents but for rounding and linear between them.  The history variables
  `starts` and `ratios` keep where each chunk begins and the miss ratios that each
  total is made of.
* **`PinTracer`** - the guest is a set of code units that Pin compiles when they
  are first entered (`Enter`); `Instruction` is evaluated then and kept in
  `compiled`.  `MemoryAccess` (with `Record` or `LimitReached`), `Docount`,
  `startROI`, `stopROI`, `Fini` follow the source.  History variables record what
  the guest really did (`wanted` is the accesses of the ROI, `roiExecuted` its
  instructions, `strayed` those of the code first met there, `metInRoi`, that run
  outside of it), and `MaxInstructions`
  bounds it: it enters no unit that would take it beyond.  A syscall has no
  operand in memory.
* **`TracePipe`** - `PinTracer` and what comes behind it: the guest's own writes
  to `stderr` (`GuestWrites`), `Fini` with its dump (`Dump`), a `SIGKILL`
  (`Killed`, which may cut the dump at any byte), `Gzip` at the end of its input
  and the reader.  A byte is a pair of the address it belongs to and its place
  in it, so that a word is an address only if it consists of the bytes of one
  recorded access, in order; any other word is `Mixed`.
* **`PinCacheTracer`** - `PinTracer` whose `RecordMem` drives a bank of caches
  that are `OurCache`'s, held against `StackDistance` on the accesses recorded.
* **`LlvmTracer`** - the pass's four loops as four actions on the blocks of a
  program (`PrintAtReturn`, `ExpandConstants`, `CountInstructions`,
  `TraceGeps`), opt's `Verify`, and then the instrumented program, instruction by
  instruction.  Load, add and store of the counter are one item, for nothing is
  inserted between them and the program is one thread.
* **`ForkTest`** - parent, target and pirate, and signals from outside.  A
  reading of the system's counters returns the events of the target so far (`work`),
  one of the cores' those on the four cores that are read (`coreWork`, which differs
  when the target's `sched_setaffinity` failed).  Each CachePirate's mapping may fail
  on its own (`mapped`); a process dies some time after `kill` (`PirateDies`,
  `TargetDies`).
* **`SharedCache`** - the loops of `CachePirate::pirate` (`Steal`) and of `icar.cc`
  (`Icar`), one access a step, on an external cache of LRU sets that keeps the
  order of use of all lines (`recency`; `Ahead` is the lines used after one): the
  first `cacheAssoc` of a set are resident.  `forkTest`'s pirates are a team of
  one or two beside `icar`, `cachePirate` is alone.  The pirates' passes are
  endless, as in `forkTest`; `cachePirate` stops after 10000.
* **`PerfCounters`** - a caller that makes the header's calls in any order, and
  the kernel's group of events.  The process executes user code at any time
  (`Compute`), also inside `start_counter` and `stop_counter`, which are two
  steps each: a request to the group and a reading of the clock.  The five
  unrolled copies in `init_perf` and `read_counter` are one action over the
  events; `FailedRead` is the same function on a buffer that `read()` has not
  filled.  The history variables `reads` and `total` count the reads added to
  `vals` and sum up what each event had at them.
* **`CacheArithmetic`** - lemmas about quotients, remainders, least elements and
  the counting of images, for the proofs of several components.
* **`OurCacheProofs`**, **`StatCacheProofs`**, **`PinTracerProofs`** (of
  `TracePipe` and `PinCacheTracer` too), **`LlvmTracerProofs`**,
  **`PerfCountersProofs`**, **`SharedCacheProofs`**, **`ForkTestProofs`** - the
  theorems of section 4.

`MC*` modules give the constants values.  Definitions introduced by the words
"a bug in" are the mutants that the properties are tried on: the definition
below each is replaced by it, and the property must fail.

## 3. Runs

| Run | Checks | Shows |
|---|---|---|
| `OurCache` | `TypeOK`, `InStep`, `LineHistory`, `LruOrder`, `NoEarlyEviction`, `Inclusion`, `ImplementsStackDistance` | all traces of 6 accesses to 5 blocks, three geometries, with the switch on, off and missing |
| `StatCache` | `HistogramExact`, `DivisorCountsReuses`, `LargerCacheNoWorse`, `OneDirection`, `SolvesReuse`, `SampleSpread`, `SlotsPartition`, `LastSlotLarge`, `SlotsEnd` | all traces of up to 6 accesses to 3 blocks, slots of 2, 3 or all; lengths up to 20 under a 4-bit `unsigned`, 6 slot lengths; samples |
| `TracePipe` | `TypeOK`, `RoiExact`, `RoiCount`, `AllOrNothing`, `TraceArrives` | guests whose units keep to one side of the ROI, their own output on `stderr`, and a `SIGKILL` at any time |
| `PinCacheTracer` | `OnlineMatchesOffline` | the composition, with the access limit met |
| `LlvmTracer` | `ProgramKept`, `PhisFirst`, `TraceExact`, `CountExact` | all programs of two small blocks |
| `ForkTestFaults` | `TypeOK`, `MeasuresToTheEnd`, `WindowsOverlap`, `KillsPirateOnly`, `ParentReturns`, `PirateGone`, `BothSteal` | failing forks, stops, missing huge pages for either CachePirate, a target that is not pinned, teams of one and two |
| `PerfCounters` | `Aggregates`, `NothingTwice`, `CountsCoverTime` | groups of one and two events, three asked for, calls in every order, reads that fail |
| `SharedCache` | `WithinMappings`, `TargetGetsRest`, `PiratesHold`, `WorkingSets` | pirates for up to all ways and beyond, and icar, in every interleaving |
| `StatCacheNoReuse` | `Returns` violated | a chunk without a reuse makes `postProcessing` loop for ever |
| `PinTracerShared` | `RoiExact` violated | code shared by the ROI and the rest is recorded as its first execution was |
| `ForkTestKill` | `KillsNobodyElse` violated | a failed second fork turns into `kill(-1, SIGKILL)` |

### Conditions under which the properties hold

The passing properties name the conditions that the code needs, and TLC finds
each of them violated without its condition:

* `SlotsPartition`, `LastSlotLarge`, `SlotsEnd` and `HistogramExact` need `Fits`: the
  trace ends more than half a slot before 2^32 entries.  The bound is exact: the run's
  traces go beyond it, and with one entry more in `Fits` the loop of
  `statCache.cc:234-247` is seen to wrap.
* `SolvesReuse` needs a reuse in every chunk.
* `LargerCacheNoWorse` needs iterations that have come to their solution.  `eps`
  (`statCache.cc:178-180`) ends each at the first step shorter than 0.0001, which may
  be far from it, and for two sizes at different distances: a chunk with the
  reuse distances 2, 3 and 6, once each, is reported with a ratio of 1.8e-6 in a
  cache of 30 lines and of 1.03e-5 in one of 32, in doubles.  The run has such traces
  too (`<<0, 2, 4, 4, 0, 2>>` in caches of 4 and 5 lines), and the property says that
  nothing else makes a larger cache worse.
* `RoiExact` needs a guest whose units keep to one side of the ROI's border.
* `RoiCount` needs the same.
* `MeasuresToTheEnd`, `PirateGone`, `KillsPirateOnly` need two successful forks, the
  first also a target that nobody stops.  Its part about the living pirate needs one
  that is `AbleToSteal`: a pirate whose way number is rejected or whose mapping failed
  dies at once, and the experiment reports a measurement without piracy. `ParentReturns`
  needs the first fork.  (A failed first fork leaves the parent in `waitpid(-1)`,
  waiting for the endless pirate.)
* `BothSteal` needs a pirate that is `AbleToSteal`, and a team of two for the second
  CachePirate, which only `OMP_NUM_THREADS` provides although `forkTest.cc:152` says
  "Hard-coded 2 threads"; with one thread the second never runs.
* That the core counters account for all of the target, as the last line of
  `WindowsOverlap` has it, needs a target whose `sched_setaffinity` succeeded
  (`pinned`); a failure is only printed (`forkTest.cc:99-102`).
* A stopped target ends the wait (`WUNTRACED`): the pirate is then killed, and
  the message "Child returned" (`forkTest.cc:187`) printed, while the target has
  work left.  `MeasuresToTheEnd` and `WindowsOverlap` exclude stops.
* `NothingTwice` needs a caller that resets between two reads, and
  `CountsCoverTime` one whose last start and stop belong together.
* `Aggregates` and `NothingTwice` need counters that no failed read has spoilt:
  the message "Error reading perf file" (`chp_perf.h:257`) is all that it changes,
  and only `init_counters` makes the counts right again.
* `AllOrNothing` needs a guest that writes a whole number of words to `stderr`,
  or else gives nothing but words that no access has.  Even then the guest's words
  stand in front of the trace and are simulated as addresses.  `TraceArrives`
  excludes the recorded accesses of a guest that gets a `SIGKILL`: until `Fini` they are in
  memory only.
* `PiratesHold` needs a target that uses no more lines of a set, between two
  passes of the pirates, than the ways it is left with; the pirates have nothing
  else to hold their lines by.  `WorkingSets` needs a part that fits into the
  remaining ways, which in the run it just does, and a full iteration that does
  not fit at all.
* `PhisFirst` needs PHI nodes without constant GEP operands.

Further differences between comments or messages and code, kept in the models but not
the subject of a run of their own: `docount` is not called before every instruction
(`pin-memory-tracer/memory_tracer.cpp:79`), but neither before syscalls nor before code
compiled outside the ROI; it *is* called for code of the ROI that runs after `PIN_Stop`,
by which the "ROI Instruction Count" is too high, and by nothing else (`RoiCount`); a
guest that ends during the skip is reported with almost 2^64 of them; `solve`
(`statCache.cc:61`) subtracts the cold misses where the comment above it says that the
"correct way is to add cold misses"; `clearStats` leaves `_numInst` behind (harmless:
`main` calls it once); the LLVM tracer's "Total number of executed instructions" leaves
out PHI nodes and ends of blocks and includes its own GEPs; `icar.cc:27` calls 2048 *
1024 "A partial-iteration of 128 KB".  (With the 8 MB and 16 ways of the pirates icar's
full iteration has 64 lines in each even set and its part 4 in each odd one: the two
never compete, and the part fits as long as the pirates take no more than 12 ways.)  An
odd `stealWayNum` steals one way less than it says (`forkTest.cc:163`).  Copies of
`OurCache` when the vector of caches grows share `_sets`, harmless as long as the
destructor frees nothing.

### Bounds

* Caches: lines of 2 bytes, 2 ways, 1, 2 and 4 sets (2, 4 and 8 ways when fully
  associative).  Three blocks meet in a set of each set-associative cache and
  five in the fully associative one of 4 ways, so that every size but the
  largest evicts; six accesses suffice to fill, evict, return.
* `StatCache`: `Scale = 1000` and `Eps = 4` stand for doubles and 0.0001; caches of 2,
  4, 5 and 8 lines, of which some pairs are reported the wrong way round.  4 bits of
  `unsigned` against traces of up to 20 entries put the wrap within reach.  Nothing but
  `nextSlotStart`, one of 16 numbers, goes from one turn of the slot loop to the next,
  so that a loop of more turns is endless, and `MaxChunks = 17` stops only such loops.
  Blocks are used for the first time in the order of their numbers (`FirstUsesInOrder`):
  traces that differ in the names of the blocks only have the same distances.  Samples
  are taken of traces of up to 20 equal entries, and of up to 8 different ones where
  their positions matter, with slots of 3 or all.
* Pin: `SKIP_INST_LIMIT` and `ACCESS_LIMIT` of 3 are met from both sides within
  `MaxInstructions = 6`; `Modulus = 32` stands for 2^64.  Words of 2 bytes and up to
  2 bytes of the guest's (`MaxGuestBytes`) give no word, a broken one and a whole one.
* `SharedCache`: 2 sets of 4 ways and lines of 2 bytes; icar's full iteration has
  6 lines, all in set 0, its part 2, in set 1, and `work_iteration = 2` uses all of
  them again.  Two pirates steal no way or one each (or fail their assertion), one
  alone up to all four.  (Two pirates with two ways each and one iteration of icar
  were checked as well, in 5 million states, too many for a regular run.)
* LLVM: a skip of 1 and a limit of 2 addresses within `MaxExecuted = 6`.
* `PerfCounters`: room for 2 events and up to 3 asked for; 2 steps of work, 4
  calls without a reset (init, start, stop, read) and 2 accumulated reads; one
  failed read between two `init_counters`, with one garbage buffer.
* `ForkTest`: 3 events of work separate all readings; `MaxStops = 2` stops; way
  numbers that are even, odd, 1 (which steals nothing) and rejected.

### Fairness

`StatCache` is one thread that no step of its own can block: `WF(Next)`.  In `ForkTest`
parent, target, dying pirate and each OpenMP thread are scheduled by the kernel, which
lets no runnable process starve on whichever core: one `WF` each; no signal is ever
owed, so a stopped target may stay stopped.  In `TracePipe` what has begun to end goes
on: `WF` of `Dump`, of `Gzip` once its input has ended, and of the simulator that is
started on the file; nothing makes the guest end.  Deadlock is not checked where a
program simply ends.

## 4. Proofs

Each theorem holds for all values of the constants that satisfy the named
assumptions of its module (`GeometryAssumption`, `GrowthAssumption`,
`InputAssumption`, `StatCacheAssumption`, `PinAssumption`, `PipeAssumption`,
`CacheAssumption`, `LlvmAssumption`, `PerfAssumption`, `SharedCacheAssumption`,
`ForkTestAssumption`), and for no bound of section 3 but
those that a constant gives.

| Module | Theorem | States | Further hypothesis |
|---|---|---|---|
| `OurCacheProofs` | `TypeCorrect`, `InStepCorrect`, `LineHistoryCorrect`, `LruOrderCorrect` | `[]TypeOK`, `[]InStep`, `[]LineHistory`, `[]LruOrder` | |
| | `Refinement` | `ImplementsStackDistance` | |
| | `InclusionCorrect` (with `MissOrderCorrect`) | `[]Inclusion` | |
| | `NoEarlyEvictionCorrect` (with `FoundWhileFitsCorrect`) | `[]NoEarlyEviction` | |
| `StatCacheProofs` | `SampleSpreadCorrect`, `SlotsPartitionCorrect`, `LastSlotLargeCorrect` | `[]SampleSpread`, `[]SlotsPartition`, `[]LastSlotLarge` | |
| | `DivisorCountsReusesCorrect`, `HistogramExactCorrect` | `[]DivisorCountsReuses`, `[]HistogramExact` | |
| | `OneDirectionCorrect`, `LargerCacheNoWorseCorrect` | `OneDirection`, `[]LargerCacheNoWorse` | |
| `PinTracerProofs` | `TypeCorrect` | `[]TypeOK` of `Spec` and `PipeSpec` | |
| | `RoiExactCorrect`, `RoiCountCorrect` | `[]RoiExact`, `[]RoiCount` of both | `Disciplined` |
| | `AllOrNothingCorrect` | `PipeSpec => []AllOrNothing` | `Disciplined` |
| | `OnlineMatchesOfflineCorrect` | `[]OnlineMatchesOffline` of `PinCacheTracer` | |
| `LlvmTracerProofs` | `PassKeepsProgram`, `PassKeepsPhis` (from `PassCorrect`) | `[]ProgramKept`, `[]PhisFirst` | |
| | `TraceIsExact`, `CountIsExact` (from `RunCorrect`) | `[]TraceExact`, `[]CountExact` | |
| `PerfCountersProofs` | `AggregatesCorrect`, `NothingTwiceCorrect`, `CountsCoverTimeCorrect` | `[]Aggregates`, `[]NothingTwice`, `[]CountsCoverTime` | |
| `SharedCacheProofs` | `WithinMappingsCorrect` | `[]WithinMappings` | mappings as large as what is walked |
| | `TargetGetsRestCorrect`, `PiratesHoldCorrect` | `[]TargetGetsRest`, `[]PiratesHold` | |
| | `WorkingSetsCorrect` | `[]WorkingSets` | `WholeParts` |
| `ForkTestProofs` | `TypeCorrect`, `KillsPirateOnlyCorrect`, `MeasuresToTheEndCorrect`, `WindowsOverlapCorrect` | `[]TypeOK`, `[]KillsPirateOnly`, `[]MeasuresToTheEnd`, `[]WindowsOverlap` | |

Three hypotheses are conditions on the *constants*.  `Disciplined`
says that each unit of the guest's code is entered on one side of the ROI's border only;
without it `RoiExact` is false (run `PinTracerShared`).  `WithinMappings` needs
`cacheSize <= pirateMapped` and `full_size <= arrayMapped`; the programs map 8 MB for
a cache of 8 MB and as much as icar's full iteration.  `WholeParts` says that icar's part
is whole ways and its full iteration whole parts, as its 2 MB and 32 MB with ways of
512 KB are, and the run's numbers; otherwise the lines of the full iteration that
come between two uses of a line of the part are not always as many as `Passing` says.

### The arguments

**Simulator.**  `AccessEffect` says once what a step does to lines, clock and
counters, and every invariance proof starts from it.  `LineHistory` is
inductive given types and `InStep`: an access gives exactly one line the current
time, and a line with the tag and set of an address stands for the address's
block (`SamePlace`, from the arithmetic of `findSet` and `getTag`).  `LruOrder`
is not inductive as it stands, for a block is found by its tag and set and not
by the time of its use: `LruFound` replaces residency by "some line of the set
has the block's tag and a timestamp not before the use", is inductive together
with `LineHistory` (the victim is the oldest line, so if it held a block used at
`t` all other lines are later than `t`), and implies `LruOrder`.

From these the stack property follows by counting.  `FoundIsNear`: a block that is
found is in a line, and the blocks of its set that were used since are in *other* lines
of the set, of which there are fewer than ways.  `NotFoundIsFar`: a block that was used
and is not found has, by `LruFound`, left a set full of later lines, which hold as many
different later blocks as there are ways.  Together they say that an access hits
exactly when `StackDistance` says so, which makes each step of `SimulateOne` a step of
the abstract specification (`Refinement`).  `Inclusion` compares two caches: the set of an
address in the larger cache is part of its set in the smaller (`ModOfDivisor`), so
that there are no more intruders in it.  Its second part, about misses, is not
inductive between two accesses of the inner loop, where the smaller cache may be ahead by one:
`MissOrder` counts the miss that is due with those that were.  `NoEarlyEviction`
holds for both policies; `FoundWhileFits` is its inductive form: a set with an
invalid line replaces that, and a full set without the block holds as many other
blocks as ways, so that the block makes one too many.

**Statistical model.**  `Types` and `InChunk` say where the loops are.  `Slotted` is the
slot loop's invariant: as long as the trace `Fits`, the slots so far follow each
other, all but the last are full, and until that comes there is at least half a slot
left; that no sum of the 32-bit bounds wraps follows from it.  `Sampled` bounds the random
steps by their number.  `Divided` counts the histogram entry by entry against the
accesses read, whether or not bounds have wrapped.  `Exact` says for every chunk
and moment that the histogram counts the reuses at each distance, the cold misses the
blocks (`Holds`) and that `monitoredTrace` has each block's last use (`Remembers`): an
access adds one reuse at the distance of its block's last use or else a new block.

What `solve` computes is a matter of order, not of values.  The powers behind `f`
(`Powers`) exist, fall with the exponent and rise with the cache (`PowersOrdered`,
`PowersFall`), so that `f` rises with the replacements and falls with the cache
(`fOrdered`), through rounding and interpolation (`BetweenGrows`).  `MapThenSumSet`
is a recursive function on the subsets of the histogram (`Sums`), and its sums are ordered
as their terms are (`SumsOrdered`); hence `RatioOrdered`.  An iteration
of a rising function moves in the direction of its first turn (`Directed`), which is
`OneDirection`, and never passes a ratio that another turn would lead back over
(`Keeps`).  `Solving` keeps the latter for every ratio found: so the smaller cache's ratio, if
another turn would not raise it, bounds that of the larger one from above, or else the
larger's could still fall (`LargerRatio`), and the totals follow.

**Pin tool and pipe.**  Proofs are about `ToolSpec`, the tool with or without a
`SIGKILL`, which `Spec` and `PipeSpec` both imply.  `TypeOK` needs that the rest of a
unit fits into `MaxInstructions`; then `count` never wraps.  `Recording` says that a
unit's instrumentation is that of its side of the ROI, that `count` has passed the skip
in the window, and that while the guest runs the trace is complete.  For `RoiCount` the
units with a call of `docount` are those met in the ROI (`Instrumented`), so that the
count past the skip is `roiExecuted` and `strayed` together (`RoiCounted`), and
`Reported` follows the subtraction at the limit or in `Fini`, with its wrap.  `Piped`
splits `stderr` at the guest's last byte: behind it are bytes of the dump, none before
`Fini`, all of them after.  `AllOrNothing` follows by arithmetic: a word that begins `m`
words behind a whole number of the guest's consists of the bytes of one address, in
order, and a word that begins elsewhere begins with a byte that is not the first of any.

**Pin cache tracer.**  `CacheInv` is that of the simulator for the trace recorded so far: what
the lines say of it is true (`History`), a block that is not found was overtaken by every
line of its set (`Recent`), and the hits are as many as the accesses that find their
block again after few others (`Counted`).  `FoundIsNear` and `NotFoundIsFar` then make
a hit exactly an access near its block's last use.

**LLVM pass and program.**  A block after a loop is `FlattenSeq` of short sequences, one
for each instruction; `FlattenLayout` says where they lie (`Layout`), from the
recursive function that `FlattenSeq` chooses (`Joins`).  From the layout each loop
*embeds* the block before it: the old instructions in their order (`Embeds`), and each new one
directly before or behind the instruction it is for (`Before`, `Behind`).
`PassInv` says of every block that the program's is embedded in it (`Kept`, which
gives `ProgramKept`), that PHI nodes lead (`PhisKept`), and, from the loops that
have passed over it, that each counter stands before its instruction and each call
behind its GEP (`Placed`).  `RunInv` follows the instrumented program with that: the
counter is behind by one exactly where a counter's or call's instruction is next
(`Behindhand`), the trace is what is wanted so far but for such a call, and a
print repeats the counter that was loaded before it, in the same block, with no
counting in between.

**Perf counters.**  `Types` includes that ids differ and that what is not open does
not count.  `Once`: `vals` and the kernel's counts together are no more than what
happened, unless the latter were read already.  `Cover`: while the group is
enabled its counts keep up with what happened since start, also in the two half-done calls.

**Shared cache.**  `Ordered`: no line is twice in the order of its set.  `Positions`
bounds the loops.  `Occupants`: a set holds lines of the target, and otherwise only the
`waysToSteal` lines of each pirate, so that what is used after a line of the target
is counted (`TargetGetsRest`).  `Passes`: the ways a pirate has taken in its current
or last pass through a set were used after the first of the pass, so that a line it holds is
preceded by the other loot and the target's few lines only (`PiratesHold`), in
whatever order the pirates and the target run.  For `WorkingSets` the lines that icar comes
to are numbered in its order (`Touched`), and `Footprint` says that the target's
lines behind each other in `recency` are those touched since.  Between two touches of a line of
the full iteration lies a whole round, which comes to every other line of its set
(`FullMisses`); between two of the part lies a round of the part, which comes to its lines
and to as many of the full iteration as `Passing` counts (`PartHits`), and the pirates
add no more than the ways they were asked for (`Occupants`).

**Experiment.**  `IInv` relates the parent's place in its program to what it was told by fork
(`Children`), to what signals and waits have done (`Signalled`, `WaitedFor`), and to
the readings so far (`Readings`, `Cores`); and a pirate that is able to steal is still there
before the kill (`Alive`).  Each property is a consequence.

### Only model-checked

* All liveness (`SlotsEnd`, `SolvesReuse`, `ParentReturns`, `PirateGone`, `BothSteal`,
  `TraceArrives`), which with `ENABLED` is beyond the prover.
* The three violations: they are counterexamples.

Every invariant and every action property of the passing runs is proved.

## 5. Plan

1. *done* - models, runs and properties of all components.
2. *done* - theorems of all components, for every invariant, action property and
   refinement that the runs check.
3. What is left is what the provers cannot state: the liveness properties, for which
   the rank functions are plain (the entries of the trace that are left in `SlotsEnd`; the
   distance of the iterate from its end, in units of `1 / Scale`, in `SolvesReuse`).

## 6. Not modelled

Printing, and the reading of arguments but for the simulator's switch; gzip's format,
and a gzip that fails or is killed before it has finished the file; Pin's and LLVM's own
workings beyond the interface the code uses (external definitions in the map); Intel
PCM, whose readings are the target's events so far, and so its two readings in
`cachePirate.cc`, and the ratios that `forkTest.cc` computes from them (line 244 divides
the cores' misses by these and the *system's* hits); the affinity of the parent and the
pirate; an empty list of events, whose first element `chp_perf.h:109` reads behind the
vector, and the ids that `init_counters` reads behind `perf_id` for more than five,
which nothing uses; `get_page_size` in `forkTest.cc`, which nothing calls; the
hardware's cache in `SharedCache` beyond LRU sets of contiguous mappings (slices, hashed
sets, prefetching); the Slurm scripts; the vendored LLVM files, which register the pass
in one line each; a second analysis with the `StatCache` object, which `main` does not
make.
