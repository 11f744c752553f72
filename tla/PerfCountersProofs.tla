------------------------- MODULE PerfCountersProofs -------------------------
(***************************************************************************)
(* The performance counters, for every number of events, whatever ids and  *)
(* order the kernel chooses, and every sequence of the calls.              *)
(***************************************************************************)
EXTENDS PerfCounters, FiniteSetTheorems, TLAPS

CallNames == {"init_counters", "start", "stop", "read", "failed read"}

\* The types of the variables, and what init_perf leaves behind: the events have
\* different ids, and what is not open never counts.
Types ==
  /\ nr \in Nat \ {0}
  /\ perf_id \in Seq(Ids) /\ IsInjective(perf_id)
  /\ Len(perf_id) <= nr /\ Len(perf_id) <= MaxFds
  /\ calls \in Seq(CallNames)
  /\ value \in [Slots -> Nat] /\ happened \in [Slots -> Nat] /\ total \in [Slots -> Nat]
  /\ atStart \in [Slots -> Nat] /\ atStop \in [Slots -> Nat]
  /\ counting \subseteq Group
  /\ \A k \in Slots \ Group : value[k] = 0
  /\ vals # NULL => vals \in [1 .. nr -> Nat]

\* While init_perf opens the events nothing was called and nothing counted.
Opening ==
  at = "init_perf" =>
    /\ Len(perf_id) < nr /\ Len(perf_id) < MaxFds
    /\ vals = NULL /\ calls = <<>> /\ value = Zeros

LEMMA GroupIsSlots ==
  ASSUME Types
  PROVE  /\ Group = 1 .. Len(perf_id) /\ Len(perf_id) \in Nat
         /\ Group \subseteq Slots /\ Group \subseteq 1 .. nr
         /\ IsFiniteSet(Group)
<1>1. Group = 1 .. Len(perf_id) /\ Len(perf_id) \in Nat
  BY DEF Types, Group
<1>2. Group \subseteq Slots /\ Group \subseteq 1 .. nr
  BY <1>1, PerfAssumption DEF Types, Slots
<1> QED
  BY <1>1, <1>2, FS_Interval

-----------------------------------------------------------------------------
(* read_counter.                                                           *)

\* As many places as events, and no event at two places: each is at one.
LEMMA EveryEventIsRead ==
  ASSUME Types, NEW order \in [Group -> Group], IsInjective(order), NEW k \in Group
  PROVE  \E i \in Group : order[i] = k
<1>1. IsFiniteSet(Group)
  BY GroupIsSlots
<1>2. order \in Injection(Group, Group)
  BY DEF Injection, IsInjective
<1>3. order \in Surjection(Group, Group)
  <2> HIDE DEF Group
  <2> QED
    BY <1>1, <1>2, FS_Injection
<1> QED
  BY <1>3 DEF Surjection

Buffer(order) == [i \in Group |-> [value |-> value[order[i]], id |-> perf_id[order[i]]]]

\* Matched by their ids, the values of the buffer go to their own events.
LEMMA ReadIsOwn ==
  ASSUME Types, NEW order \in [Group -> Group], IsInjective(order)
  PROVE  Read(Buffer(order)) = [k \in Slots |-> IF k \in Group THEN value[k] ELSE 0]
<1> DEFINE buffer == Buffer(order)
<1>1. ASSUME NEW k \in Group
      PROVE  /\ Matching(buffer, k) # {}
             /\ \A i \in Matching(buffer, k) : buffer[i].value = value[k]
  <2>1. DOMAIN buffer = Group
    BY DEF Buffer
  <2>2. \A i \in Group : buffer[i].id = perf_id[order[i]] /\ buffer[i].value = value[order[i]]
    BY DEF Buffer
  <2>3. \A i \in Group : perf_id[order[i]] = perf_id[k] => order[i] = k
    BY DEF Types, IsInjective, Group
  <2>4. PICK i \in Group : order[i] = k
    BY EveryEventIsRead
  <2>5. i \in Matching(buffer, k)
    BY <2>1, <2>2, <2>4 DEF Matching
  <2> QED
    BY <2>1, <2>2, <2>3, <2>5 DEF Matching
<1>2. \A k \in Slots \ Group : Matching(buffer, k) = {}
  BY DEF Matching
<1>3. \A k \in Group : k \in Slots
  BY GroupIsSlots
<1> HIDE DEF buffer
<1>4. \A k \in Slots : Read(buffer)[k] = IF k \in Group THEN value[k] ELSE 0
  BY <1>1, <1>2, <1>3 DEF Read
<1>5. Read(buffer) = [k \in Slots |-> Read(buffer)[k]]
  BY DEF Read
<1>6. Read(buffer) = [k \in Slots |-> IF k \in Group THEN value[k] ELSE 0]
  BY <1>4, <1>5
<1> QED
  BY <1>6 DEF buffer

LEMMA ReadCounter ==
  ASSUME Types, read_counter
  PROVE  /\ \A k \in Group : output'.values[k] = value[k]
         /\ vals = NULL => vals' = NULL
         /\ vals # NULL =>
              vals' = [k \in 1 .. nr |-> IF k \in Group THEN vals[k] + value[k] ELSE vals[k]]
<1>1. PICK order \in {o \in [Group -> Group] : IsInjective(o)} :
        /\ output' = [duration |-> duration, values |-> Read(Buffer(order))]
        /\ vals' = IF vals = NULL THEN NULL
                   ELSE [k \in DOMAIN vals |->
                           IF k \in Slots THEN vals[k] + Read(Buffer(order))[k] ELSE vals[k]]
  BY DEF read_counter, Buffer
<1>2. Read(Buffer(order)) = [k \in Slots |-> IF k \in Group THEN value[k] ELSE 0]
  BY ReadIsOwn
<1>3. \A k \in Group : k \in Slots
  BY GroupIsSlots
<1>4. \A k \in Group : output'.values[k] = value[k]
  BY <1>1, <1>2, <1>3
<1>5. ASSUME vals # NULL
      PROVE  vals' = [k \in 1 .. nr |-> IF k \in Group THEN vals[k] + value[k] ELSE vals[k]]
  <2>1. DOMAIN vals = 1 .. nr /\ \A k \in 1 .. nr : vals[k] \in Nat
    BY <1>5 DEF Types
  <2>2. \A k \in 1 .. nr : (IF k \in Slots THEN vals[k] + Read(Buffer(order))[k] ELSE vals[k])
                             = IF k \in Group THEN vals[k] + value[k] ELSE vals[k]
    BY <1>2, <1>3, <2>1
  <2> QED
    BY <1>1, <1>5, <2>1, <2>2
<1> QED
  BY <1>1, <1>4, <1>5

-----------------------------------------------------------------------------
(* Types, and what was read.                                               *)

\* What stays when no event is opened.
LEMMA SameGroup ==
  ASSUME UNCHANGED perf_id
  PROVE  Group' = Group
BY DEF Group

LEMMA Called ==
  ASSUME Types, NEW call \in CallNames, Calls(call)
  PROVE  /\ calls' \in Seq(CallNames) /\ calls' = Append(calls, call)
         /\ at = "caller"
BY DEF Types, Calls

LEMMA TypesInit == Init => Types /\ Opening /\ Aggregates
<1> SUFFICES ASSUME Init
             PROVE  Types /\ Opening /\ Aggregates
  OBVIOUS
<1>1. perf_id = <<>> /\ Len(perf_id) = 0 /\ perf_id \in Seq(Ids) /\ IsInjective(perf_id)
  BY DEF Init, IsInjective
<1>2. nr \in Nat \ {0} /\ MaxFds \in Nat /\ MaxFds > 0
  BY PerfAssumption DEF Init
<1>3. Zeros \in [Slots -> Nat]
  BY DEF Zeros
<1>4. counting \subseteq Group /\ calls \in Seq(CallNames) /\ \A k \in Slots : value[k] = 0
  BY DEF Init, Zeros
<1> QED
  BY <1>1, <1>2, <1>3, <1>4 DEF Init, Types, Opening, Aggregates

LEMMA TypesStep == Types /\ Opening /\ [Next]_vars => Types' /\ Opening'
<1> SUFFICES ASSUME Types, Opening, [Next]_vars
             PROVE  Types' /\ Opening'
  OBVIOUS
<1>g. /\ Group = 1 .. Len(perf_id) /\ Len(perf_id) \in Nat
      /\ Group \subseteq Slots /\ Group \subseteq 1 .. nr
  BY GroupIsSlots
<1>1. ASSUME NEW events \in SUBSET Slots, Compute(events)
      PROVE  Types' /\ Opening'
  <2>1. happened' \in [Slots -> Nat] /\ value' \in [Slots -> Nat]
    BY <1>1 DEF Compute, Types
  <2>2. \A k \in Slots \ Group : value'[k] = value[k]
    BY <1>1 DEF Compute, Types
  <2> QED
    BY <1>1, <2>1, <2>2, SameGroup DEF Compute, Types, Opening
<1>2. CASE Open
  <2>1. PICK id \in Ids \ Range(perf_id) : perf_id' = Append(perf_id, id)
    BY <1>2 DEF Open
  <2>2. /\ perf_id' \in Seq(Ids) /\ Len(perf_id') = Len(perf_id) + 1
        /\ \A k \in DOMAIN perf_id : perf_id'[k] = perf_id[k] /\ perf_id[k] # id
        /\ perf_id'[Len(perf_id) + 1] = id
    BY <2>1 DEF Types, Range
  <2>3. DOMAIN perf_id' = DOMAIN perf_id \union {Len(perf_id) + 1}
    BY <2>2, <1>g DEF Group
  <2>4. IsInjective(perf_id')
    <3> SUFFICES ASSUME NEW a \in DOMAIN perf_id', NEW b \in DOMAIN perf_id',
                        perf_id'[a] = perf_id'[b]
                 PROVE  a = b
      BY DEF IsInjective
    <3> QED
      BY <2>2, <2>3 DEF Types, IsInjective
  <2>5. /\ at = "init_perf" /\ at' = IF Len(perf_id') \in {nr, MaxFds} THEN "caller" ELSE at
        /\ UNCHANGED <<nr, vals, value, happened, total, atStart, atStop, calls, counting>>
    BY <1>2 DEF Open, kernel, history
  <2>6. Len(perf_id) < nr /\ Len(perf_id) < MaxFds /\ nr \in Nat /\ MaxFds \in Nat
    BY <2>5, PerfAssumption DEF Opening, Types
  <2>7. Len(perf_id') <= nr /\ Len(perf_id') <= MaxFds
    BY <1>g, <2>2, <2>6
  <2>8. Group \subseteq Group'
    BY <2>3 DEF Group
  <2>9. Types'
    BY <2>2, <2>4, <2>5, <2>7, <2>8 DEF Types
  <2>10. Opening'
    BY <1>g, <2>2, <2>5, <2>6, <2>7 DEF Opening
  <2> QED
    BY <2>9, <2>10
<1>3. CASE OpenFails \/ UNCHANGED vars
  BY <1>3, SameGroup DEF OpenFails, vars, kernel, history, Types, Opening
<1>4. CASE init_counters
  <2>1. calls' \in Seq(CallNames)
    <3>1. "init_counters" \in CallNames
      BY DEF CallNames
    <3> QED
      BY <1>4, <3>1, Called DEF init_counters
  <2>2. vals' \in [1 .. nr -> Nat]
    BY <1>4 DEF init_counters
  <2>3. total' \in [Slots -> Nat]
    BY <1>4 DEF init_counters, Zeros
  <2> QED
    BY <1>4, <2>1, <2>2, <2>3, SameGroup DEF init_counters, Calls, kernel, Types, Opening
<1>5. CASE reset_counter
  <2>1. value' \in [Slots -> Nat] /\ \A k \in Slots \ Group : value'[k] = value[k]
    BY <1>5 DEF reset_counter, Types
  <2> QED
    BY <1>5, <2>1, SameGroup DEF reset_counter, Types, Opening
<1>6. CASE start_counter
  <2>1. calls' \in Seq(CallNames)
    <3>1. "start" \in CallNames
      BY DEF CallNames
    <3> QED
      BY <1>6, <3>1, Called DEF start_counter
  <2> QED
    BY <1>6, <2>1, SameGroup DEF start_counter, Calls, Types, Opening
<1>7. CASE StartTime \/ StopCounting
  BY <1>7, SameGroup DEF StartTime, StopCounting, kernel, history, Types, Opening
<1>8. CASE stop_counter
  <2>1. calls' \in Seq(CallNames)
    <3>1. "stop" \in CallNames
      BY DEF CallNames
    <3> QED
      BY <1>8, <3>1, Called DEF stop_counter
  <2> QED
    BY <1>8, <2>1, SameGroup DEF stop_counter, Calls, kernel, Types, Opening
<1>9. CASE read_counter
  <2>1. calls' \in Seq(CallNames)
    <3>1. "read" \in CallNames
      BY DEF CallNames
    <3> QED
      BY <1>9, <3>1, Called DEF read_counter
  <2>2. vals' # NULL => vals' \in [1 .. nr -> Nat]
    <3> SUFFICES ASSUME vals # NULL
                 PROVE  vals' \in [1 .. nr -> Nat]
      BY <1>9, ReadCounter
    <3>1. vals' = [k \in 1 .. nr |-> IF k \in Group THEN vals[k] + value[k] ELSE vals[k]]
      BY <1>9, ReadCounter
    <3>2. \A k \in 1 .. nr : vals[k] \in Nat /\ (k \in Group => value[k] \in Nat)
      BY <1>g DEF Types
    <3> QED
      BY <3>1, <3>2
  <2>3. total' \in [Slots -> Nat]
    <3>1. total' \in {total, [k \in Slots |-> total[k] + value[k]]}
      BY <1>9 DEF read_counter
    <3> QED
      BY SMTT(60), <3>1 DEF Types
  <2> QED
    BY <1>9, <2>1, <2>2, <2>3, SameGroup DEF read_counter, Calls, kernel, Types, Opening
<1>10. CASE FailedRead
  <2>1. calls' \in Seq(CallNames)
    <3>1. "failed read" \in CallNames
      BY DEF CallNames
    <3> QED
      BY <1>10, <3>1, Called DEF FailedRead
  <2>2. PICK garbage \in Garbage :
          vals' = IF vals = NULL THEN NULL
                  ELSE [k \in DOMAIN vals |-> IF k \in Slots THEN vals[k] + garbage[k] ELSE vals[k]]
    BY <1>10 DEF FailedRead
  <2>3. garbage \in [Slots -> Nat]
    BY PerfAssumption DEF Slots
  <2>4. vals' # NULL => vals' \in [1 .. nr -> Nat]
    BY SMTT(60), <2>2, <2>3 DEF Types
  <2> QED
    BY <1>10, <2>1, <2>4, SameGroup DEF FailedRead, Calls, kernel, Types, Opening
<1> QED
  BY <1>1, <1>2, <1>3, <1>4, <1>5, <1>6, <1>7, <1>8, <1>9, <1>10 DEF Next

\* The variables have their types in every state.
THEOREM TypesCorrect == Spec => [](Types /\ Opening)
<1>1. Init => Types /\ Opening
  BY TypesInit
<1>2. (Types /\ Opening) /\ [Next]_vars => (Types /\ Opening)'
  BY TypesStep
<1> QED
  BY <1>1, <1>2, PTL DEF Spec

\* Aggregates: vals are the sums of the counts of their own events, in whatever
\* order the kernel returned them, as long as no read has failed.
THEOREM AggregatesCorrect == Spec => []Aggregates
<1>1. Init => Aggregates
  BY TypesInit
<1>2. Types /\ Opening /\ Aggregates /\ [Next]_vars => Aggregates'
  <2> SUFFICES ASSUME Types, Opening, Aggregates, [Next]_vars
               PROVE  Aggregates'
    OBVIOUS
  <2>1. ASSUME UNCHANGED <<perf_id, vals, total, failed>>
        PROVE  Aggregates'
    BY <2>1, SameGroup DEF Aggregates
  <2>2. CASE Open
    BY <2>2 DEF Open, Opening, Aggregates
  <2>3. CASE init_counters
    <3>1. \A k \in Group : k \in Slots
      BY GroupIsSlots
    <3> QED
      BY <2>3, <3>1, SameGroup DEF init_counters, Aggregates, Zeros
  <2>4. CASE read_counter
    <3> SUFFICES ASSUME vals # NULL, ~failed, NEW k \in DOMAIN vals'
                 PROVE  vals'[k] = IF k \in Group THEN total'[k] ELSE 0
      BY <2>4, ReadCounter, SameGroup DEF read_counter, Aggregates
    <3>1. vals' = [n \in 1 .. nr |-> IF n \in Group THEN vals[n] + value[n] ELSE vals[n]]
      BY <2>4, ReadCounter
    <3>2. DOMAIN vals = 1 .. nr /\ k \in 1 .. nr
      BY <3>1 DEF Types
    <3>3. vals[k] = IF k \in Group THEN total[k] ELSE 0
      BY <3>2 DEF Aggregates
    <3>4. total' = [n \in Slots |-> total[n] + value[n]] /\ \A n \in Group : n \in Slots
      BY <2>4, GroupIsSlots DEF read_counter
    <3> QED
      BY <3>1, <3>2, <3>3, <3>4
  <2>5. CASE FailedRead
    <3> HIDE DEF Group
    <3>1. vals = NULL => vals' = NULL
      BY <2>5 DEF FailedRead
    <3> QED
      BY <2>5, <3>1 DEF FailedRead, Aggregates
  <2> QED
    BY <2>1, <2>2, <2>3, <2>4, <2>5 DEF Next, vars, kernel, history, Compute, OpenFails,
       reset_counter, start_counter, StartTime, stop_counter, StopCounting, Calls
<1> QED
  BY <1>1, <1>2, TypesCorrect, PTL DEF Spec

-----------------------------------------------------------------------------
(* Nothing twice.                                                          *)

WasRead == Contains(calls, "read")

\* What vals hold happened before what the kernel holds since the last reset: the
\* two together are no more than what happened, unless the latter was read.
Once ==
  /\ \A k \in Slots : value[k] <= happened[k]
  /\ vals # NULL /\ ~rereads /\ ~failed =>
       \A k \in Group :
         vals[k] <= happened[k] /\ (~WasRead => vals[k] + value[k] <= happened[k])

LEMMA WasReadStep ==
  ASSUME Types, NEW call \in CallNames, Calls(call)
  PROVE  WasRead' <=> (WasRead \/ call = "read")
<1>1. calls' = Append(calls, call) /\ calls \in Seq(CallNames)
  BY DEF Calls, Types
<1>2. /\ Len(calls') = Len(calls) + 1 /\ Len(calls) \in Nat
      /\ calls'[Len(calls) + 1] = call
      /\ \A k \in 1 .. Len(calls) : calls'[k] = calls[k]
  BY <1>1
<1>3. 1 .. Len(calls') = 1 .. Len(calls) \union {Len(calls) + 1}
  BY <1>2
<1> QED
  BY <1>2, <1>3 DEF WasRead, Contains

LEMMA OnceStep == Types /\ Opening /\ Once /\ [Next]_vars => Once'
<1> SUFFICES ASSUME Types, Opening, Once, [Next]_vars
             PROVE  Once'
  OBVIOUS
<1>g. /\ \A k \in Group : k \in Slots /\ k \in 1 .. nr
      /\ \A k \in Slots : value[k] \in Nat /\ happened[k] \in Nat
      /\ vals # NULL => \A k \in 1 .. nr : vals[k] \in Nat
  BY GroupIsSlots DEF Types
<1> HIDE DEF Group
<1>1. ASSUME UNCHANGED <<perf_id, vals, value, happened, rereads, failed>>,
             WasRead => WasRead'
      PROVE  Once'
  BY <1>1, SameGroup DEF Once
<1>2. ASSUME NEW events \in SUBSET Slots, Compute(events)
      PROVE  Once'
  <2>1. /\ UNCHANGED <<perf_id, vals, rereads, failed, calls>>
        /\ \A k \in Slots : happened'[k] = IF k \in events THEN happened[k] + 1 ELSE happened[k]
        /\ \A k \in Slots : value'[k] \in {value[k], value[k] + 1}
        /\ \A k \in Slots : k \notin events => value'[k] = value[k]
    BY <1>2, <1>g DEF Compute
  <2>2. WasRead' <=> WasRead
    BY <2>1 DEF WasRead
  <2>3. \A k \in Slots : value'[k] - happened'[k] <= value[k] - happened[k]
    BY <1>g, <2>1
  <2>4. \A k \in Slots : happened'[k] \in Nat /\ happened'[k] >= happened[k] /\ value'[k] \in Nat
    BY <1>g, <2>1
  <2>5. \A k \in Slots : value'[k] <= happened'[k]
    BY <1>g, <2>3, <2>4 DEF Once
  <2>6. ASSUME vals # NULL, ~rereads, ~failed, NEW k \in Group
        PROVE  vals[k] <= happened'[k] /\ (~WasRead => vals[k] + value'[k] <= happened'[k])
    BY <1>g, <2>3, <2>4, <2>6 DEF Once
  <2> QED
    BY <2>1, <2>2, <2>5, <2>6, SameGroup DEF Once
<1>3. CASE Open
  BY <1>3 DEF Open, kernel, history, Opening, Once
<1>4. CASE init_counters
  <2>1. /\ Calls("init_counters") /\ vals' = [k \in 1 .. nr |-> 0]
        /\ UNCHANGED <<perf_id, value, happened, rereads>>
    BY <1>4 DEF init_counters, kernel
  <2>2. \A k \in Group : vals'[k] = 0
    BY <1>g, <2>1
  <2> QED
    BY <1>g, <2>1, <2>2, SameGroup DEF Once
<1>5. CASE reset_counter
  <2>1. /\ \A k \in Slots : value'[k] \in {0, value[k]}
        /\ \A k \in Group : value'[k] = 0
        /\ UNCHANGED <<perf_id, vals, happened, rereads, failed>>
    BY <1>5, <1>g DEF reset_counter
  <2> QED
    BY <1>g, <2>1, SameGroup DEF Once
<1>6. CASE start_counter
  <2>1. WasRead => WasRead'
    <3>1. "start" \in CallNames
      BY DEF CallNames
    <3> QED
      BY <1>6, <3>1, WasReadStep DEF start_counter
  <2> QED
    BY <1>1, <1>6, <2>1 DEF start_counter
<1>7. CASE stop_counter
  <2>1. WasRead => WasRead'
    <3>1. "stop" \in CallNames
      BY DEF CallNames
    <3> QED
      BY <1>7, <3>1, WasReadStep DEF stop_counter
  <2> QED
    BY <1>1, <1>7, <2>1 DEF stop_counter, kernel
<1>8. CASE read_counter
  <2>1. /\ WasRead'
        /\ UNCHANGED <<perf_id, value, happened, failed>>
        /\ rereads' = (rereads \/ WasRead)
    <3>1. "read" \in CallNames
      BY DEF CallNames
    <3> QED
      BY <1>8, <3>1, WasReadStep DEF read_counter, kernel, WasRead
  <2>2. ASSUME vals' # NULL, ~rereads', ~failed', NEW k \in Group
        PROVE  vals'[k] <= happened[k]
    <3>1. vals # NULL /\ vals'[k] = vals[k] + value[k]
      BY <1>8, <1>g, <2>2, ReadCounter
    <3> QED
      BY <2>1, <2>2, <3>1 DEF Once
  <2> QED
    BY <2>1, <2>2, SameGroup DEF Once
<1>9. CASE FailedRead
  <2>1. /\ UNCHANGED <<perf_id, value, happened, rereads>>
        /\ failed' = (vals # NULL) /\ (vals = NULL => vals' = NULL)
    BY <1>9 DEF FailedRead, kernel
  <2> QED
    BY <2>1, SameGroup DEF Once
<1>10. CASE OpenFails \/ StartTime \/ StopCounting \/ UNCHANGED vars
  <2>1. UNCHANGED calls
    BY <1>10 DEF OpenFails, StartTime, StopCounting, vars, kernel, history
  <2>2. WasRead => WasRead'
    BY <2>1 DEF WasRead
  <2> QED
    BY <1>1, <1>10, <2>2 DEF OpenFails, StartTime, StopCounting, vars, kernel, history
<1> QED
  BY <1>2, <1>3, <1>4, <1>5, <1>6, <1>7, <1>8, <1>9, <1>10 DEF Next

\* NothingTwice: a caller that resets the counters between any two reads has no
\* event added twice to vals, whatever else it calls.
THEOREM NothingTwiceCorrect == Spec => []NothingTwice
<1>1. Init => Once
  BY DEF Init, Once, Zeros
<1>2. Types /\ Opening /\ Once /\ [Next]_vars => Once'
  BY OnceStep
<1>3. Types /\ Once /\ Aggregates => NothingTwice
  <2> SUFFICES ASSUME Types, Once, Aggregates, vals # NULL, ~rereads, ~failed,
                      NEW k \in DOMAIN vals \intersect Slots
               PROVE  vals[k] <= happened[k]
    BY DEF NothingTwice
  <2>1. CASE k \in Group
    BY <2>1 DEF Once
  <2>2. CASE k \notin Group
    BY <2>2 DEF Aggregates, Types
  <2> QED
    BY <2>1, <2>2
<1> QED
  BY <1>1, <1>2, <1>3, TypesCorrect, AggregatesCorrect, PTL DEF Spec

-----------------------------------------------------------------------------
(* The counts and the time.                                                *)

\* The caller's last start is followed by no other start or stop.
Started ==
  \E j \in DOMAIN calls :
    calls[j] = "start" /\ \A l \in j + 1 .. Len(calls) : calls[l] \notin Bounds

LastCall(call) == calls # <<>> /\ Last(calls) = call

LEMMA AppendedCall ==
  ASSUME Types, NEW call \in CallNames, Calls(call)
  PROVE  /\ LastCall(call)'
         /\ call \notin Bounds => (Started' => Started) /\ (Timed' => Timed)
         /\ call = "stop" => ~Started' /\ (Timed' => Started)
         /\ call = "start" => ~Timed'
<1>1. calls' = Append(calls, call) /\ calls \in Seq(CallNames)
  BY DEF Calls, Types
<1> DEFINE n == Len(calls)
<1>2. /\ n \in Nat /\ DOMAIN calls = 1 .. n /\ DOMAIN calls' = 1 .. n + 1
      /\ Len(calls') = n + 1 /\ calls'[n + 1] = call /\ calls' # <<>>
      /\ \A k \in 1 .. n : calls'[k] = calls[k]
  BY <1>1
<1> HIDE DEF n
<1>3. LastCall(call)'
  BY <1>2 DEF LastCall, Last
<1>4. ASSUME call \notin Bounds, Started'
      PROVE  Started
  <2>1. PICK j \in 1 .. n + 1 :
          calls'[j] = "start" /\ \A l \in j + 1 .. n + 1 : calls'[l] \notin Bounds
    BY <1>2, <1>4 DEF Started
  <2>2. j \in 1 .. n
    BY <1>2, <1>4, <2>1 DEF Bounds
  <2>3. calls[j] = "start" /\ \A l \in j + 1 .. n : calls[l] \notin Bounds
    BY <1>2, <2>1, <2>2
  <2> QED
    BY <1>2, <2>2, <2>3 DEF Started, n
<1>5. ASSUME Timed'
      PROVE  \E j, k \in 1 .. n + 1 :
               /\ j < k /\ calls'[j] = "start" /\ calls'[k] = "stop"
               /\ \A l \in j + 1 .. n + 1 : l # k => calls'[l] \notin Bounds
  BY <1>2, <1>5 DEF Timed
<1>6. ASSUME call \notin Bounds, Timed'
      PROVE  Timed
  <2>1. PICK j, k \in 1 .. n + 1 :
          /\ j < k /\ calls'[j] = "start" /\ calls'[k] = "stop"
          /\ \A l \in j + 1 .. n + 1 : l # k => calls'[l] \notin Bounds
    BY <1>5, <1>6
  <2>2. j \in 1 .. n /\ k \in 1 .. n
    BY <1>2, <1>6, <2>1 DEF Bounds
  <2>3. /\ j < k /\ calls[j] = "start" /\ calls[k] = "stop"
        /\ \A l \in j + 1 .. n : l # k => calls[l] \notin Bounds
    BY <1>2, <2>1, <2>2
  <2> QED
    BY <1>2, <2>2, <2>3 DEF Timed, n
<1>7. ASSUME call = "stop"
      PROVE  ~Started'
  <2> SUFFICES ASSUME NEW j \in 1 .. n + 1, calls'[j] = "start",
                      \A l \in j + 1 .. n + 1 : calls'[l] \notin Bounds
               PROVE  FALSE
    BY <1>2 DEF Started
  <2>1. j # n + 1
    BY <1>2, <1>7
  <2>2. n + 1 \in j + 1 .. n + 1
    BY <1>2, <2>1
  <2> QED
    BY <1>2, <1>7, <2>2 DEF Bounds
<1>8. ASSUME call = "stop", Timed'
      PROVE  Started
  <2>1. PICK j, k \in 1 .. n + 1 :
          /\ j < k /\ calls'[j] = "start" /\ calls'[k] = "stop"
          /\ \A l \in j + 1 .. n + 1 : l # k => calls'[l] \notin Bounds
    BY <1>5, <1>8
  <2>2. j \in 1 .. n
    BY <1>2, <2>1
  <2>3. k = n + 1
    <3> SUFFICES ASSUME k # n + 1
                 PROVE  FALSE
      OBVIOUS
    <3>1. n + 1 \in j + 1 .. n + 1
      BY <1>2, <2>2
    <3> QED
      BY <1>2, <1>8, <2>1, <3>1 DEF Bounds
  <2>4. calls[j] = "start" /\ \A l \in j + 1 .. n : calls[l] \notin Bounds
    BY <1>2, <2>1, <2>2, <2>3
  <2> QED
    BY <1>2, <2>2, <2>4 DEF Started, n
<1>9. ASSUME call = "start"
      PROVE  ~Timed'
  <2> SUFFICES ASSUME NEW j \in 1 .. n + 1, NEW k \in 1 .. n + 1,
                      j < k, calls'[k] = "stop",
                      \A l \in j + 1 .. n + 1 : l # k => calls'[l] \notin Bounds
               PROVE  FALSE
    BY <1>5
  <2>1. n + 1 \in j + 1 .. n + 1 /\ k # n + 1
    BY <1>2, <1>9
  <2> QED
    BY <1>2, <1>9, <2>1 DEF Bounds
<1> QED
  BY <1>3, <1>4, <1>6, <1>7, <1>8, <1>9

\* While the group is enabled its counts keep up with what happens since
\* startTime, and so since start they are what happened at least; they still are
\* when stop_counter has taken the time, and in what was read then.
Cover ==
  /\ at = "start" => Group \subseteq counting /\ LastCall("start") /\ ~Timed
  /\ at = "stop" => ~Started
  /\ Started /\ at # "start" =>
       Group \subseteq counting /\ \A k \in Group : value[k] + atStart[k] >= happened[k]
  /\ Timed => \A k \in Group : value[k] + atStart[k] >= atStop[k]
  /\ Timed /\ LastCall("read") =>
       \A k \in Group : output.values[k] \in Nat /\ output.values[k] + atStart[k] >= atStop[k]

LEMMA CoverInit == Init => Cover
<1>1. Init => calls = <<>> /\ at = "init_perf"
  BY DEF Init
<1>2. calls = <<>> => ~Started /\ ~Timed /\ ~LastCall("read")
  BY DEF Started, Timed, LastCall
<1> QED
  BY <1>1, <1>2 DEF Cover

LEMMA CoverStep == Types /\ Opening /\ Cover /\ [Next]_vars => Cover'
<1> SUFFICES ASSUME Types, Opening, Cover, [Next]_vars
             PROVE  Cover'
  OBVIOUS
<1>g. /\ \A k \in Group : k \in Slots
      /\ \A k \in Slots : value[k] \in Nat /\ happened[k] \in Nat
      /\ \A k \in Slots : atStart[k] \in Nat /\ atStop[k] \in Nat
  BY GroupIsSlots DEF Types
<1>e. calls = <<>> => ~Started /\ ~Timed
  BY DEF Started, Timed
<1>n. \A c \in {"init_counters", "read", "failed read"} : c \in CallNames /\ c \notin Bounds
  BY DEF CallNames, Bounds
<1>u. UNCHANGED calls =>
        UNCHANGED <<Started, Timed, LastCall("start"), LastCall("read")>>
  BY DEF Started, Timed, LastCall, Last
<1> HIDE DEF Group
<1>1. ASSUME NEW events \in SUBSET Slots, Compute(events)
      PROVE  Cover'
  <2>1. /\ UNCHANGED <<perf_id, at, output, counting, atStart, atStop, calls>>
        /\ \A k \in Slots : happened'[k] = IF k \in events THEN happened[k] + 1 ELSE happened[k]
        /\ \A k \in Slots : value'[k] = IF k \in events \intersect counting THEN value[k] + 1
                                        ELSE value[k]
    BY <1>1 DEF Compute
  <2>2. \A k \in Slots : value'[k] \in Nat /\ value'[k] >= value[k] /\ happened'[k] \in Nat
    BY <1>g, <2>1
  <2>3. Group \subseteq counting =>
          \A k \in Group : value'[k] - happened'[k] = value[k] - happened[k]
    BY <1>g, <2>1
  <2>4. Started /\ at # "start" => \A k \in Group : value'[k] + atStart[k] >= happened'[k]
    BY <1>g, <2>2, <2>3 DEF Cover
  <2>5. Timed => \A k \in Group : value'[k] + atStart[k] >= atStop[k]
    BY <1>g, <2>2 DEF Cover
  <2> QED
    BY <1>u, <2>1, <2>4, <2>5, SameGroup DEF Cover
<1>2. CASE Open
  <2>1. UNCHANGED calls /\ calls = <<>> /\ at' # "start" /\ at' # "stop"
    BY <1>2 DEF Open, Opening, history
  <2> QED
    BY <1>e, <1>u, <2>1 DEF Cover
<1>3. ASSUME NEW call \in {"init_counters", "failed read"}, Calls(call), at' = at,
             UNCHANGED <<perf_id, value, happened, counting, atStart, atStop>>
      PROVE  Cover'
  <2>1. /\ Started' => Started
        /\ Timed' => Timed
        /\ LastCall(call)' /\ at = "caller"
    BY <1>3, <1>n, AppendedCall, Called
  <2>2. ~LastCall("read")'
    BY <1>3, <2>1 DEF LastCall
  <2> QED
    BY <1>3, <2>1, <2>2, SameGroup DEF Cover
<1>4. CASE reset_counter
  <2>1. calls' = <<>> /\ at' = "caller"
    BY <1>4 DEF reset_counter
  <2>2. ~Started' /\ ~Timed'
    BY <2>1 DEF Started, Timed
  <2> QED
    BY <2>1, <2>2 DEF Cover
<1>5. CASE start_counter
  <2>1. /\ Calls("start") /\ "start" \in CallNames /\ at' = "start"
        /\ counting' = counting \union Group /\ UNCHANGED perf_id
    BY <1>5 DEF start_counter, CallNames
  <2>2. ~Timed' /\ LastCall("start")'
    BY <2>1, AppendedCall
  <2> QED
    BY <2>1, <2>2, SameGroup DEF Cover
<1>6. CASE StartTime
  <2>1. /\ at = "start" /\ at' = "caller" /\ atStart' = happened
        /\ UNCHANGED <<perf_id, calls, counting, value, happened, atStop, output>>
    BY <1>6 DEF StartTime, kernel
  <2>2. \A k \in Group : value[k] + happened[k] >= happened[k]
    BY <1>g
  <2>3. Group \subseteq counting /\ ~Timed
    BY <2>1 DEF Cover
  <2> QED
    BY <1>u, <2>1, <2>2, <2>3, SameGroup DEF Cover
<1>7. CASE stop_counter
  <2>1. /\ Calls("stop") /\ "stop" \in CallNames /\ at = "caller" /\ at' = "stop"
        /\ atStop' = happened
        /\ UNCHANGED <<perf_id, counting, value, happened, atStart>>
    BY <1>7 DEF stop_counter, CallNames, Calls, kernel
  <2>2. ~Started' /\ (Timed' => Started) /\ LastCall("stop")'
    BY <2>1, AppendedCall
  <2>3. ~LastCall("read")'
    BY <2>2 DEF LastCall
  <2>4. Timed' => \A k \in Group : value[k] + atStart[k] >= happened[k]
    BY <2>1, <2>2 DEF Cover
  <2> QED
    BY <2>1, <2>2, <2>3, <2>4, SameGroup DEF Cover
<1>8. CASE StopCounting
  <2>1. /\ at = "stop" /\ at' = "caller"
        /\ UNCHANGED <<perf_id, calls, value, happened, atStart, atStop, output>>
    BY <1>8 DEF StopCounting, history
  <2> QED
    BY <1>u, <2>1, SameGroup DEF Cover
<1>9. CASE read_counter
  <2>1. /\ Calls("read") /\ "read" \in CallNames /\ "read" \notin Bounds
        /\ at = "caller" /\ at' = at
        /\ UNCHANGED <<perf_id, counting, value, happened, atStart, atStop>>
    BY <1>9, <1>n DEF read_counter, Calls, kernel
  <2>2. (Started' => Started) /\ (Timed' => Timed)
    BY <2>1, AppendedCall
  <2>3. \A k \in Group : output'.values[k] = value[k]
    BY <1>9, ReadCounter
  <2>4. \A k \in Group : value[k] \in Nat
    BY <1>g
  <2> QED
    BY <2>1, <2>2, <2>3, <2>4, SameGroup DEF Cover
<1>10. CASE OpenFails \/ UNCHANGED vars
  <2>1. /\ UNCHANGED <<perf_id, calls, counting, value, happened, atStart, atStop, output>>
        /\ at' = at \/ (at = "init_perf" /\ at' = "exited")
    BY <1>10 DEF OpenFails, vars, kernel, history
  <2>2. at = "init_perf" => ~Started /\ ~Timed
    BY <1>e DEF Opening
  <2> QED
    BY <1>u, <2>1, <2>2, SameGroup DEF Cover
<1>11. CASE init_counters \/ FailedRead
  BY <1>3, <1>11 DEF init_counters, FailedRead, kernel
<1> QED
  BY <1>1, <1>2, <1>4, <1>5, <1>6, <1>7, <1>8, <1>9, <1>10, <1>11 DEF Next

\* CountsCoverTime: when start, stop and read were called in this order, every
\* event of the group that happened in the time that is written is in the count
\* that is written next to it.
THEOREM CountsCoverTimeCorrect == Spec => []CountsCoverTime
<1>1. Init => Cover
  BY CoverInit
<1>2. Types /\ Opening /\ Cover /\ [Next]_vars => Cover'
  BY CoverStep
<1>3. Types /\ Cover => CountsCoverTime
  <2> SUFFICES ASSUME Types, Cover, Timed, Last(calls) = "read", NEW k \in Group
               PROVE  output.values[k] >= atStop[k] - atStart[k]
    BY DEF CountsCoverTime
  <2>1. LastCall("read")
    BY DEF LastCall, Timed
  <2>2. output.values[k] \in Nat /\ output.values[k] + atStart[k] >= atStop[k]
    BY <2>1 DEF Cover
  <2>3. atStart[k] \in Nat /\ atStop[k] \in Nat
    BY GroupIsSlots DEF Types
  <2> QED
    BY <2>2, <2>3
<1> QED
  BY <1>1, <1>2, <1>3, TypesCorrect, PTL DEF Spec
=============================================================================
