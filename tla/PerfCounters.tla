---------------------------- MODULE PerfCounters ----------------------------
(***************************************************************************)
(* The performance counters of cache_pirate/chp_perf.h.  init_perf opens a *)
(* group of perf events, the first of which leads it; the other functions  *)
(* reset, start, stop and read the group.  The kernel counts the events of *)
(* the process that makes the calls whenever it executes user code: that   *)
(* of the program between the calls, and that of the functions themselves. *)
(* The header prescribes no order of the calls.                            *)
(***************************************************************************)
EXTENDS Integers, Sequences, SequencesExt

CONSTANTS
  MaxFds,        \* length of perf_fd and perf_id, 5
  Configs,       \* how many event_configs init_perf may be called with
  Ids,           \* the ids the kernel may give to events
  MaxNow,        \* bound of the model: steps the process computes for
  MaxCalls,      \* bound of the model: calls without a reset
  MaxReadings,   \* bound of the model: reads
  Garbage,       \* what may be taken for the counts when a read fails
  NULL

ASSUME PerfAssumption ==
  /\ {MaxFds, MaxNow, MaxCalls, MaxReadings} \subseteq Nat /\ MaxFds > 0
  /\ Configs \subseteq Nat \ {0}
  /\ Ids \subseteq Nat \ {0}          \* perf_id is cleared to 0
  /\ Garbage \subseteq [1 .. MaxFds -> Nat]

VARIABLES
  nr,          \* as in perf_struct
  perf_id,     \* the ids of the events that were opened
  at,          \* "init_perf", "start" or "stop" inside of these functions,
               \* "caller" outside of all, "exited"
  startTime, duration,
  vals,        \* ctrs->vals, NULL before init_counters
  output,      \* the contents of output_filename, NULL before the first read
  (* The kernel: *)
  counting,    \* the events that are enabled
  value,       \* the count of every event
  now,
  (* What really happened, to compare the counters with: *)
  happened,    \* how often each event happened, by now ...
  atStart,     \* ... by the last startTime ...
  atStop,      \* ... and by the time stop_counter took
  calls,       \* the calls since the last reset
  reads,       \* the reads into vals since init_counters ...
  total,       \* ... and the sum of the counts that each event had at them
  rereads,     \* a count was read twice without a reset in between
  failed       \* a read into vals has failed

kernel == <<counting, value, now>>
history == <<happened, atStart, atStop, calls, reads, total, rereads, failed>>
vars == <<nr, perf_id, at, startTime, duration, vals, output, kernel, history>>

Slots == 1 .. MaxFds
Zeros == [k \in Slots |-> 0]
Group == DOMAIN perf_id        \* the events that are open

Init ==
  /\ nr \in Configs
  /\ perf_id = <<>>
  /\ at = "init_perf"
  /\ startTime = 0 /\ duration = 0
  /\ vals = NULL /\ output = NULL
  /\ counting = {} /\ value = Zeros /\ now = 0
  /\ happened = Zeros /\ atStart = Zeros /\ atStop = Zeros
  /\ calls = <<>> /\ reads = 0 /\ total = Zeros /\ rereads = FALSE /\ failed = FALSE

\* The process executes user code, in which some events happen.
Compute(events) ==
  /\ at \notin {"init_perf", "exited"}
  /\ now < MaxNow
  /\ now' = now + 1
  /\ happened' = [k \in Slots |-> IF k \in events THEN happened[k] + 1 ELSE happened[k]]
  /\ value' = [k \in Slots |-> IF k \in events \intersect counting THEN value[k] + 1
                               ELSE value[k]]
  /\ UNCHANGED <<nr, perf_id, at, startTime, duration, vals, output, counting,
                 atStart, atStop, calls, reads, total, rereads, failed>>

-----------------------------------------------------------------------------
(* init_perf and init_counters.                                            *)

\* The next event, opened disabled; what does not fit into perf_fd is left out.
Open ==
  /\ at = "init_perf"
  /\ \E id \in Ids \ Range(perf_id) : perf_id' = Append(perf_id, id)
  /\ at' = IF Len(perf_id') \in {nr, MaxFds} THEN "caller" ELSE at
  /\ UNCHANGED <<nr, startTime, duration, vals, output, kernel, history>>

OpenFails ==
  /\ at = "init_perf"
  /\ at' = "exited"
  /\ UNCHANGED <<nr, perf_id, startTime, duration, vals, output, kernel, history>>

\* The caller, outside of all functions, makes one of the calls.
Calls(call) ==
  /\ at = "caller"
  /\ Len(calls) < MaxCalls
  /\ calls' = Append(calls, call)

init_counters ==
  /\ Calls("init_counters")
  /\ vals' = [k \in 1 .. nr |-> 0]
  /\ reads' = 0 /\ total' = Zeros /\ failed' = FALSE
  /\ UNCHANGED <<nr, perf_id, at, startTime, duration, output, kernel, happened,
                 atStart, atStop, rereads>>

-----------------------------------------------------------------------------
(* The requests to the group, made with ioctl on the leader's descriptor.  *)

\* Bugs in reset_counter and start_counter, PERF_IOC_FLAG_GROUP left out.
ResetLeader ==
  /\ at = "caller"
  /\ calls' = <<>>
  /\ value' = [value EXCEPT ![1] = 0]
  /\ UNCHANGED <<nr, perf_id, at, startTime, duration, vals, output, counting, now,
                 happened, atStart, atStop, reads, total, rereads, failed>>

StartLeader ==
  /\ Calls("start")
  /\ counting' = counting \union {1}
  /\ at' = "start"
  /\ UNCHANGED <<nr, perf_id, startTime, duration, vals, output, value, now,
                 happened, atStart, atStop, reads, total, rereads, failed>>

reset_counter ==
  /\ at = "caller"
  /\ calls' = <<>>
  /\ value' = [k \in Slots |-> IF k \in Group THEN 0 ELSE value[k]]
  /\ UNCHANGED <<nr, perf_id, at, startTime, duration, vals, output, counting, now,
                 happened, atStart, atStop, reads, total, rereads, failed>>

\* start_counter enables the group and then takes the time, ...
start_counter ==
  /\ Calls("start")
  /\ counting' = counting \union Group
  /\ at' = "start"
  /\ UNCHANGED <<nr, perf_id, startTime, duration, vals, output, value, now,
                 happened, atStart, atStop, reads, total, rereads, failed>>

StartTime ==
  /\ at = "start"
  /\ startTime' = now /\ atStart' = happened
  /\ at' = "caller"
  /\ UNCHANGED <<nr, perf_id, duration, vals, output, kernel, happened, atStop,
                 calls, reads, total, rereads, failed>>

\* ... stop_counter takes the time and then disables the group.
stop_counter ==
  /\ Calls("stop")
  /\ duration' = now - startTime /\ atStop' = happened
  /\ at' = "stop"
  /\ UNCHANGED <<nr, perf_id, startTime, vals, output, kernel, happened, atStart,
                 reads, total, rereads, failed>>

StopCounting ==
  /\ at = "stop"
  /\ counting' = counting \ Group
  /\ at' = "caller"
  /\ UNCHANGED <<nr, perf_id, startTime, duration, vals, output, value, now, history>>

-----------------------------------------------------------------------------
(* read_counter.                                                           *)

\* A bug in Matching, the order of the group relied upon.
SamePlace(buffer, k) == {i \in DOMAIN buffer : i = k}

\* The values in the buffer that carry the id of event k.
Matching(buffer, k) == {i \in DOMAIN buffer : k \in Group /\ buffer[i].id = perf_id[k]}

\* What insts, cycle, tlb_miss, llc_miss and llc_refer are for a buffer.
Read(buffer) ==
  [k \in Slots |-> IF Matching(buffer, k) = {} THEN 0
                   ELSE buffer[CHOOSE i \in Matching(buffer, k) : TRUE].value]

\* read() on the leader gives the values of the whole group with their ids, in
\* an order of the kernel's.
read_counter ==
  /\ Calls("read")
  /\ reads < MaxReadings
  /\ \E order \in {o \in [Group -> Group] : IsInjective(o)} :
       LET read == Read([i \in Group |-> [value |-> value[order[i]],
                                          id |-> perf_id[order[i]]]])
       IN /\ output' = [duration |-> duration, values |-> read]
          /\ vals' = IF vals = NULL THEN NULL
                     ELSE [k \in DOMAIN vals |->
                             IF k \in Slots THEN vals[k] + read[k] ELSE vals[k]]
  /\ IF vals = NULL THEN UNCHANGED <<reads, total>>
     ELSE reads' = reads + 1 /\ total' = [k \in Slots |-> total[k] + value[k]]
  /\ rereads' = (rereads \/ Contains(calls, "read"))
  /\ UNCHANGED <<nr, perf_id, at, startTime, duration, kernel, happened, atStart,
                 atStop, failed>>

\* When read() fails the buffer is what malloc() has left there, and is used all
\* the same (until init_counters once, as a bound of the model).
FailedRead ==
  /\ Calls("failed read")
  /\ ~failed
  /\ \E garbage \in Garbage :
       /\ output' = [duration |-> duration, values |-> garbage]
       /\ vals' = IF vals = NULL THEN NULL
                  ELSE [k \in DOMAIN vals |->
                          IF k \in Slots THEN vals[k] + garbage[k] ELSE vals[k]]
  /\ failed' = (vals # NULL)
  /\ UNCHANGED <<nr, perf_id, at, startTime, duration, kernel, happened, atStart,
                 atStop, reads, total, rereads>>

Next ==
  \/ \E events \in SUBSET Slots : Compute(events)
  \/ Open \/ OpenFails
  \/ init_counters \/ reset_counter
  \/ start_counter \/ StartTime
  \/ stop_counter \/ StopCounting
  \/ read_counter \/ FailedRead

Spec == Init /\ [][Next]_vars
-----------------------------------------------------------------------------
(* Properties.                                                             *)

\* read_counter adds to each of vals the count of its own event at each read,
\* whatever the order of the kernel, and nothing to those beyond perf_fd.
Aggregates ==
  vals # NULL /\ ~failed =>
    \A k \in DOMAIN vals : vals[k] = IF k \in Group THEN total[k] ELSE 0

\* A caller that resets the counters between any two reads has no event added
\* twice, whatever else it calls, and in whatever order.  (These two speak of vals
\* that no failed read has spoilt, and of new ones.)
NothingTwice ==
  vals # NULL /\ ~rereads /\ ~failed =>
    \A k \in DOMAIN vals \intersect Slots : vals[k] <= happened[k]

Bounds == {"start", "stop"}

\* The caller's last start was followed by a stop, and this by no other start or
\* stop; all after the last reset.
Timed ==
  \E j, k \in DOMAIN calls :
    /\ j < k /\ calls[j] = "start" /\ calls[k] = "stop"
    /\ \A l \in j + 1 .. Len(calls) : l # k => calls[l] \notin Bounds

\* The time in the file is covered by the counts in the file: every event of the
\* group that happened in this time is counted, for the clock is read after the
\* group is enabled and before it is disabled.
CountsCoverTime ==
  Timed /\ at = "caller" /\ Last(calls) = "read" =>
    \A k \in Group : output.values[k] >= atStop[k] - atStart[k]
=============================================================================
