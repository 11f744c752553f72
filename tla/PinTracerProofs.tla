-------------------------- MODULE PinTracerProofs ---------------------------
(***************************************************************************)
(* The trace and the instruction count of the Pin tool, for every guest,   *)
(* every number of skipped instructions and every access limit: on its own *)
(* and at the head of the pipe, where it may be killed.  Last, the hits    *)
(* that the Pin tool with caches counts, for every bank of caches.         *)
(***************************************************************************)
EXTENDS TracePipe, PinCacheTracer, CacheArithmetic, FiniteSetTheorems, SequenceTheorems,
        TLAPS

\* What the guest must do for the tool to be right: enter each of its units in
\* the ROI, or outside of it, and never both ways (a unit is instrumented once).
Disciplined == RoiUnits \union OtherUnits = Units

\* The tool of a pipe, which may be killed, and the one that has no pipe.
Dies == status' = "killed" /\ UNCHANGED <<tool, guest>>
ToolStep == [Next \/ Dies]_vars
ToolSpec == Init /\ [][Next \/ Dies]_vars

LEMMA WithoutPipe == Spec => ToolSpec
<1>1. [Next]_vars => ToolStep
  BY DEF ToolStep
<1> QED
  BY <1>1, PTL DEF Spec, ToolSpec, ToolStep

LEMMA WithPipe == PipeSpec => ToolSpec
<1>1. PipeInit => Init
  BY DEF PipeInit
<1>2. [PipeNext]_<<vars, pipe>> => ToolStep
  <2> SUFFICES ASSUME [PipeNext]_<<vars, pipe>>
               PROVE  ToolStep
    OBVIOUS
  <2>1. CASE GuestWrites \/ Gzip \/ convertGZip2MemoryTraces \/ UNCHANGED <<vars, pipe>>
    <3>1. UNCHANGED vars
      BY <2>1 DEF GuestWrites, Gzip, convertGZip2MemoryTraces
    <3> QED
      BY <3>1 DEF ToolStep
  <2>2. CASE Dump
    <3>1. Fini
      BY <2>2 DEF Dump
    <3> QED
      BY <3>1 DEF ToolStep, Next
  <2>3. CASE Killed
    <3>1. Dies
      BY <2>3 DEF Killed, Dies
    <3> QED
      BY <3>1 DEF ToolStep
  <2>4. CASE \/ \E u \in Units : Enter(u) /\ UNCHANGED pipe
             \/ \E addr \in Addrs : MemoryAccess(addr) /\ UNCHANGED pipe
             \/ Docount /\ UNCHANGED pipe
             \/ startROI /\ UNCHANGED pipe
             \/ stopROI /\ UNCHANGED pipe
             \/ GuestExit /\ UNCHANGED pipe
    BY <2>4 DEF ToolStep, Next
  <2> QED
    BY <2>1, <2>2, <2>3, <2>4 DEF PipeNext
<1> QED
  BY <1>1, <1>2, PTL DEF PipeSpec, ToolSpec, ToolStep

-----------------------------------------------------------------------------
(* Types.                                                                  *)

\* Each count is within reach of the instructions the guest may still execute:
\* docount has not run for more instructions than the guest has, ...
CountBound == count <= SKIP_INST_LIMIT + executed

\* ... and the rest of the current unit fits into the bound of the model.
UnitFits == unit # NoUnit => executed + Len(Program[unit]) - ins < MaxInstructions

LEMMA UnitFacts ==
  ASSUME NEW u \in Units
  PROVE  /\ Program[u] \in Seq(Instructions)
         /\ Len(Program[u]) \in Nat \ {0}
         /\ DOMAIN Program[u] = 1 .. Len(Program[u])
         /\ u # NoUnit
         /\ \A k \in DOMAIN Program[u] :
              /\ Program[u][k].accesses \in Nat
              /\ Program[u][k].syscall \in BOOLEAN
              /\ Program[u][k].syscall => Program[u][k].accesses = 0
<1>1. /\ Program[u] \in Seq(Instructions) /\ Program[u] # <<>>
      /\ \A k \in DOMAIN Program[u] : Program[u][k].syscall => Program[u][k].accesses = 0
      /\ u # NoUnit
  BY PinAssumption
<1>2. /\ Len(Program[u]) \in Nat \ {0}
      /\ DOMAIN Program[u] = 1 .. Len(Program[u])
      /\ \A k \in DOMAIN Program[u] : Program[u][k] \in Instructions
  BY <1>1
<1>3. \A i \in Instructions : i.accesses \in Nat /\ i.syscall \in BOOLEAN
  BY DEF Instructions
<1> QED
  BY <1>1, <1>2, <1>3

LEMMA TypeInit == Init => TypeOK /\ CountBound /\ UnitFits
<1> SUFFICES ASSUME Init
             PROVE  TypeOK /\ CountBound /\ UnitFits
  OBVIOUS
<1>1. /\ SKIP_INST_LIMIT \in Nat /\ ACCESS_LIMIT \in Nat /\ MaxInstructions \in Nat
      /\ Modulus \in Nat /\ Modulus > 0
  BY PinAssumption
<1>2. isROI \in BOOLEAN /\ window \in BOOLEAN
  BY Zenon DEF Init
<1>3. compiled \in [Units -> {"cold", "plain", "counted", "recorded"}]
  BY DEF Init
<1> QED
  BY <1>1, <1>2, <1>3 DEF Init, TypeOK, CountBound, UnitFits

LEMMA TypeStep == TypeOK /\ CountBound /\ UnitFits /\ ToolStep => (TypeOK /\ CountBound /\ UnitFits)'
<1> SUFFICES ASSUME TypeOK, CountBound, UnitFits, ToolStep
             PROVE  (TypeOK /\ CountBound /\ UnitFits)'
  OBVIOUS
<1>c. /\ SKIP_INST_LIMIT \in Nat /\ ACCESS_LIMIT \in Nat /\ MaxInstructions \in Nat
      /\ Modulus \in Nat /\ Modulus > 0 /\ NoUnit \notin Units
  BY PinAssumption
<1>1. ASSUME NEW u \in Units, Enter(u)
      PROVE  (TypeOK /\ CountBound /\ UnitFits)'
  <2>1. compiled' \in [Units -> {"cold", "plain", "counted", "recorded"}]
    BY <1>1 DEF Enter, Instruction, TypeOK
  <2>2. window' \in BOOLEAN
    BY <1>1, Zenon DEF Enter
  <2>3. /\ unit' = u /\ ins' \in DOMAIN Program[u]
        /\ op' \in 0 .. Program[u][ins'].accesses
        /\ executed' + Len(Program[u]) - ins' < MaxInstructions
    <3>1. /\ unit' = u /\ ins' = 1 /\ op' = 0 /\ executed' = executed
          /\ executed + Len(Program[u]) <= MaxInstructions
      BY <1>1 DEF Enter
    <3>2. /\ Len(Program[u]) \in Nat \ {0} /\ 1 \in DOMAIN Program[u]
          /\ executed \in Nat
      BY <1>c, UnitFacts DEF TypeOK
    <3>3. Program[u][1].accesses \in Nat
      BY <3>2, UnitFacts
    <3> QED
      BY <1>c, <3>1, <3>2, <3>3
  <2> QED
    BY <1>1, <2>1, <2>2, <2>3 DEF Enter, TypeOK, CountBound, UnitFits, Current
<1>2. ASSUME NEW addr \in Addrs, MemoryAccess(addr)
      PROVE  (TypeOK /\ CountBound /\ UnitFits)'
  <2>1. (count - SKIP_INST_LIMIT) % Modulus \in 0 .. Modulus - 1
    BY <1>c DEF TypeOK
  <2>2. /\ accessCount' \in 0 .. ACCESS_LIMIT /\ traces' \in Seq(Addrs)
        /\ roiInstCount' \in 0 .. Modulus - 1
        /\ status' \in {"running", "fini", "done", "killed"}
    <3>1. CASE Record(addr)
      BY <3>1, <1>c DEF Record, TypeOK
    <3>2. CASE LimitReached
      BY <3>2, <2>1 DEF LimitReached, TypeOK
    <3>3. CASE UNCHANGED <<traces, accessCount, roiInstCount, status>>
      BY <3>3 DEF TypeOK
    <3> QED
      BY <1>2, <3>1, <3>2, <3>3 DEF MemoryAccess
  <2>3. wanted' \in Seq(Addrs)
    BY <1>2 DEF MemoryAccess, TypeOK
  <2>4. unit' = unit /\ ins' = ins /\ ins \in DOMAIN Program[unit]
        /\ op' \in 0 .. Current.accesses
    BY <1>2, <1>c, UnitFacts DEF MemoryAccess, TypeOK, Current
  <2> QED
    BY <1>2, <2>2, <2>3, <2>4 DEF MemoryAccess, TypeOK, CountBound, UnitFits, Current
<1>3. CASE Docount
  <2>1. unit \in Units /\ ins \in 1 .. Len(Program[unit])
    BY <1>3, UnitFacts DEF Docount, TypeOK
  <2>2. count' \in 0 .. SKIP_INST_LIMIT + MaxInstructions /\ CountBound'
        /\ executed' \in 0 .. MaxInstructions /\ roiExecuted' \in 0 .. executed'
        /\ strayed' \in 0 .. executed'
    BY <1>3, <1>c, <2>1, UnitFacts DEF Docount, TypeOK, CountBound, UnitFits
  <2>3. /\ unit' \in Units \union {NoUnit}
        /\ unit' # NoUnit => ins' \in DOMAIN Program[unit'] /\ op' \in 0 .. Current'.accesses
        /\ UnitFits'
    <3>1. CASE ins = Len(Program[unit])
      BY <1>3, <3>1 DEF Docount, UnitFits
    <3>2. CASE ins # Len(Program[unit])
      <4>1. unit' = unit /\ ins' = ins + 1 /\ op' = 0 /\ executed' = executed + 1
        BY <1>3, <3>2 DEF Docount
      <4>2. ins' \in DOMAIN Program[unit]
        BY <2>1, <3>2, <4>1, UnitFacts
      <4>3. Program[unit][ins'].accesses \in Nat
        BY <2>1, <4>2, UnitFacts
      <4>4. UnitFits'
        <5>1. executed + Len(Program[unit]) - ins < MaxInstructions
          BY <2>1, <1>c DEF UnitFits
        <5>2. Len(Program[unit]) \in Nat /\ executed \in Nat
          BY <2>1, <1>c, UnitFacts DEF TypeOK
        <5>3. {ins, MaxInstructions, executed, Len(Program[unit])} \subseteq Int
          BY <1>c, <2>1, <5>2
        <5>4. \A e, l, i \in Int : e + l - i < MaxInstructions => e + 1 + l - (i + 1) < MaxInstructions
          BY <5>3
        <5>5. executed + 1 + Len(Program[unit]) - (ins + 1) < MaxInstructions
          BY <5>1, <5>3, <5>4, Zenon
        <5> QED
          BY <4>1, <5>5 DEF UnitFits
      <4> QED
        BY <2>1, <4>1, <4>2, <4>3, <4>4 DEF Current
    <3> QED
      BY <3>1, <3>2
  <2> QED
    BY <1>3, <2>2, <2>3 DEF Docount, TypeOK
<1>4. CASE startROI \/ stopROI \/ GuestExit
  <2>1. /\ unit = NoUnit /\ UNCHANGED <<unit, ins, op, executed, accessCount, traces, compiled,
                                        roiInstCount, wanted, window, metInRoi>>
        /\ count' \in {count, SKIP_INST_LIMIT} /\ roiExecuted' \in {roiExecuted, 0} /\ strayed' \in {strayed, 0}
        /\ status' \in {status, "fini"} /\ isROI' \in {isROI, TRUE, FALSE}
    BY <1>4 DEF startROI, stopROI, GuestExit, tool, guest
  <2>2. /\ count' \in 0 .. SKIP_INST_LIMIT + MaxInstructions /\ CountBound' /\ UnitFits'
        /\ executed' \in 0 .. MaxInstructions /\ roiExecuted' \in 0 .. executed'
        /\ strayed' \in 0 .. executed'
    BY <2>1, <1>c DEF TypeOK, CountBound, UnitFits
  <2>3. isROI' \in BOOLEAN
    BY <2>1, Zenon DEF TypeOK
  <2> QED
    BY <2>1, <2>2, <2>3 DEF TypeOK
<1>5. CASE Fini
  <2>1. (count - SKIP_INST_LIMIT) % Modulus \in 0 .. Modulus - 1
    BY <1>c DEF TypeOK
  <2> QED
    BY <1>5, <2>1 DEF Fini, TypeOK, CountBound, UnitFits, guest, Current
<1>6. CASE Dies \/ UNCHANGED vars
  BY <1>6 DEF Dies, vars, TypeOK, CountBound, UnitFits, tool, guest, Current
<1> QED
  BY <1>1, <1>2, <1>3, <1>4, <1>5, <1>6 DEF ToolStep, Next

\* The variables of the tool have their types, with a pipe and without: the
\* trace is never longer than ACCESS_LIMIT, and the counter never wraps.
THEOREM TypeCorrect == (Spec => []TypeOK) /\ (PipeSpec => []TypeOK) /\ (ToolSpec => []TypeOK)
<1>1. Init => TypeOK /\ CountBound /\ UnitFits
  BY TypeInit
<1>2. TypeOK /\ CountBound /\ UnitFits /\ [Next \/ Dies]_vars => (TypeOK /\ CountBound /\ UnitFits)'
  BY TypeStep DEF ToolStep
<1>3. ToolSpec => []TypeOK
  BY <1>1, <1>2, PTL DEF ToolSpec
<1> QED
  BY <1>3, WithoutPipe, WithPipe, PTL

-----------------------------------------------------------------------------
(* The trace.                                                              *)

\* A unit is compiled to record when the guest enters it in the ROI, and not to
\* record when the guest never does.
Compilation ==
  \A u \in Units :
    /\ compiled[u] = "recorded" => u \in RoiUnits
    /\ compiled[u] \in {"plain", "counted"} => u \in OtherUnits

\* So in a unit the code that runs is that of the ROI exactly in the ROI, where
\* the skipped instructions are over.
Where ==
  unit # NoUnit =>
    /\ window <=> compiled[unit] = "recorded"
    /\ window => count >= SKIP_INST_LIMIT

\* While the guest runs nothing is left out at the end of the trace.
Complete == status = "running" => traces = wanted

Recording == Compilation /\ Where /\ Complete /\ RoiExact

LEMMA RecordingStep ==
  ASSUME Disciplined
  PROVE  TypeOK /\ Recording /\ ToolStep => Recording'
<1> SUFFICES ASSUME TypeOK, Recording, ToolStep
             PROVE  Recording'
  BY DEF Disciplined
<1>c. /\ SKIP_INST_LIMIT \in Nat /\ NoUnit \notin Units
      /\ RoiUnits \subseteq Units /\ OtherUnits \subseteq Units
  BY PinAssumption
<1>1. ASSUME NEW u \in Units, Enter(u)
      PROVE  Recording'
  <2>1. /\ compiled' = [compiled EXCEPT ![u] = IF @ = "cold" THEN Instruction ELSE @]
        /\ unit' = u /\ count' = count
        /\ u \in RoiUnits => window'
        /\ u \in OtherUnits => ~window'
    BY <1>1 DEF Enter
  <2>2. window' = (isROI /\ count >= SKIP_INST_LIMIT)
    BY <1>1 DEF Enter
  <2>3. compiled'[u] = IF compiled[u] = "cold" THEN Instruction ELSE compiled[u]
    BY <2>1 DEF TypeOK
  <2>4. u \in RoiUnits \/ u \in OtherUnits
    BY DEF Disciplined
  <2>5. /\ compiled'[u] \in {"plain", "counted", "recorded"}
        /\ Instruction = "recorded" <=> window'
    BY <2>2, <2>3 DEF Instruction, TypeOK
  <2>6. /\ compiled'[u] = "recorded" => u \in RoiUnits
        /\ compiled'[u] \in {"plain", "counted"} => u \in OtherUnits
    BY <2>1, <2>3, <2>4, <2>5 DEF Recording, Compilation
  <2>7. Compilation'
    BY <2>1, <2>6 DEF Recording, Compilation, TypeOK
  <2>8. Where'
    BY <2>1, <2>2, <2>5, <2>6 DEF Where
  <2>9. (Complete /\ RoiExact)'
    BY <1>1 DEF Enter, Recording, Complete, RoiExact
  <2> QED
    BY <2>7, <2>8, <2>9 DEF Recording
<1>2. ASSUME NEW addr \in Addrs, MemoryAccess(addr)
      PROVE  Recording'
  <2>1. Compilation' /\ Where'
    BY <1>2 DEF MemoryAccess, Recording, Compilation, Where
  <2>2. unit \in Units /\ Current.accesses > 0 /\ ~Current.syscall
    BY <1>2, UnitFacts DEF MemoryAccess, TypeOK, Current
  <2>3. traces = wanted /\ Len(traces) = accessCount
    BY <1>2 DEF MemoryAccess, Recording, Complete, RoiExact
  <2>4. CASE window
    <3>1. wanted' = Append(wanted, addr)
      BY <1>2, <2>4 DEF MemoryAccess
    <3>2. compiled[unit] = "recorded"
      BY <1>2, <2>4 DEF MemoryAccess, Recording, Where
    <3>3. ASSUME Record(addr)
          PROVE  (Complete /\ RoiExact)'
      <4>1. traces \in Seq(Addrs) /\ Len(Append(traces, addr)) = Len(traces) + 1
        BY DEF TypeOK
      <4>2. traces' = wanted' /\ Len(traces') = accessCount'
        BY <2>3, <3>1, <3>3, <4>1 DEF Record
      <4> QED
        BY <4>2 DEF Complete, RoiExact
    <3>4. ASSUME LimitReached
          PROVE  (Complete /\ RoiExact)'
      <4>1. /\ accessCount' = ACCESS_LIMIT /\ status' # "running"
            /\ traces' = traces /\ wanted' = Append(traces', addr)
            /\ Len(traces') = accessCount'
        BY <2>3, <3>1, <3>4 DEF LimitReached
      <4> QED
        BY <4>1 DEF Complete, RoiExact
    <3>5. Record(addr) \/ LimitReached
      BY <1>2, <2>2, <3>2 DEF MemoryAccess
    <3>6. (Complete /\ RoiExact)'
      BY <3>3, <3>4, <3>5
    <3> QED
      BY <2>1, <3>6 DEF Recording
  <2>5. CASE ~window
    <3>1. compiled[unit] # "recorded"
      BY <1>2, <2>5 DEF MemoryAccess, Recording, Where
    <3>2. (Complete /\ RoiExact)'
      BY <1>2, <2>3, <2>5, <3>1 DEF MemoryAccess, Complete, RoiExact
    <3> QED
      BY <2>1, <3>2 DEF Recording
  <2> QED
    BY <2>4, <2>5
<1>3. CASE Docount
  <2>1. Where'
    BY <1>3, <1>c DEF Docount, Recording, Where, TypeOK
  <2>2. (Compilation /\ Complete /\ RoiExact)'
    BY <1>3 DEF Docount, Recording, Compilation, Complete, RoiExact
  <2> QED
    BY <2>1, <2>2 DEF Recording
<1>4. CASE startROI \/ stopROI \/ GuestExit \/ Fini \/ Dies \/ UNCHANGED vars
  <2>1. /\ UNCHANGED <<compiled, unit, window, traces, wanted, accessCount>>
        /\ count' = count \/ unit = NoUnit
        /\ status' = status \/ status' # "running"
    BY <1>4 DEF startROI, stopROI, GuestExit, Fini, Dies, vars, tool, guest
  <2> QED
    BY <2>1 DEF Recording, Compilation, Where, Complete, RoiExact
<1> QED
  BY <1>1, <1>2, <1>3, <1>4 DEF ToolStep, Next

LEMMA RecordingCorrect ==
  ASSUME Disciplined
  PROVE  ToolSpec => []Recording
<1>1. Init => Recording
  BY DEF Init, Recording, Compilation, Where, Complete, RoiExact
<1>2. TypeOK /\ Recording /\ [Next \/ Dies]_vars => Recording'
  BY RecordingStep DEF ToolStep
<1> QED
  BY <1>1, <1>2, TypeCorrect, PTL DEF ToolSpec

\* RoiExact: for a guest that keeps each unit to one side of the ROI, what the
\* tool has recorded is at any time what the guest accessed in the ROI, up to the
\* access limit, and one access ahead of it the guest is stopped.
THEOREM RoiExactCorrect ==
  ASSUME Disciplined
  PROVE  (Spec => []RoiExact) /\ (PipeSpec => []RoiExact)
<1>1. Recording => RoiExact
  BY DEF Recording
<1>2. ToolSpec => []RoiExact
  BY <1>1, RecordingCorrect, PTL
<1> QED
  BY <1>2, WithoutPipe, WithPipe, PTL

-----------------------------------------------------------------------------
(* The count of the instructions.                                          *)

\* The units with a call of docount are those that the guest met in the ROI.
Instrumented ==
  /\ \A u \in Units : u \in metInRoi <=> compiled[u] \in {"counted", "recorded"}
  /\ unit # NoUnit => compiled[unit] # "cold"

\* docount runs for every instruction of the ROI but the syscalls, and for those
\* that stray, from SKIP_INST_LIMIT on; ...
RoiCounted ==
  /\ count >= SKIP_INST_LIMIT => count - SKIP_INST_LIMIT = roiExecuted + strayed
  /\ count < SKIP_INST_LIMIT => roiExecuted = 0 /\ strayed = 0

\* ... the tool subtracts that again, once, when the limit is reached or in Fini,
\* where the difference wraps for a guest that did not come past the skip.
Reported ==
  /\ status = "running" => roiInstCount = 0
  /\ status = "fini" /\ count >= SKIP_INST_LIMIT =>
       roiInstCount \in {0, count - SKIP_INST_LIMIT}
  /\ status = "fini" /\ count < SKIP_INST_LIMIT => roiInstCount = 0
  /\ status = "done" /\ count >= SKIP_INST_LIMIT => roiInstCount = count - SKIP_INST_LIMIT
  /\ status = "done" /\ count < SKIP_INST_LIMIT => roiInstCount > MaxInstructions

Counting == Instrumented /\ RoiCounted /\ Reported

LEMMA CountingStep == TypeOK /\ Recording /\ Counting /\ ToolStep => Counting'
<1> SUFFICES ASSUME TypeOK, Recording, Counting, ToolStep
             PROVE  Counting'
  OBVIOUS
<1>c. /\ SKIP_INST_LIMIT \in Nat /\ NoUnit \notin Units /\ MaxInstructions \in Nat
      /\ Modulus \in Nat /\ Modulus > SKIP_INST_LIMIT + MaxInstructions
  BY PinAssumption
<1>d. count >= SKIP_INST_LIMIT => (count - SKIP_INST_LIMIT) % Modulus = count - SKIP_INST_LIMIT
  <2> SUFFICES ASSUME count >= SKIP_INST_LIMIT
               PROVE  (count - SKIP_INST_LIMIT) % Modulus = count - SKIP_INST_LIMIT
    OBVIOUS
  <2>1. count - SKIP_INST_LIMIT \in 0 .. Modulus - 1
    BY <1>c DEF TypeOK
  <2> QED
    BY <1>c, <2>1
<1>e. count < SKIP_INST_LIMIT => (count - SKIP_INST_LIMIT) % Modulus > MaxInstructions
  <2> SUFFICES ASSUME count < SKIP_INST_LIMIT
               PROVE  (count - SKIP_INST_LIMIT) % Modulus > MaxInstructions
    OBVIOUS
  <2> DEFINE lack == SKIP_INST_LIMIT - count
  <2>1. count \in Nat /\ lack \in 1 .. SKIP_INST_LIMIT /\ count - SKIP_INST_LIMIT = 0 - lack
    BY <1>c DEF TypeOK
  <2> HIDE DEF lack
  <2>2. Modulus - lack \in 0 .. Modulus - 1 /\ Modulus - lack > MaxInstructions
    BY <1>c, <2>1
  <2>3. (0 - lack) % Modulus = Modulus - lack
    BY <1>c, <2>1, <2>2
  <2> QED
    BY <2>1, <2>2, <2>3
<1>1. ASSUME NEW u \in Units, Enter(u)
      PROVE  Counting'
  <2>1. /\ UNCHANGED <<count, roiExecuted, strayed, roiInstCount, status>>
        /\ unit' = u
        /\ compiled' = [compiled EXCEPT ![u] = IF @ = "cold" THEN Instruction ELSE @]
        /\ metInRoi' = IF isROI /\ compiled[u] = "cold" THEN metInRoi \union {u} ELSE metInRoi
    BY <1>1 DEF Enter
  <2>2. /\ Instruction \in {"plain", "counted", "recorded"}
        /\ isROI <=> Instruction \in {"counted", "recorded"}
    BY DEF Instruction
  <2>3. /\ compiled'[u] = IF compiled[u] = "cold" THEN Instruction ELSE compiled[u]
        /\ \A v \in Units \ {u} : compiled'[v] = compiled[v]
    BY <2>1 DEF TypeOK
  <2>4. Instrumented'
    BY <2>1, <2>2, <2>3 DEF Counting, Instrumented
  <2>5. RoiCounted' /\ Reported'
    BY <2>1 DEF Counting, RoiCounted, Reported
  <2> QED
    BY <2>4, <2>5 DEF Counting
<1>2. ASSUME NEW addr \in Addrs, MemoryAccess(addr)
      PROVE  Counting'
  <2>1. status = "running"
        /\ UNCHANGED <<count, roiExecuted, strayed, metInRoi, compiled, unit>>
    BY <1>2 DEF MemoryAccess
  <2>a. Instrumented' /\ RoiCounted'
    BY <2>1 DEF Counting, Instrumented, RoiCounted
  <2>2. CASE compiled[unit] = "recorded" /\ LimitReached
    <3>1. count >= SKIP_INST_LIMIT
      BY <1>2, <2>2 DEF MemoryAccess, Recording, Where
    <3>2. count' = count /\ count \in Nat /\ status' = "fini"
          /\ roiInstCount' = count - SKIP_INST_LIMIT
      BY <2>1, <2>2, <3>1, <1>d DEF LimitReached, TypeOK
    <3>3. Reported'
      BY <3>1, <3>2, <1>c DEF Reported
    <3> QED
      BY <2>a, <3>3 DEF Counting
  <2>3. CASE UNCHANGED <<roiInstCount, status>>
    BY <2>1, <2>3, <2>a DEF Counting, Reported
  <2> QED
    BY <1>2, <2>2, <2>3 DEF MemoryAccess, Record
<1>3. CASE Docount
  <2>1. /\ status = "running" /\ UNCHANGED <<roiInstCount, status, metInRoi, compiled>>
        /\ unit' \in {unit, NoUnit}
        /\ strayed' = IF Strays THEN strayed + 1 ELSE strayed
        /\ count' = IF Counts THEN count + 1 ELSE count
        /\ roiExecuted' = IF window /\ ~Current.syscall THEN roiExecuted + 1 ELSE roiExecuted
        /\ unit # NoUnit
    BY <1>3 DEF Docount
  <2>2. window /\ ~Current.syscall => Counts /\ count >= SKIP_INST_LIMIT
    BY <2>1 DEF Recording, Where, Counts
  <2>3. count \in Nat /\ roiExecuted \in Nat /\ strayed \in Nat
    BY <1>c DEF TypeOK
  <2>4. ~window => (Strays <=> Counts /\ count >= SKIP_INST_LIMIT)
    <3>1. unit \in Units /\ compiled[unit] \in {"plain", "counted", "recorded"}
      BY <2>1 DEF TypeOK, Counting, Instrumented
    <3>2. unit \in metInRoi <=> compiled[unit] # "plain"
      BY <3>1 DEF Counting, Instrumented
    <3> QED
      BY <3>2 DEF Strays, Counts
  <2>5. CASE window
    <3>1. ~Strays
      BY <2>5 DEF Strays
    <3> QED
      BY <2>1, <2>2, <2>3, <2>5, <3>1, <1>c DEF Counting, Instrumented, RoiCounted, Reported, Counts
  <2>6. CASE ~window
    BY <2>1, <2>3, <2>4, <2>6, <1>c DEF Counting, Instrumented, RoiCounted, Reported
  <2> QED
    BY <2>5, <2>6
<1>4. CASE startROI
  BY <1>4, <1>c DEF startROI, Counting, Instrumented, RoiCounted, Reported
<1>5. CASE stopROI \/ GuestExit
  BY <1>5, <1>c DEF stopROI, GuestExit, tool, guest, Counting, Instrumented, RoiCounted, Reported,
     TypeOK
<1>6. CASE Fini
  <2>1. /\ status = "fini" /\ status' = "done"
        /\ UNCHANGED <<count, compiled, unit, metInRoi, roiExecuted, strayed>>
        /\ roiInstCount' = IF roiInstCount = 0 THEN (count - SKIP_INST_LIMIT) % Modulus
                           ELSE roiInstCount
    BY <1>6 DEF Fini, guest
  <2>2. count \in Nat
    BY <1>c DEF TypeOK
  <2>3. Reported'
    BY <2>1, <2>2, <1>c, <1>d, <1>e DEF Counting, Reported
  <2> QED
    BY <2>1, <2>3 DEF Counting, Instrumented, RoiCounted
<1>7. CASE Dies \/ UNCHANGED vars
  BY <1>7 DEF Dies, tool, guest, vars, Counting, Instrumented, RoiCounted, Reported
<1> QED
  BY <1>1, <1>2, <1>3, <1>4, <1>5, <1>6, <1>7 DEF ToolStep, Next

\* RoiCount: for such a guest, the instruction count that is reported is that of
\* the ROI after the last PIN_Start and of the code that strayed from it, exactly.
THEOREM RoiCountCorrect ==
  ASSUME Disciplined
  PROVE  (Spec => []RoiCount) /\ (PipeSpec => []RoiCount)
<1>1. Init => Counting
  BY PinAssumption DEF Init, Counting, Instrumented, RoiCounted, Reported
<1>2. TypeOK /\ Recording /\ Counting /\ [Next \/ Dies]_vars => Counting'
  BY CountingStep DEF ToolStep
<1>3. TypeOK /\ Counting => RoiCount
  BY PinAssumption DEF TypeOK, Counting, RoiCounted, Reported, RoiCount
<1>4. ToolSpec => []RoiCount
  BY <1>1, <1>2, <1>3, TypeCorrect, RecordingCorrect, PTL DEF ToolSpec
<1> QED
  BY <1>4, WithoutPipe, WithPipe, PTL

-----------------------------------------------------------------------------
(* The pipe.                                                               *)

\* The g bytes of the guest, and behind them bytes of the trace: none before
\* Fini, all of them after it.
Written(g) ==
  /\ g \in 0 .. Len(stderr)
  /\ \A n \in 1 .. Len(stderr) : stderr[n] = IF n <= g THEN GuestByte ELSE Dumped[n - g]
  /\ Len(stderr) <= g + Len(Dumped)
  /\ status \in {"running", "fini"} => Len(stderr) = g
  /\ status = "done" => Len(stderr) = g + Len(Dumped)

Piped ==
  /\ stderr \in Seq((Addrs \union {Mixed}) \X Nat)
  /\ \E g \in Nat : Written(g)
  /\ file # NULL => file = stderr /\ status \in {"done", "killed"}
  /\ memoryTraces # NULL =>
       file # NULL /\ memoryTraces = [k \in DOMAIN Words |-> Value(Words[k])]

\* Byte b of word k, and nothing else, is at place (k - 1) * WordSize + b.
LEMMA PlaceOfByte ==
  ASSUME NEW k \in Nat, NEW b \in 1 .. WordSize
  PROVE  /\ k * WordSize + b \in Nat \ {0}
         /\ (k * WordSize + b - 1) \div WordSize = k
         /\ (k * WordSize + b - 1) % WordSize = b - 1
<1> DEFINE x == k * WordSize + b - 1
<1>1. WordSize \in Nat \ {0} /\ k * WordSize \in Nat
  BY PipeAssumption
<1>2. x \in Nat /\ x = k * WordSize + (b - 1) /\ b - 1 \in 0 .. WordSize - 1
  BY <1>1
<1>3. x \div WordSize \in Nat /\ x % WordSize \in 0 .. WordSize - 1
      /\ x = (x \div WordSize) * WordSize + (x % WordSize)
  BY <1>1, <1>2, DivMod
<1>4. x % WordSize = (b - 1) % WordSize
  <2>1. (WordSize * k + (b - 1)) % WordSize = (b - 1) % WordSize
    BY <1>1, <1>2, ModOfMultiple
  <2> QED
    BY <1>1, <1>2, <2>1
<1>5. (b - 1) % WordSize = b - 1
  BY <1>1, <1>2
<1>6. (x \div WordSize) * WordSize = k * WordSize
  BY <1>1, <1>2, <1>3, <1>4, <1>5
<1>7. x \div WordSize = k
  BY <1>1, <1>3, <1>6
<1> QED
  BY <1>1, <1>4, <1>5, <1>7

\* What Fini writes.
LEMMA DumpedBytes ==
  ASSUME TypeOK
  PROVE  /\ Dumped \in Seq((Addrs \union {Mixed}) \X Nat)
         /\ Len(Dumped) = Len(traces) * WordSize
         /\ Len(Dumped) \in Nat
         /\ \A n \in 1 .. Len(Dumped) :
              /\ (n - 1) \div WordSize + 1 \in 1 .. Len(traces)
              /\ Dumped[n] = <<traces[(n - 1) \div WordSize + 1], ((n - 1) % WordSize) + 1>>
<1>1. WordSize \in Nat \ {0}
  BY PipeAssumption
<1>2. Len(traces) \in Nat /\ \A k \in 1 .. Len(traces) : traces[k] \in Addrs
  BY DEF TypeOK
<1>3. Len(traces) * WordSize \in Nat
  BY <1>1, <1>2
<1>4. ASSUME NEW n \in 1 .. Len(traces) * WordSize
      PROVE  /\ (n - 1) \div WordSize + 1 \in 1 .. Len(traces)
             /\ ((n - 1) % WordSize) + 1 \in 1 .. WordSize
  <2> DEFINE q == (n - 1) \div WordSize
             r == (n - 1) % WordSize
  <2>0. n - 1 \in Nat
    BY <1>3
  <2>1. q \in Nat /\ r \in 0 .. WordSize - 1 /\ n - 1 = q * WordSize + r
    BY <1>1, <2>0, DivMod
  <2>2. q < Len(traces)
    <3>1. SUFFICES ASSUME q >= Len(traces)
                   PROVE  FALSE
      BY <1>2, <2>1
    <3>2. q * WordSize >= Len(traces) * WordSize
      BY <1>1, <1>2, <2>1, <3>1
    <3> QED
      BY <1>1, <1>3, <2>1, <3>2
  <2> QED
    BY <1>1, <1>2, <2>1, <2>2
<1>5. Dumped = [n \in 1 .. Len(traces) * WordSize |->
                  <<traces[(n - 1) \div WordSize + 1], ((n - 1) % WordSize) + 1>>]
  BY <1>4 DEF Dumped, TraceBytes, Bytes
<1>6. \A n \in 1 .. Len(traces) * WordSize : Dumped[n] \in (Addrs \union {Mixed}) \X Nat
  BY <1>1, <1>2, <1>4, <1>5
<1>7. Len(Dumped) = Len(traces) * WordSize
  BY <1>3, <1>5
<1>8. Dumped \in Seq((Addrs \union {Mixed}) \X Nat)
  BY <1>3, <1>5, <1>6
<1> QED
  BY <1>3, <1>4, <1>5, <1>7, <1>8

LEMMA PipedInit == PipeInit => Piped
<1> SUFFICES ASSUME PipeInit
             PROVE  Piped
  OBVIOUS
<1>1. stderr = <<>> /\ file = NULL /\ memoryTraces = NULL /\ status = "running"
  BY DEF PipeInit, Init
<1>2. Len(Dumped) \in Nat
  BY TypeInit, DumpedBytes DEF PipeInit
<1>3. Written(0)
  BY <1>1, <1>2 DEF Written
<1> QED
  BY <1>1, <1>3 DEF Piped

LEMMA PipedStep == TypeOK /\ TypeOK' /\ Piped /\ [PipeNext]_<<vars, pipe>> => Piped'
<1> SUFFICES ASSUME TypeOK, TypeOK', Piped, [PipeNext]_<<vars, pipe>>
             PROVE  Piped'
  OBVIOUS
<1> DEFINE Origin == (Addrs \union {Mixed}) \X Nat
<1>s. stderr \in Seq(Origin) /\ Len(stderr) \in Nat
  BY DEF Piped
<1>g. PICK g \in Nat : Written(g)
  BY DEF Piped
<1>d. /\ Dumped \in Seq(Origin) /\ Len(Dumped) \in Nat
      /\ Len(Dumped') \in Nat
  <2>1. TypeOK => Dumped \in Seq(Origin) /\ Len(Dumped) \in Nat
    BY DumpedBytes
  <2>2. Len(traces') * WordSize \in Nat
    BY PipeAssumption DEF TypeOK
  <2>3. DOMAIN Dumped' = 1 .. Len(traces') * WordSize
    BY DEF Dumped, TraceBytes
  <2>4. Len(Dumped') = Len(traces') * WordSize
    BY <2>2, <2>3
  <2> QED
    BY <2>1, <2>2, <2>4
<1>1. ASSUME status = "running", status' \in {"running", "fini"}, UNCHANGED pipe
      PROVE  Piped'
  <2>1. Len(stderr) = g
    BY <1>1, <1>g DEF Written
  <2>2. Written(g)'
    BY <1>1, <1>g, <1>d, <1>s, <2>1 DEF Written, pipe
  <2>3. file = NULL /\ memoryTraces = NULL
    BY <1>1 DEF Piped
  <2> QED
    BY <1>1, <1>s, <2>2, <2>3 DEF Piped, pipe
<1>2. CASE GuestWrites
  <2>1. /\ status = "running" /\ UNCHANGED <<vars, file, memoryTraces>>
        /\ stderr' = Append(stderr, GuestByte)
    BY <1>2 DEF GuestWrites
  <2>2. status' = status /\ Dumped' = Dumped
    BY <2>1 DEF vars, tool, Dumped, TraceBytes
  <2>3. Len(stderr) = g
    BY <2>1, <1>g DEF Written
  <2>4. GuestByte \in Origin
    BY DEF GuestByte
  <2>5. /\ stderr' \in Seq(Origin) /\ Len(stderr') = g + 1
        /\ \A n \in 1 .. g + 1 : stderr'[n] = IF n <= g THEN stderr[n] ELSE GuestByte
    BY <1>s, <2>1, <2>3, <2>4
  <2>6. \A n \in 1 .. g + 1 : stderr'[n] = GuestByte
    BY <1>g, <2>3, <2>5 DEF Written
  <2>7. Written(g + 1)'
    <3>1. g + 1 \in 0 .. Len(stderr') /\ Len(stderr') <= g + 1 + Len(Dumped')
      BY <2>2, <2>5, <1>d
    <3>2. \A n \in 1 .. Len(stderr') :
            stderr'[n] = IF n <= g + 1 THEN GuestByte ELSE Dumped'[n - (g + 1)]
      BY <2>5, <2>6
    <3>3. status' = "running" /\ Len(stderr') = g + 1
      BY <2>1, <2>2, <2>5
    <3> QED
      BY <3>1, <3>2, <3>3 DEF Written, GuestByte
  <2>8. file = NULL /\ memoryTraces = NULL
    BY <2>1 DEF Piped
  <2> QED
    BY <2>1, <2>5, <2>7, <2>8 DEF Piped
<1>3. ASSUME NEW n \in 0 .. Len(Dumped),
             /\ status = "fini" /\ stderr' = stderr \o SubSeq(Dumped, 1, n)
             /\ UNCHANGED <<traces, file, memoryTraces>>
             /\ status' \in {"killed", "done"} /\ (status' = "done" => n = Len(Dumped))
      PROVE  Piped'
  <2>1. Len(stderr) = g /\ file = NULL /\ memoryTraces = NULL
    BY <1>3, <1>g DEF Written, Piped
  <2>2. Dumped' = Dumped
    BY <1>3 DEF Dumped, TraceBytes
  <2>3. /\ SubSeq(Dumped, 1, n) \in Seq(Origin) /\ Len(SubSeq(Dumped, 1, n)) = n
        /\ \A j \in 1 .. n : SubSeq(Dumped, 1, n)[j] = Dumped[j]
    BY <1>d, <1>3
  <2>4. /\ stderr' \in Seq(Origin) /\ Len(stderr') = g + n
        /\ \A j \in 1 .. g + n :
             stderr'[j] = IF j <= g THEN stderr[j] ELSE SubSeq(Dumped, 1, n)[j - g]
    <3> DEFINE head == SubSeq(Dumped, 1, n)
    <3> HIDE DEF head, Origin
    <3>1. head \in Seq(Origin) /\ Len(head) = n /\ stderr' = stderr \o head
      BY <1>3, <2>3 DEF head, Origin
    <3>2. n \in Nat /\ stderr \in Seq(Origin) /\ Len(stderr) = g
      BY <1>s, <1>d, <2>1 DEF Origin
    <3>3. stderr' \in Seq(Origin)
      BY <3>1, <3>2, ConcatProperties
    <3>4. Len(stderr') = g + n
      BY <3>1, <3>2, ConcatProperties
    <3>5. \A j \in 1 .. g + n : stderr'[j] = IF j <= g THEN stderr[j] ELSE head[j - g]
      BY <3>1, <3>2, ConcatProperties
    <3> QED
      BY <3>3, <3>4, <3>5 DEF head, Origin
  <2>5. \A j \in 1 .. g + n : stderr'[j] = IF j <= g THEN GuestByte ELSE Dumped[j - g]
    BY <1>g, <2>1, <2>3, <2>4 DEF Written
  <2>6. Written(g)'
    <3>1. g \in 0 .. g + n /\ g + n <= g + Len(Dumped)
      BY <1>d
    <3>2. status' = "done" => g + n = g + Len(Dumped)
      BY <1>3
    <3>3. status' \notin {"running", "fini"}
      BY <1>3
    <3> QED
      BY <2>2, <2>4, <2>5, <3>1, <3>2, <3>3 DEF Written, GuestByte
  <2> QED
    BY <1>3, <2>1, <2>4, <2>6 DEF Piped
<1>4. ASSUME /\ traces' = traces /\ stderr' = stderr
             /\ status' = status \/ (status = "running" /\ status' = "killed")
             /\ \/ file' = file
                \/ status \in {"done", "killed"} /\ file = NULL /\ file' = stderr
             /\ \/ memoryTraces' = memoryTraces
                \/ /\ file # NULL /\ file' = file
                   /\ memoryTraces' = [k \in DOMAIN Words |-> Value(Words[k])]
      PROVE  Piped'
  <2>1. Dumped' = Dumped
    BY <1>4 DEF Dumped, TraceBytes
  <2>2. Written(g)'
    BY <1>4, <1>d, <1>s, <1>g, <2>1 DEF Written, GuestByte
  <2>3. file' # NULL => file' = stderr' /\ status' \in {"done", "killed"}
    BY <1>4 DEF Piped
  <2>4. CASE UNCHANGED file
    <3>1. Words' = Words
      BY <2>4 DEF Words
    <3>2. memoryTraces' # NULL =>
            file' # NULL /\ memoryTraces' = [k \in DOMAIN Words' |-> Value(Words'[k])]
      BY <1>4, <2>4, <3>1 DEF Piped
    <3> QED
      BY <1>4, <1>s, <2>2, <2>3, <3>2 DEF Piped, Value, Bytes
  <2>5. CASE file = NULL
    <3>1. memoryTraces' = NULL
      BY <1>4, <2>5 DEF Piped
    <3> QED
      BY <1>4, <1>s, <2>2, <2>3, <3>1 DEF Piped
  <2> QED
    BY <1>4, <2>4, <2>5
<1>5. CASE \/ \E u \in Units : Enter(u) /\ UNCHANGED pipe
           \/ \E addr \in Addrs : MemoryAccess(addr) /\ UNCHANGED pipe
           \/ Docount /\ UNCHANGED pipe
           \/ startROI /\ UNCHANGED pipe
           \/ stopROI /\ UNCHANGED pipe
           \/ GuestExit /\ UNCHANGED pipe
  BY <1>1, <1>5 DEF Enter, MemoryAccess, Record, LimitReached, Docount, startROI, stopROI,
                    GuestExit
<1>6. CASE Dump
  <2>1. SubSeq(Dumped, 1, Len(Dumped)) = Dumped
    BY <1>d
  <2>2. /\ status = "fini" /\ status' = "done" /\ stderr' = stderr \o Dumped
        /\ UNCHANGED <<traces, file, memoryTraces>>
    BY <1>6 DEF Dump, Fini
  <2>3. Len(Dumped) \in 0 .. Len(Dumped)
    BY <1>d
  <2> QED
    BY <1>3, <2>1, <2>2, <2>3
<1>7. CASE Killed
  <2>1. UNCHANGED <<traces, file, memoryTraces>> /\ status' = "killed"
    BY <1>7 DEF Killed, tool
  <2>2. CASE status = "running" /\ UNCHANGED stderr
    BY <1>4, <2>1, <2>2
  <2>3. CASE status = "fini" /\ \E n \in 0 .. Len(Dumped) : stderr' = stderr \o SubSeq(Dumped, 1, n)
    <3>1. PICK n \in 0 .. Len(Dumped) : stderr' = stderr \o SubSeq(Dumped, 1, n)
      BY <2>3
    <3>2. /\ status = "fini" /\ status' = "killed"
          /\ UNCHANGED <<traces, file, memoryTraces>>
      BY <2>1, <2>3
    <3> QED
      BY <1>3, <3>1, <3>2
  <2> QED
    BY <1>7, <2>2, <2>3 DEF Killed
<1>8. CASE Gzip
  <2>1. UNCHANGED <<traces, stderr>> /\ status' = status
    BY <1>8 DEF Gzip, vars, tool
  <2>2. /\ status \in {"done", "killed"} /\ file = NULL /\ file' = stderr
        /\ UNCHANGED memoryTraces
    BY <1>8 DEF Gzip
  <2> QED
    BY <1>4, <2>1, <2>2
<1>9. CASE convertGZip2MemoryTraces
  <2>1. UNCHANGED <<traces, stderr>> /\ status' = status
    BY <1>9 DEF convertGZip2MemoryTraces, vars, tool
  <2>2. /\ file # NULL /\ UNCHANGED file
        /\ memoryTraces' = [k \in DOMAIN Words |-> Value(Words[k])]
    BY <1>9 DEF convertGZip2MemoryTraces
  <2> QED
    BY <1>4, <2>1, <2>2
<1>10. CASE UNCHANGED <<vars, pipe>>
  <2>1. UNCHANGED <<traces, stderr>> /\ status' = status /\ UNCHANGED file /\ UNCHANGED memoryTraces
    BY <1>10 DEF vars, tool, pipe
  <2> QED
    BY <1>4, <2>1
<1> QED
  BY <1>2, <1>5, <1>6, <1>7, <1>8, <1>9, <1>10 DEF PipeNext

LEMMA PipedCorrect == PipeSpec => []Piped
  BY PipedInit, PipedStep, TypeCorrect, PTL DEF PipeSpec

\* Dumped bytes have addresses, so that the guest's bytes can be told from them.
LEMMA GuestBytesCounted ==
  ASSUME TypeOK, Piped, NEW g \in Nat, Written(g)
  PROVE  GuestBytes = g
<1>1. Len(stderr) \in Nat /\ DOMAIN stderr = 1 .. Len(stderr)
  BY DEF Piped
<1>w. /\ g \in 0 .. Len(stderr) /\ Len(stderr) <= g + Len(Dumped)
      /\ \A n \in 1 .. Len(stderr) : stderr[n] = IF n <= g THEN GuestByte ELSE Dumped[n - g]
  BY DEF Written
<1>2. ASSUME NEW n \in 1 .. Len(stderr), n > g
      PROVE  stderr[n] # GuestByte
  <2>0. Len(Dumped) \in Nat /\ Len(stderr) <= g + Len(Dumped)
    BY <1>w, DumpedBytes
  <2>1. n - g \in 1 .. Len(Dumped) /\ stderr[n] = Dumped[n - g]
    <3>1. n - g \in 1 .. Len(Dumped)
      BY <1>1, <1>2, <2>0
    <3>2. stderr[n] = Dumped[n - g]
      BY <1>1, <1>2, <1>w
    <3> QED
      BY <3>1, <3>2
  <2>2. \E k \in 1 .. Len(traces), b \in Int : Dumped[n - g] = <<traces[k], b>>
    <3>1. (n - g - 1) \div WordSize + 1 \in 1 .. Len(traces)
      BY <2>1, DumpedBytes
    <3>2. ((n - g - 1) % WordSize) + 1 \in Int
      BY <1>1, <1>2, PipeAssumption
    <3> QED
      BY <2>1, <3>1, <3>2, DumpedBytes
  <2>3. \A k \in 1 .. Len(traces) : traces[k] # Mixed
    BY PipeAssumption DEF TypeOK
  <2> QED
    BY <2>1, <2>2, <2>3 DEF GuestByte
<1>3. {n \in DOMAIN stderr : stderr[n] = GuestByte} = 1 .. g
  <2>1. g <= Len(stderr) /\ \A n \in 1 .. g : stderr[n] = GuestByte
    BY <1>1, <1>w
  <2> QED
    BY <1>1, <1>2, <2>1
<1>4. Cardinality(1 .. g) = g
  BY FS_Interval
<1> QED
  BY <1>3, <1>4 DEF GuestBytes

\* The words that the reader cuts, byte for byte.
LEMMA WordBytes ==
  ASSUME Piped, file # NULL, NEW k \in DOMAIN Words
  PROVE  /\ DOMAIN Words = 1 .. Len(stderr) \div WordSize
         /\ Words[k] \in Seq((Addrs \union {Mixed}) \X Nat)
         /\ Len(Words[k]) = WordSize
         /\ \A b \in 1 .. WordSize :
              /\ (k - 1) * WordSize + b \in 1 .. Len(stderr)
              /\ Words[k][b] = stderr[(k - 1) * WordSize + b]
<1> DEFINE N == Len(stderr) \div WordSize
<1>1. file = stderr /\ Len(stderr) \in Nat /\ WordSize \in Nat \ {0}
  BY PipeAssumption DEF Piped
<1>2. N \in Nat /\ N * WordSize <= Len(stderr)
  <2> DEFINE r == Len(stderr) % WordSize
  <2>1. N \in Nat /\ r \in 0 .. WordSize - 1 /\ Len(stderr) = N * WordSize + r
    BY <1>1, DivMod
  <2>2. N * WordSize \in Nat
    BY <1>1, <2>1
  <2> HIDE DEF N, r
  <2> QED
    BY <1>1, <2>1, <2>2
<1>3. DOMAIN Words = 1 .. N /\ k \in 1 .. N
  BY <1>1 DEF Words
<1>4. Words[k] = SubSeq(stderr, (k - 1) * WordSize + 1, k * WordSize)
  BY <1>1, <1>3 DEF Words
<1>5. /\ (k - 1) * WordSize \in Nat /\ k * WordSize \in Nat
      /\ k * WordSize = (k - 1) * WordSize + WordSize
      /\ k * WordSize <= N * WordSize
  BY <1>1, <1>2, <1>3
<1> HIDE DEF N
<1>6. stderr \in Seq((Addrs \union {Mixed}) \X Nat)
  BY DEF Piped
<1> DEFINE low == (k - 1) * WordSize
           high == k * WordSize
<1>7. low \in Nat /\ high = low + WordSize /\ high <= Len(stderr)
  BY <1>1, <1>2, <1>5
<1> HIDE DEF low, high
<1>8. /\ SubSeq(stderr, low + 1, high) \in Seq((Addrs \union {Mixed}) \X Nat)
      /\ Len(SubSeq(stderr, low + 1, high)) = WordSize
      /\ \A b \in 1 .. WordSize :
           low + b \in 1 .. Len(stderr) /\ SubSeq(stderr, low + 1, high)[b] = stderr[low + b]
  <2> DEFINE word == SubSeq(stderr, low + 1, high)
  <2>1. \A n \in low + 1 .. high : stderr[n] \in (Addrs \union {Mixed}) \X Nat
    BY <1>1, <1>6, <1>7
  <2>2. low + 1 \in Int /\ high \in Int /\ low + 1 <= high /\ high - (low + 1) + 1 = WordSize
    BY <1>1, <1>7
  <2>3. /\ word \in Seq((Addrs \union {Mixed}) \X Nat) /\ Len(word) = WordSize
        /\ \A b \in 1 .. WordSize : word[b] = stderr[low + 1 + b - 1]
    BY <2>1, <2>2, SubSeqProperties
  <2>4. \A b \in 1 .. WordSize : low + 1 + b - 1 = low + b /\ low + b \in 1 .. Len(stderr)
    BY <1>1, <1>7
  <2> QED
    BY <2>3, <2>4
<1> QED
  BY <1>3, <1>4, <1>8 DEF low, high, N

\* What a word is worth is decided by its bytes.
LEMMA ValueOfWord ==
  ASSUME NEW word
  PROVE  /\ \A addr \in Addrs : word = Bytes(addr) => Value(word) = addr
         /\ word[1][2] # 1 \/ word[1][1] \notin Addrs => Value(word) = Mixed
<1>1. \A addr \in Addrs : Bytes(addr)[1] = <<addr, 1>>
  BY PipeAssumption DEF Bytes
<1>2. \A addr, other \in Addrs : Bytes(addr) = Bytes(other) => addr = other
  BY <1>1
<1>3. ASSUME NEW addr \in Addrs, word = Bytes(addr)
      PROVE  Value(word) = addr
  BY <1>2, <1>3 DEF Value
<1>4. ASSUME word[1][2] # 1 \/ word[1][1] \notin Addrs
      PROVE  Value(word) = Mixed
  <2>1. \A addr \in Addrs : word # Bytes(addr)
    BY <1>1, <1>4
  <2> QED
    BY <2>1 DEF Value
<1> QED
  BY <1>3, <1>4

\* A word that begins with a byte of the guest.
LEMMA GuestWord ==
  ASSUME Piped, file # NULL, NEW g \in Nat, Written(g), NEW k \in DOMAIN Words,
         (k - 1) * WordSize + 1 <= g
  PROVE  Value(Words[k]) = Mixed
<1>1. WordSize \in Nat \ {0} /\ Mixed \notin Addrs
  BY PipeAssumption
<1>2. /\ (k - 1) * WordSize + 1 \in 1 .. Len(stderr)
      /\ Words[k][1] = stderr[(k - 1) * WordSize + 1]
  BY <1>1, WordBytes
<1>3. Words[k][1] = GuestByte
  BY <1>2 DEF Written
<1> QED
  BY <1>1, <1>3, ValueOfWord DEF GuestByte

\* A word behind a whole number of the guest's words is an address of the trace.
LEMMA TraceWord ==
  ASSUME TypeOK, Piped, file # NULL, NEW m \in Nat, Written(m * WordSize),
         NEW k \in DOMAIN Words, k > m
  PROVE  k - m \in 1 .. Len(traces) /\ Value(Words[k]) = traces[k - m]
<1>1. WordSize \in Nat \ {0} /\ Len(traces) \in Nat /\ k \in Nat \ {0}
  <2>1. WordSize \in Nat \ {0} /\ Len(traces) \in Nat
    BY PipeAssumption DEF TypeOK
  <2>2. k \in 1 .. Len(stderr) \div WordSize /\ Len(stderr) \in Nat
    <3>1. DOMAIN Words = 1 .. Len(stderr) \div WordSize
      BY WordBytes
    <3>2. Len(stderr) \in Nat
      BY DEF Piped
    <3> QED
      BY <3>1, <3>2
  <2>3. Len(stderr) \div WordSize \in Nat
    BY <2>1, <2>2
  <2> QED
    BY <2>1, <2>2, <2>3
<1> DEFINE j == k - m - 1
           g == m * WordSize
<1>2. j \in Nat /\ g \in Nat /\ (k - 1) * WordSize = g + j * WordSize /\ j * WordSize \in Nat
  BY <1>1
<1>3. ASSUME NEW b \in 1 .. WordSize
      PROVE  /\ j * WordSize + b \in 1 .. Len(Dumped)
             /\ Words[k][b] = Dumped[j * WordSize + b]
  <2>1. /\ (k - 1) * WordSize + b \in 1 .. Len(stderr)
        /\ Words[k][b] = stderr[(k - 1) * WordSize + b]
    BY WordBytes
  <2> DEFINE p == j * WordSize
  <2>2. p \in Nat /\ (k - 1) * WordSize + b = g + p + b
    BY <1>1, <1>2
  <2> HIDE DEF p, g
  <2>3. Len(stderr) \in Nat /\ Len(Dumped) \in Nat
    BY DumpedBytes DEF Piped
  <2>4. \A n \in 1 .. Len(stderr) : stderr[n] = IF n <= g THEN GuestByte ELSE Dumped[n - g]
    BY DEF Written, g
  <2>5. Len(stderr) <= g + Len(Dumped) /\ g \in Nat
    BY <1>2 DEF Written, g
  <2>6. g + p + b \in 1 .. Len(stderr) /\ Words[k][b] = stderr[g + p + b]
    BY <2>1, <2>2
  <2>7. stderr[g + p + b] = Dumped[p + b]
    <3>1. ~(g + p + b <= g) /\ (g + p + b) - g = p + b
      BY <2>2, <2>5
    <3> QED
      BY <2>4, <2>6, <3>1
  <2>8. p + b \in 1 .. Len(Dumped)
    BY <2>2, <2>3, <2>5, <2>6
  <2> QED
    BY <2>6, <2>7, <2>8 DEF p
<1>4. ASSUME NEW b \in 1 .. WordSize
      PROVE  j + 1 \in 1 .. Len(traces) /\ Words[k][b] = <<traces[j + 1], b>>
  <2> DEFINE n == j * WordSize + b
  <2>1. (n - 1) \div WordSize = j /\ (n - 1) % WordSize = b - 1
    BY <1>2, PlaceOfByte
  <2>2. /\ (n - 1) \div WordSize + 1 \in 1 .. Len(traces)
        /\ Dumped[n] = <<traces[(n - 1) \div WordSize + 1], ((n - 1) % WordSize) + 1>>
    <3>1. n \in 1 .. Len(Dumped)
      BY <1>3
    <3> HIDE DEF n
    <3> QED
      BY <3>1, DumpedBytes
  <2>3. Words[k][b] = Dumped[n]
    BY <1>3
  <2>4. b - 1 + 1 = b
    BY <1>1
  <2> HIDE DEF n, j
  <2> QED
    BY <2>1, <2>2, <2>3, <2>4
<1>5. j + 1 = k - m /\ 1 \in 1 .. WordSize
  BY <1>1
<1>6. k - m \in 1 .. Len(traces) /\ traces[k - m] \in Addrs
  BY <1>4, <1>5 DEF TypeOK
<1>7. Words[k] = Bytes(traces[k - m])
  <2> DEFINE S == (Addrs \union {Mixed}) \X Nat
  <2>1. Words[k] \in Seq(S) /\ Len(Words[k]) = WordSize
    BY <1>1, WordBytes
  <2>2. Bytes(traces[k - m]) \in Seq(S) /\ Len(Bytes(traces[k - m])) = WordSize
    BY <1>1, <1>6 DEF Bytes
  <2>3. \A b \in 1 .. WordSize : Words[k][b] = Bytes(traces[k - m])[b]
    BY <1>4, <1>5 DEF Bytes
  <2> QED
    BY <2>1, <2>2, <2>3, SeqEqual
<1> QED
  BY <1>6, <1>7, ValueOfWord

\* AllOrNothing: behind a whole number of words of the guest's own, a simulator
\* reads what the guest accessed in the ROI, all of it or, after a SIGKILL, a
\* beginning; behind any other number of bytes not one address of it.
THEOREM AllOrNothingCorrect ==
  ASSUME Disciplined
  PROVE  PipeSpec => []AllOrNothing
<1>1. TypeOK /\ RoiExact /\ Piped => AllOrNothing
  <2> SUFFICES ASSUME TypeOK, RoiExact, Piped, memoryTraces # NULL
               PROVE  IF GuestBytes % WordSize = 0
                      THEN /\ IsPrefix(memoryTraces, GuestWords \o RecordedInRoi)
                           /\ IsPrefix(GuestWords, memoryTraces)
                           /\ status = "done" => memoryTraces = GuestWords \o RecordedInRoi
                      ELSE \A k \in DOMAIN memoryTraces : memoryTraces[k] = Mixed
    BY DEF AllOrNothing
  <2>1. WordSize \in Nat \ {0} /\ Mixed \notin Addrs
    BY PipeAssumption
  <2>2. PICK g \in Nat : Written(g)
    BY DEF Piped
  <2>3. GuestBytes = g
    BY <2>2, GuestBytesCounted
  <2>4. /\ file # NULL /\ memoryTraces = [k \in DOMAIN Words |-> Value(Words[k])]
        /\ file = stderr /\ Len(stderr) \in Nat
    BY DEF Piped
  <2>5. DOMAIN Words = 1 .. Len(stderr) \div WordSize
    BY <2>1, <2>4 DEF Words
  <2>6. CASE g % WordSize = 0
    <3> DEFINE m == g \div WordSize
               N == Len(stderr) \div WordSize
               L == Len(traces)
               Origin == Addrs \union {Mixed}
    <3>1. m \in Nat /\ g = m * WordSize /\ N \in Nat /\ L \in Nat
      <4>1. m \in Nat /\ g = m * WordSize + (g % WordSize)
        BY <2>1, <2>2, DivMod
      <4>2. m * WordSize \in Nat
        BY <2>1, <4>1
      <4>3. N \in Nat
        BY <2>1, <2>4, DivMod
      <4>4. L \in Nat
        BY DEF TypeOK
      <4> HIDE DEF m, N, L
      <4> QED
        BY <2>6, <4>1, <4>2, <4>3, <4>4
    <3>2. Written(m * WordSize)
      BY <2>2, <3>1
    <3>3. m <= N
      <4>1. g <= Len(stderr)
        BY <2>2 DEF Written
      <4> QED
        BY <2>1, <2>2, <2>4, <4>1, DivMonotone
    <3>4. \A k \in 1 .. N : k <= m => memoryTraces[k] = Mixed
      <4> SUFFICES ASSUME NEW k \in 1 .. N, k <= m
                   PROVE  Value(Words[k]) = Mixed
        BY <2>4, <2>5
      <4>1. (k - 1) * WordSize + WordSize <= m * WordSize /\ (k - 1) * WordSize \in Nat
        BY <2>1, <3>1
      <4>2. (k - 1) * WordSize + 1 <= g
        BY <2>1, <3>1, <4>1
      <4> QED
        BY <2>2, <2>4, <2>5, <4>2, GuestWord
    <3>5. \A k \in 1 .. N : k > m => k - m \in 1 .. L /\ memoryTraces[k] = traces[k - m]
      BY <2>4, <2>5, <3>1, <3>2, TraceWord
    <3>6. N <= m + L
      BY <3>1, <3>3, <3>5
    <3>7. status = "done" => N = m + L
      <4> SUFFICES ASSUME status = "done"
                   PROVE  N = m + L
        OBVIOUS
      <4>1. Len(stderr) = m * WordSize + L * WordSize
        BY <3>2, DumpedBytes DEF Written
      <4>2. Len(stderr) = (m + L) * WordSize + 0 /\ m + L \in Nat
        BY <2>1, <3>1, <4>1
      <4> QED
        BY <2>1, <4>2
    <3>8. RecordedInRoi = traces
      <4>1. L = accessCount /\ traces \in Seq(Addrs) /\ wanted \in Seq(Addrs)
        BY DEF RoiExact, TypeOK
      <4>2. CASE traces = wanted
        BY <4>1, <4>2 DEF RecordedInRoi
      <4>3. CASE \E addr \in Addrs : wanted = Append(traces, addr)
        BY <4>1, <4>3 DEF RecordedInRoi
      <4> QED
        BY <4>2, <4>3 DEF RoiExact
    <3>9. /\ GuestWords \in Seq(Origin) /\ Len(GuestWords) = m
          /\ \A k \in 1 .. m : GuestWords[k] = Mixed
      BY <2>3, <3>1 DEF GuestWords
    <3>10. traces \in Seq(Origin) /\ \A k \in 1 .. L : traces[k] \in Origin
      BY DEF TypeOK
    <3> DEFINE all == GuestWords \o RecordedInRoi
    <3>11. /\ all \in Seq(Origin) /\ Len(all) = m + L
           /\ \A k \in 1 .. m + L : all[k] = IF k <= m THEN Mixed ELSE traces[k - m]
      <4>1. /\ all \in Seq(Origin) /\ Len(all) = m + L
            /\ \A k \in 1 .. m + L : all[k] = IF k <= m THEN GuestWords[k] ELSE traces[k - m]
        <5>1. all = GuestWords \o traces
          BY <3>8
        <5> HIDE DEF all, m, L, Origin
        <5>2. GuestWords \in Seq(Origin) /\ traces \in Seq(Origin)
          BY <3>9, <3>10
        <5>3. /\ GuestWords \o traces \in Seq(Origin)
              /\ Len(GuestWords \o traces) = Len(GuestWords) + Len(traces)
              /\ \A k \in 1 .. Len(GuestWords) + Len(traces) : (GuestWords \o traces)[k] =
                   IF k <= Len(GuestWords) THEN GuestWords[k] ELSE traces[k - Len(GuestWords)]
          BY <5>2, ConcatProperties
        <5> QED
          BY <3>9, <5>1, <5>3 DEF L
      <4> QED
        BY <3>1, <3>9, <4>1
    <3> HIDE DEF all, m, N, L, Origin
    <3>12. \A k \in 1 .. N : memoryTraces[k] = all[k]
      BY SMTT(60), <3>1, <3>4, <3>5, <3>6, <3>11
    <3>13. memoryTraces \in Seq(Origin) /\ Len(memoryTraces) = N
      <4>1. DOMAIN memoryTraces = 1 .. N /\ memoryTraces = [k \in 1 .. N |-> memoryTraces[k]]
        BY <2>4, <2>5 DEF N
      <4>2. \A k \in 1 .. N : all[k] \in Origin
        BY <3>1, <3>6, <3>11
      <4> QED
        BY <3>1, <3>12, <4>1, <4>2
    <3>14. IsPrefix(memoryTraces, all)
      <4>1. /\ SubSeq(memoryTraces, 1, N) = memoryTraces
            /\ SubSeq(all, 1, N) \in Seq(Origin) /\ Len(SubSeq(all, 1, N)) = N
            /\ \A k \in 1 .. N : SubSeq(all, 1, N)[k] = all[k]
        BY <3>1, <3>6, <3>11, <3>13
      <4>2. SubSeq(all, 1, N) = memoryTraces
        BY <3>12, <3>13, <4>1, SeqEqual
      <4> QED
        BY <3>6, <3>11, <3>13, <4>1, <4>2 DEF IsPrefix
    <3>15. IsPrefix(GuestWords, memoryTraces)
      <4>1. /\ SubSeq(GuestWords, 1, m) = GuestWords
            /\ SubSeq(memoryTraces, 1, m) \in Seq(Origin) /\ Len(SubSeq(memoryTraces, 1, m)) = m
            /\ \A k \in 1 .. m : SubSeq(memoryTraces, 1, m)[k] = memoryTraces[k]
        BY <3>1, <3>3, <3>9, <3>13
      <4>2. \A k \in 1 .. m : memoryTraces[k] = GuestWords[k]
        BY <3>1, <3>3, <3>4, <3>9
      <4>3. SubSeq(memoryTraces, 1, m) = GuestWords
        BY <3>9, <4>1, <4>2, SeqEqual
      <4> QED
        BY <3>3, <3>9, <3>13, <4>1, <4>3 DEF IsPrefix
    <3>16. status = "done" => memoryTraces = all
      BY <3>7, <3>11, <3>12, <3>13, SeqEqual
    <3> QED
      BY <2>3, <2>6, <3>14, <3>15, <3>16 DEF all
  <2>7. CASE g % WordSize # 0
    <3>1. ASSUME NEW k \in DOMAIN Words
          PROVE  Value(Words[k]) = Mixed
      <4> DEFINE low == (k - 1) * WordSize
      <4>1. CASE low + 1 <= g
        BY <2>2, <2>4, <4>1, GuestWord
      <4>2. CASE ~(low + 1 <= g)
        <5>1. k \in Nat \ {0} /\ low \in Nat
          BY <2>1, <2>4, <2>5
        <5>2. /\ low + 1 \in 1 .. Len(stderr) /\ Words[k][1] = stderr[low + 1]
          BY <2>1, <2>4, WordBytes
        <5> HIDE DEF low
        <5>3. Words[k][1] = Dumped[low + 1 - g] /\ low + 1 - g \in 1 .. Len(Dumped)
          BY <2>2, <2>4, <4>2, <5>1, <5>2, DumpedBytes DEF Written
        <5>4. Words[k][1][2] = ((low - g) % WordSize) + 1
          <6>1. (low + 1 - g) - 1 = low - g
            BY <2>2, <5>1
          <6> QED
            BY <5>3, <6>1, DumpedBytes
        <5>5. (low - g) % WordSize # 0
          <6>1. SUFFICES ASSUME (low - g) % WordSize = 0
                         PROVE  FALSE
            OBVIOUS
          <6> DEFINE d == (low - g) \div WordSize
          <6>2. low - g \in Nat /\ d \in Nat /\ low - g = d * WordSize
            <7>1. low - g \in Nat
              BY <2>2, <4>2, <5>1
            <7>2. d \in Nat /\ low - g = d * WordSize + ((low - g) % WordSize)
              BY <2>1, <7>1, DivMod
            <7>3. d * WordSize \in Nat
              BY <2>1, <7>2
            <7> HIDE DEF d
            <7> QED
              BY <6>1, <7>1, <7>2, <7>3
          <6> HIDE DEF d
          <6>3. g = (k - 1 - d) * WordSize
            <7>1. d * WordSize \in Nat /\ g = low - d * WordSize
              BY <2>1, <2>2, <5>1, <6>2
            <7>2. (k - 1 - d) * WordSize = (k - 1) * WordSize - d * WordSize
              BY <2>1, <5>1, <6>2
            <7> QED
              BY <7>1, <7>2 DEF low
          <6>4. k - 1 - d \in Nat
            <7>1. k - 1 - d \in Int
              BY <5>1, <6>2
            <7>2. k - 1 - d < 0 => (k - 1 - d) * WordSize < 0
              BY <2>1, <7>1
            <7> QED
              BY <2>2, <6>3, <7>1, <7>2
          <6>5. (WordSize * (k - 1 - d) + 0) % WordSize = 0 % WordSize
            BY <2>1, <6>4, ModOfMultiple
          <6>6. 0 % WordSize = 0 /\ WordSize * (k - 1 - d) + 0 = (k - 1 - d) * WordSize
            BY <2>1, <6>4
          <6> QED
            BY <2>7, <6>3, <6>5, <6>6
        <5>6. Words[k][1][2] # 1
          BY <2>1, <2>2, <5>1, <5>4, <5>5
        <5> QED
          BY <5>6, ValueOfWord
      <4> QED
        BY <4>1, <4>2
    <3> QED
      BY <2>3, <2>4, <2>7, <3>1
  <2> QED
    BY <2>2, <2>6, <2>7
<1>2. PipeSpec => []TypeOK /\ []RoiExact /\ []Piped
  BY TypeCorrect, RoiExactCorrect, PipedCorrect
<1> QED
  BY <1>1, <1>2, PTL

-----------------------------------------------------------------------------
(* The caches of pin-cache-tracer.                                         *)

NSets(c) == Sizes[c] \div (SetWays * BlkSize)
CacheSets(c) == 0 .. NSets(c) - 1
CacheWays == 0 .. SetWays - 1
SetOf(c, addr) == (addr \div BlkSize) % NSets(c)
TagOf(c, addr) == addr \div (BlkSize * NSets(c))
CacheLine == [tag : Nat, timestamp : Nat, valid : BOOLEAN]

\* The address and the block of the access at time t.
AddrAt(t) == traces[t + 1]
BlockAt(t) == AddrAt(t) \div BlkSize

\* The tool's class is that of the simulator, set associative.
LEMMA SameClass ==
  ASSUME NEW c
  PROVE  /\ OurCache!NumSets(c) = NSets(c) /\ OurCache!Assoc(c) = SetWays
         /\ OurCache!Sets(c) = CacheSets(c) /\ OurCache!Ways(c) = CacheWays
         /\ \A addr : /\ OurCache!findSet(c, addr) = SetOf(c, addr)
                      /\ OurCache!getTag(c, addr) = TagOf(c, addr)
<1>1. OurCache!NumSets(c) = NSets(c) /\ OurCache!Assoc(c) = SetWays
  BY DEF OurCache!NumSets, OurCache!Assoc, NSets
<1>2. OurCache!Sets(c) = CacheSets(c) /\ OurCache!Ways(c) = CacheWays
  BY <1>1 DEF OurCache!Sets, OurCache!Ways, CacheSets, CacheWays
<1>3. ASSUME NEW addr
      PROVE  /\ OurCache!findSet(c, addr) = SetOf(c, addr)
             /\ OurCache!getTag(c, addr) = TagOf(c, addr)
  BY <1>1 DEF OurCache!findSet, OurCache!getTag, SetOf, TagOf
<1> QED
  BY <1>1, <1>2, <1>3

LEMMA GeometryPositive ==
  ASSUME NEW c \in caches
  PROVE  NSets(c) \in Nat \ {0} /\ BlkSize \in Nat \ {0} /\ SetWays \in Nat \ {0}
<1>1. /\ Sizes[c] \in Nat /\ BlkSize \in Nat \ {0} /\ SetWays \in Nat \ {0}
      /\ Sizes[c] \div (SetWays * BlkSize) > 0
  BY CacheAssumption DEF caches
<1> QED
  BY <1>1, DivPositive DEF NSets

\* Every address has a set and a tag, and two addresses have the same only when
\* they lie in the same block.
LEMMA PlaceType ==
  ASSUME NEW c \in caches, NEW addr \in Nat
  PROVE  /\ addr \div BlkSize \in Nat /\ SetOf(c, addr) \in CacheSets(c)
         /\ TagOf(c, addr) \in Nat /\ TagOf(c, addr) = (addr \div BlkSize) \div NSets(c)
<1>1. NSets(c) \in Nat \ {0} /\ BlkSize \in Nat \ {0}
  BY GeometryPositive
<1> DEFINE b == addr \div BlkSize
<1>2. b \in Nat
  BY <1>1, DivMod
<1>3. addr \div (BlkSize * NSets(c)) = b \div NSets(c)
  BY <1>1, DivDiv
<1> HIDE DEF b
<1>4. b \div NSets(c) \in Nat /\ b % NSets(c) \in 0 .. NSets(c) - 1
  BY <1>1, <1>2, DivMod
<1> QED
  BY <1>2, <1>3, <1>4 DEF SetOf, TagOf, CacheSets, b

LEMMA SamePlace ==
  ASSUME NEW c \in caches, NEW x \in Nat, NEW y \in Nat
  PROVE  (SetOf(c, x) = SetOf(c, y) /\ TagOf(c, x) = TagOf(c, y))
           <=> x \div BlkSize = y \div BlkSize
<1>1. NSets(c) \in Nat \ {0}
  BY GeometryPositive
<1> DEFINE bx == x \div BlkSize
           by == y \div BlkSize
<1>2. /\ bx \in Nat /\ by \in Nat
      /\ TagOf(c, x) = bx \div NSets(c) /\ TagOf(c, y) = by \div NSets(c)
      /\ SetOf(c, x) = bx % NSets(c) /\ SetOf(c, y) = by % NSets(c)
  BY PlaceType DEF SetOf
<1> HIDE DEF bx, by
<1>3. ASSUME bx % NSets(c) = by % NSets(c), bx \div NSets(c) = by \div NSets(c)
      PROVE  bx = by
  BY <1>1, <1>2, <1>3, SameQuotientAndRemainder
<1> QED
  BY <1>2, <1>3 DEF bx, by

LEMMA FirstIn ==
  ASSUME NEW W \in SUBSET CacheWays, W # {}
  PROVE  OurCache!First(W) \in W
<1>1. W \subseteq Nat
  BY DEF CacheWays
<1> QED
  BY <1>1, LeastExists DEF OurCache!First

\* The lines that match an address, and whether there is one.
Matches(c, addr) ==
  {w \in CacheWays : /\ lines[c][SetOf(c, addr)][w].valid
                     /\ lines[c][SetOf(c, addr)][w].tag = TagOf(c, addr)}
Found(c, addr) == Matches(c, addr) # {}

LEMMA HitsMatch ==
  ASSUME NEW c, NEW addr
  PROVE  HitIn(c, addr) = Matches(c, addr)
BY SameClass DEF HitIn, OurCache!HitWays, Matches

-----------------------------------------------------------------------------
(* The inductive invariant: what the lines say of the trace is true, a     *)
(* block that is not found was overtaken by every line of its set, and the *)
(* hits are counted.                                                       *)

Typed(c) ==
  /\ lines[c] \in [CacheSets(c) -> [CacheWays -> CacheLine]]
  /\ globalClock[c] = Len(traces)

History(c) ==
  \A s \in CacheSets(c) : \A w \in CacheWays :
    LET l == lines[c][s][w] IN
    l.valid =>
      /\ l.timestamp < Len(traces)
      /\ SetOf(c, AddrAt(l.timestamp)) = s /\ TagOf(c, AddrAt(l.timestamp)) = l.tag
      /\ \A t \in l.timestamp + 1 .. Len(traces) - 1 : BlockAt(t) # BlockAt(l.timestamp)
      /\ \A v \in CacheWays \ {w} :
           lines[c][s][v].valid => lines[c][s][v].timestamp # l.timestamp

Overtaken(c, t) ==
  \A w \in CacheWays :
    LET l == lines[c][SetOf(c, AddrAt(t))][w] IN l.valid /\ l.timestamp > t

Recent(c) == \A t \in 0 .. Len(traces) - 1 : Found(c, AddrAt(t)) \/ Overtaken(c, t)

\* Access t of the trace finds its block again after few others of its set.
Reach(c, t) ==
  \E u \in 0 .. t - 1 :
    /\ BlockAt(u) = BlockAt(t)
    /\ Cardinality({BlockAt(v) : v \in {x \in u + 1 .. t - 1 :
                      SetOf(c, AddrAt(x)) = SetOf(c, AddrAt(t))}} \ {BlockAt(t)}) < SetWays

Near(c) == {t \in 0 .. Len(traces) - 1 : Reach(c, t)}

Counted(c) ==
  /\ numHits[c] \in Nat /\ numMisses[c] \in Nat
  /\ numHits[c] = Cardinality(Near(c))
  /\ numHits[c] + numMisses[c] = Len(traces)

Recorded == traces \in Seq(Nat) /\ accessCount = Len(traces)

CacheInv ==
  Recorded /\ \A c \in caches : Typed(c) /\ History(c) /\ Recent(c) /\ Counted(c)

LEMMA PastAddress ==
  ASSUME Recorded, NEW t \in 0 .. Len(traces) - 1
  PROVE  t \in Nat /\ Len(traces) \in Nat /\ AddrAt(t) \in Nat
<1>1. Len(traces) \in Nat /\ t + 1 \in 1 .. Len(traces)
  BY DEF Recorded
<1> QED
  BY <1>1 DEF Recorded, AddrAt

LEMMA LineFacts ==
  ASSUME Recorded, NEW c \in caches, Typed(c), History(c), NEW s \in CacheSets(c),
         NEW w \in CacheWays, lines[c][s][w].valid, NEW u, u = lines[c][s][w].timestamp
  PROVE  /\ u \in 0 .. Len(traces) - 1 /\ u \in Nat /\ AddrAt(u) \in Nat
         /\ SetOf(c, AddrAt(u)) = s /\ TagOf(c, AddrAt(u)) = lines[c][s][w].tag
         /\ \A t \in u + 1 .. Len(traces) - 1 : BlockAt(t) # BlockAt(u)
         /\ w \in Matches(c, AddrAt(u)) /\ Found(c, AddrAt(u))
<1>1. lines[c][s][w].timestamp \in Nat /\ Len(traces) \in Nat
  BY DEF Typed, CacheLine, Recorded
<1>2. /\ u < Len(traces)
      /\ SetOf(c, AddrAt(u)) = s /\ TagOf(c, AddrAt(u)) = lines[c][s][w].tag
      /\ \A t \in u + 1 .. Len(traces) - 1 : BlockAt(t) # BlockAt(u)
  BY DEF History
<1>3. u \in 0 .. Len(traces) - 1
  BY <1>1, <1>2
<1>4. w \in Matches(c, AddrAt(u))
  BY <1>2 DEF Matches
<1> QED
  BY <1>1, <1>2, <1>3, <1>4, PastAddress DEF Found

\* The lines that match an address hold its block, so there is one at most.
LEMMA UniqueMatch ==
  ASSUME Recorded, NEW c \in caches, Typed(c), History(c), NEW addr \in Nat,
         NEW w \in Matches(c, addr), NEW v \in Matches(c, addr)
  PROVE  BlockAt(lines[c][SetOf(c, addr)][w].timestamp) = addr \div BlkSize /\ v = w
<1> DEFINE s == SetOf(c, addr)
           t == lines[c][s][w].timestamp
           u == lines[c][s][v].timestamp
<1>1. /\ s \in CacheSets(c) /\ w \in CacheWays /\ v \in CacheWays
      /\ lines[c][s][w].valid /\ lines[c][s][v].valid
      /\ lines[c][s][w].tag = TagOf(c, addr) /\ lines[c][s][v].tag = TagOf(c, addr)
  BY PlaceType DEF Matches
<1>2. /\ t \in 0 .. Len(traces) - 1 /\ AddrAt(t) \in Nat
      /\ SetOf(c, AddrAt(t)) = s /\ TagOf(c, AddrAt(t)) = TagOf(c, addr)
      /\ \A x \in t + 1 .. Len(traces) - 1 : BlockAt(x) # BlockAt(t)
  BY <1>1, LineFacts
<1>3. /\ u \in 0 .. Len(traces) - 1 /\ AddrAt(u) \in Nat
      /\ SetOf(c, AddrAt(u)) = s /\ TagOf(c, AddrAt(u)) = TagOf(c, addr)
      /\ \A x \in u + 1 .. Len(traces) - 1 : BlockAt(x) # BlockAt(u)
  BY <1>1, LineFacts
<1>4. v # w => u # t
  BY <1>1 DEF History
<1> HIDE DEF t, u
<1>5. BlockAt(t) = addr \div BlkSize /\ BlockAt(u) = addr \div BlkSize
  BY <1>2, <1>3, SamePlace DEF BlockAt, s
<1>6. Len(traces) \in Nat
  BY DEF Recorded
<1>7. t = u
  BY <1>2, <1>3, <1>5, <1>6
<1> QED
  BY <1>4, <1>5, <1>7 DEF t

LEMMA DistinctBlocks ==
  ASSUME Recorded, NEW c \in caches, Typed(c), History(c), NEW s \in CacheSets(c),
         NEW w \in CacheWays, lines[c][s][w].valid, NEW v \in CacheWays, lines[c][s][v].valid,
         BlockAt(lines[c][s][w].timestamp) = BlockAt(lines[c][s][v].timestamp)
  PROVE  w = v
<1> DEFINE t == lines[c][s][w].timestamp
           x == lines[c][s][v].timestamp
<1>1. /\ AddrAt(t) \in Nat /\ AddrAt(x) \in Nat
      /\ SetOf(c, AddrAt(t)) = s /\ SetOf(c, AddrAt(x)) = s
      /\ w \in Matches(c, AddrAt(t)) /\ v \in Matches(c, AddrAt(x))
  BY LineFacts
<1>2. TagOf(c, AddrAt(t)) = TagOf(c, AddrAt(x))
  <2>1. BlockAt(t) = BlockAt(x)
    OBVIOUS
  <2> HIDE DEF t, x
  <2> QED
    BY <1>1, <2>1, SamePlace DEF BlockAt
<1>3. v \in Matches(c, AddrAt(t))
  <2> HIDE DEF t, x
  <2> QED
    BY <1>1, <1>2 DEF Matches
<1> QED
  BY <1>1, <1>3, UniqueMatch

LEMMA FoundByBlock ==
  ASSUME NEW c \in caches, NEW x \in Nat, NEW y \in Nat, x \div BlkSize = y \div BlkSize
  PROVE  Found(c, x) <=> Found(c, y)
<1>1. SetOf(c, x) = SetOf(c, y) /\ TagOf(c, x) = TagOf(c, y)
  BY SamePlace
<1> QED
  BY <1>1 DEF Found, Matches

\* The accesses after time u to the set of access u, and the other blocks that
\* those accesses asked for.
LaterInSet(c, u) ==
  {v \in u + 1 .. Len(traces) - 1 : SetOf(c, AddrAt(v)) = SetOf(c, AddrAt(u))}
Intruders(c, u) == {BlockAt(v) : v \in LaterInSet(c, u)} \ {BlockAt(u)}

LEMMA IntrudersFinite ==
  ASSUME Recorded, NEW c \in caches, NEW u \in 0 .. Len(traces) - 1
  PROVE  IsFiniteSet(Intruders(c, u)) /\ Cardinality(Intruders(c, u)) \in Nat
<1>1. u \in Nat /\ Len(traces) \in Nat
  BY PastAddress
<1>2. IsFiniteSet(u + 1 .. Len(traces) - 1)
  BY <1>1, FS_Interval
<1>3. IsFiniteSet(LaterInSet(c, u))
  BY <1>2, FS_Subset DEF LaterInSet
<1> DEFINE f == [v \in LaterInSet(c, u) |-> BlockAt(v)]
           B == {f[v] : v \in LaterInSet(c, u)}
<1>4. B = {BlockAt(v) : v \in LaterInSet(c, u)}
  OBVIOUS
<1> HIDE DEF f
<1>5. IsFiniteSet(B)
  BY <1>3, ImageNotLarger
<1>6. IsFiniteSet(Intruders(c, u))
  BY <1>4, <1>5, FS_Subset DEF Intruders
<1> QED
  BY <1>6, FS_CardinalityType

LEMMA CountWays == IsFiniteSet(CacheWays) /\ Cardinality(CacheWays) = SetWays
<1>1. SetWays \in Nat \ {0}
  BY CacheAssumption
<1> QED
  BY <1>1, FS_Interval DEF CacheWays

\* A block that is found was used before, and since its last use only those
\* blocks came to its set that lie in the other lines of the set now.
LEMMA FoundIsNear ==
  ASSUME Recorded, NEW c \in caches, Typed(c), History(c), Recent(c),
         NEW addr \in Nat, Found(c, addr)
  PROVE  \E u \in 0 .. Len(traces) - 1 :
           BlockAt(u) = addr \div BlkSize /\ Cardinality(Intruders(c, u)) < SetWays
<1> DEFINE s == SetOf(c, addr)
<1>1. s \in CacheSets(c) /\ Len(traces) \in Nat /\ SetWays \in Nat \ {0}
  BY PlaceType, CacheAssumption DEF Recorded
<1>2. PICK w : w \in Matches(c, addr)
  BY DEF Found
<1>3. w \in CacheWays /\ lines[c][s][w].valid
  BY <1>2 DEF Matches
<1> DEFINE u == lines[c][s][w].timestamp
<1>4. /\ u \in 0 .. Len(traces) - 1 /\ u \in Nat
      /\ SetOf(c, AddrAt(u)) = s
  BY <1>1, <1>3, LineFacts
<1>5. BlockAt(u) = addr \div BlkSize
  BY <1>2, UniqueMatch
<1> DEFINE others == CacheWays \ {w}
           f == [v \in others |-> BlockAt(lines[c][s][v].timestamp)]
           held == {f[v] : v \in others}
<1>6. IsFiniteSet(others) /\ Cardinality(others) = SetWays - 1
  BY <1>3, CountWays, FS_RemoveElement
<1>7. ASSUME NEW t \in LaterInSet(c, u), BlockAt(t) # BlockAt(u)
      PROVE  BlockAt(t) \in held
  <2>1. /\ t \in 0 .. Len(traces) - 1 /\ t > u
        /\ SetOf(c, AddrAt(t)) = s
    <3> HIDE DEF u
    <3> QED
      BY <1>1, <1>4 DEF LaterInSet
  <2>2. t \in Nat /\ AddrAt(t) \in Nat
    BY <2>1, PastAddress
  <2>3. ~Overtaken(c, t)
    BY <1>3, <1>4, <2>1, <2>2 DEF Overtaken
  <2>4. PICK v : v \in Matches(c, AddrAt(t))
    BY <2>1, <2>3 DEF Recent, Found
  <2>5. BlockAt(lines[c][s][v].timestamp) = BlockAt(t) /\ v \in CacheWays
    BY <2>1, <2>2, <2>4, UniqueMatch DEF BlockAt, Matches
  <2>6. v # w
    BY <1>7, <2>5
  <2> QED
    BY <2>5, <2>6
<1>8. Intruders(c, u) \subseteq held
  BY <1>7 DEF Intruders
<1> HIDE DEF f, others, u
<1>9. IsFiniteSet(held) /\ Cardinality(held) <= Cardinality(others)
  BY <1>6, ImageNotLarger
<1> HIDE DEF held
<1>10. Cardinality(Intruders(c, u)) <= Cardinality(held)
  BY <1>8, <1>9, FS_Subset
<1>11. Cardinality(Intruders(c, u)) < SetWays
  <2>1. Cardinality(Intruders(c, u)) \in Nat /\ Cardinality(held) \in Nat
    BY <1>4, <1>9, IntrudersFinite, FS_CardinalityType
  <2> QED
    BY <1>1, <1>6, <1>9, <1>10, <2>1
<1> QED
  BY <1>4, <1>5, <1>11

\* A block that was used and is not found left a set behind whose lines hold as
\* many other blocks, all of them used since.
LEMMA NotFoundIsFar ==
  ASSUME Recorded, NEW c \in caches, Typed(c), History(c), Recent(c),
         NEW addr \in Nat, ~Found(c, addr),
         NEW u \in 0 .. Len(traces) - 1, BlockAt(u) = addr \div BlkSize
  PROVE  Cardinality(Intruders(c, u)) >= SetWays
<1> DEFINE s == SetOf(c, AddrAt(u))
           stamp(w) == lines[c][s][w].timestamp
           f == [w \in CacheWays |-> BlockAt(stamp(w))]
<1>1. u \in Nat /\ AddrAt(u) \in Nat /\ s \in CacheSets(c) /\ Len(traces) \in Nat
  BY PastAddress, PlaceType
<1>2. ~Found(c, AddrAt(u))
  BY <1>1, FoundByBlock DEF BlockAt
<1>3. \A w \in CacheWays : lines[c][s][w].valid /\ stamp(w) > u
  BY <1>2 DEF Recent, Overtaken
<1>4. ASSUME NEW w \in CacheWays
      PROVE  stamp(w) \in LaterInSet(c, u) /\ BlockAt(stamp(w)) # BlockAt(u)
  <2> DEFINE t == stamp(w)
  <2>1. /\ t \in 0 .. Len(traces) - 1 /\ t \in Nat /\ AddrAt(t) \in Nat
        /\ SetOf(c, AddrAt(t)) = s /\ Found(c, AddrAt(t))
    BY <1>1, <1>3, LineFacts
  <2>2. t > u
    BY <1>3
  <2> HIDE DEF t
  <2>3. t \in LaterInSet(c, u)
    BY <1>1, <2>1, <2>2 DEF LaterInSet
  <2>4. BlockAt(t) # BlockAt(u)
    BY <1>1, <1>2, <2>1, FoundByBlock DEF BlockAt
  <2> QED
    BY <2>3, <2>4 DEF t
<1>5. ASSUME NEW w \in CacheWays, NEW v \in CacheWays, f[w] = f[v]
      PROVE  w = v
  BY <1>1, <1>3, <1>5, DistinctBlocks
<1>6. \A w \in CacheWays : f[w] \in Intruders(c, u)
  BY <1>4 DEF Intruders
<1>7. IsFiniteSet(Intruders(c, u))
  BY IntrudersFinite
<1> HIDE DEF f
<1>8. Cardinality(CacheWays) <= Cardinality(Intruders(c, u))
  BY <1>5, <1>6, <1>7, DistinctImagesFit
<1> QED
  BY <1>8, CountWays

-----------------------------------------------------------------------------
(* One access of the guest.                                                *)

\* The way that an access writes.
WayOf(c, addr) ==
  IF HitIn(c, addr) # {} THEN OurCache!First(HitIn(c, addr))
  ELSE getReplacementWay(c, SetOf(c, addr))

Filled(c, addr) == [tag |-> TagOf(c, addr), timestamp |-> Len(traces), valid |-> TRUE]

\* It is the way that matches; the victim of a miss in a full set is older than
\* every other line of the set.
WayChosen(c, addr) ==
  /\ WayOf(c, addr) \in CacheWays
  /\ Found(c, addr) => WayOf(c, addr) \in Matches(c, addr)
  /\ ~Found(c, addr) /\ lines[c][SetOf(c, addr)][WayOf(c, addr)].valid =>
       \A v \in CacheWays \ {WayOf(c, addr)} :
         /\ lines[c][SetOf(c, addr)][v].valid
         /\ lines[c][SetOf(c, addr)][v].timestamp
              > lines[c][SetOf(c, addr)][WayOf(c, addr)].timestamp

LEMMA WayFacts ==
  ASSUME Recorded, NEW c \in caches, Typed(c), History(c), NEW addr \in Nat
  PROVE  WayChosen(c, addr)
<1> DEFINE s == SetOf(c, addr)
           w == WayOf(c, addr)
           invalid == OurCache!InvalidWays(c, s)
           oldest == OurCache!OldestWays(c, s)
<1>1. HitIn(c, addr) = Matches(c, addr) /\ s \in CacheSets(c) /\ SetWays \in Nat \ {0}
  BY HitsMatch, PlaceType, CacheAssumption
<1>2. \A v \in CacheWays : lines[c][s][v] \in CacheLine
  BY <1>1 DEF Typed
<1>3. /\ invalid = {v \in CacheWays : ~lines[c][s][v].valid}
      /\ oldest = {x \in CacheWays : \A v \in CacheWays :
                     lines[c][s][x].timestamp <= lines[c][s][v].timestamp}
  BY SameClass DEF OurCache!InvalidWays, OurCache!OldestWays
<1>4. CASE Found(c, addr)
  <2>1. w = OurCache!First(Matches(c, addr)) /\ Matches(c, addr) # {}
    BY <1>1, <1>4 DEF WayOf, Found
  <2>2. Matches(c, addr) \in SUBSET CacheWays
    BY DEF Matches
  <2> HIDE DEF w
  <2>3. w \in Matches(c, addr)
    BY <2>1, <2>2, FirstIn
  <2> QED
    BY <1>4, <2>2, <2>3 DEF w, WayChosen
<1>5. CASE ~Found(c, addr)
  <2>1. w = OurCache!First(IF invalid # {} THEN invalid ELSE oldest)
    BY <1>1, <1>5, SameClass DEF WayOf, Found, getReplacementWay
  <2> HIDE DEF w
  <2>2. CASE invalid # {}
    <3>1. w \in invalid
      BY <1>3, <2>1, <2>2, FirstIn
    <3> QED
      BY <1>3, <1>5, <3>1 DEF w, WayChosen
  <2>3. CASE invalid = {}
    <3>1. oldest # {}
      <4> DEFINE T == {lines[c][s][x].timestamp : x \in CacheWays}
      <4>1. T \subseteq Nat
        BY <1>2 DEF CacheLine
      <4>2. T # {}
        <5>1. 0 \in CacheWays
          BY <1>1 DEF CacheWays
        <5> QED
          BY <5>1
      <4>3. \E t \in T : \A u \in T : t <= u
        <5> HIDE DEF T
        <5> QED
          BY <4>1, <4>2, LeastExists
      <4> QED
        BY <1>3, <4>3
    <3>2. w \in oldest
      <4>1. oldest \in SUBSET CacheWays
        BY <1>3
      <4> HIDE DEF oldest
      <4> QED
        BY <2>1, <2>3, <3>1, <4>1, FirstIn
    <3>3. w \in CacheWays /\ \A v \in CacheWays : lines[c][s][w].timestamp <= lines[c][s][v].timestamp
      BY <1>3, <3>2
    <3>4. \A v \in CacheWays : lines[c][s][v].valid
      BY <1>3, <2>3
    <3>5. ASSUME NEW v \in CacheWays \ {w}
          PROVE  lines[c][s][v].timestamp > lines[c][s][w].timestamp
      <4>1. lines[c][s][v].timestamp # lines[c][s][w].timestamp
        BY <1>1, <3>3, <3>4 DEF History
      <4>2. lines[c][s][v].timestamp \in Nat /\ lines[c][s][w].timestamp \in Nat
        BY <1>2, <3>3 DEF CacheLine
      <4> QED
        BY <3>3, <4>1, <4>2
    <3> QED
      BY <1>5, <3>3, <3>4, <3>5 DEF w, WayChosen
  <2> QED
    BY <2>2, <2>3
<1> QED
  BY <1>4, <1>5

Grows(addr) == traces' = Append(traces, addr)

\* The access of cache c: one line of it is written, and the trace grows.
Accessed(c, addr) ==
  /\ lines'[c][SetOf(c, addr)][WayOf(c, addr)] = Filled(c, addr)
  /\ \A s \in CacheSets(c) : \A w \in CacheWays :
       s # SetOf(c, addr) \/ w # WayOf(c, addr) => lines'[c][s][w] = lines[c][s][w]
  /\ Len(traces') = Len(traces) + 1 /\ traces'[Len(traces) + 1] = addr
  /\ \A t \in 0 .. Len(traces) - 1 : AddrAt(t)' = AddrAt(t)

LEMMA AccessFacts ==
  ASSUME Recorded, NEW c \in caches, Typed(c), History(c), NEW addr \in Nat,
         AccessCaches(addr), Grows(addr)
  PROVE  Accessed(c, addr) /\ Typed(c)' /\ traces' \in Seq(Nat)
<1> DEFINE n == Len(traces)
           s0 == SetOf(c, addr)
           w0 == WayOf(c, addr)
<1>1. /\ n \in Nat /\ s0 \in CacheSets(c) /\ w0 \in CacheWays
      /\ lines[c] \in [CacheSets(c) -> [CacheWays -> CacheLine]] /\ globalClock[c] = n
  <2>1. WayChosen(c, addr) /\ s0 \in CacheSets(c)
    BY WayFacts, PlaceType
  <2> QED
    BY <2>1 DEF Recorded, Typed, WayChosen
<1>2. traces' \in Seq(Nat) /\ Len(traces') = n + 1 /\ traces'[n + 1] = addr
      /\ \A k \in 1 .. n : traces'[k] = traces[k]
  BY DEF Recorded, Grows
<1>3. lines'[c] = [lines[c] EXCEPT ![s0][w0] = Filled(c, addr)]
  <2>1. lines'[c] = LinesAfter(c, addr)
    BY DEF AccessCaches
  <2>2. OurCache!findSet(c, addr) = s0 /\ OurCache!getTag(c, addr) = TagOf(c, addr)
    BY SameClass
  <2> QED
    BY <1>1, <2>1, <2>2 DEF LinesAfter, WayOf, Filled
<1>4. Filled(c, addr) \in CacheLine
  BY <1>1, PlaceType DEF Filled, CacheLine
<1> HIDE DEF s0, w0
<1>5. /\ lines'[c] \in [CacheSets(c) -> [CacheWays -> CacheLine]]
      /\ lines'[c][s0][w0] = Filled(c, addr)
      /\ \A s \in CacheSets(c) : \A w \in CacheWays :
           s # s0 \/ w # w0 => lines'[c][s][w] = lines[c][s][w]
  <2> DEFINE L == lines[c]
             r == Filled(c, addr)
             M == [L EXCEPT ![s0][w0] = r]
  <2>1. L \in [CacheSets(c) -> [CacheWays -> CacheLine]] /\ r \in CacheLine
    BY <1>1, <1>4
  <2>2. lines'[c] = M
    BY <1>3
  <2> HIDE DEF L, r
  <2>3. /\ M \in [CacheSets(c) -> [CacheWays -> CacheLine]] /\ M[s0][w0] = r
        /\ \A s \in CacheSets(c) : \A w \in CacheWays : s # s0 \/ w # w0 => M[s][w] = L[s][w]
    BY <1>1, <2>1
  <2> HIDE DEF M
  <2> QED
    BY <2>2, <2>3 DEF L, r
<1>6. globalClock'[c] = n + 1
  BY <1>1 DEF AccessCaches
<1>7. \A t \in 0 .. n - 1 : traces'[t + 1] = traces[t + 1]
  BY <1>1, <1>2
<1>8. Accessed(c, addr)
  BY <1>2, <1>5, <1>7 DEF Accessed, AddrAt, s0, w0
<1> QED
  BY <1>2, <1>5, <1>6, <1>8 DEF Typed

\* The same in the terms of the trace as it is after the access.
AddrThen(t) == traces'[t + 1]
BlockThen(t) == AddrThen(t) \div BlkSize

LEMMA TraceThen ==
  ASSUME Recorded, NEW c \in caches, NEW addr \in Nat, Accessed(c, addr)
  PROVE  /\ Len(traces) \in Nat /\ Len(traces') = Len(traces) + 1
         /\ AddrThen(Len(traces)) = addr /\ BlockThen(Len(traces)) = addr \div BlkSize
         /\ \A t \in 0 .. Len(traces) - 1 :
              /\ t \in Nat /\ AddrAt(t) \in Nat
              /\ AddrThen(t) = AddrAt(t) /\ BlockThen(t) = BlockAt(t)
<1>1. Len(traces) \in Nat
  BY DEF Recorded
<1>2. Len(traces') = Len(traces) + 1 /\ AddrThen(Len(traces)) = addr
  BY DEF Accessed, AddrThen
<1>3. \A t \in 0 .. Len(traces) - 1 : AddrThen(t) = AddrAt(t)
  BY DEF Accessed, AddrThen, AddrAt
<1>4. \A t \in 0 .. Len(traces) - 1 : t \in Nat /\ AddrAt(t) \in Nat
  BY PastAddress
<1> QED
  BY <1>1, <1>2, <1>3, <1>4 DEF BlockThen, BlockAt

LEMMA HistoryStep ==
  ASSUME Recorded, NEW c \in caches, Typed(c), History(c), NEW addr \in Nat,
         WayChosen(c, addr), Accessed(c, addr)
  PROVE  History(c)'
<1> DEFINE n == Len(traces)
           s0 == SetOf(c, addr)
           w0 == WayOf(c, addr)
<1>1. n \in Nat /\ s0 \in CacheSets(c) /\ w0 \in CacheWays
  BY PlaceType DEF Recorded, WayChosen
<1>2. /\ lines'[c][s0][w0].timestamp = n /\ lines'[c][s0][w0].tag = TagOf(c, addr)
      /\ \A s \in CacheSets(c) : \A w \in CacheWays :
           s # s0 \/ w # w0 => lines'[c][s][w] = lines[c][s][w]
  BY DEF Accessed, Filled
<1>3. /\ Len(traces') = n + 1 /\ AddrThen(n) = addr /\ BlockThen(n) = addr \div BlkSize
      /\ \A t \in 0 .. n - 1 : /\ t \in Nat /\ AddrAt(t) \in Nat
                               /\ AddrThen(t) = AddrAt(t) /\ BlockThen(t) = BlockAt(t)
  BY TraceThen
<1> SUFFICES ASSUME NEW s \in CacheSets(c), NEW w \in CacheWays, lines'[c][s][w].valid
             PROVE  LET l == lines'[c][s][w] IN
                    /\ l.timestamp < Len(traces')
                    /\ SetOf(c, AddrThen(l.timestamp)) = s
                    /\ TagOf(c, AddrThen(l.timestamp)) = l.tag
                    /\ \A t \in l.timestamp + 1 .. Len(traces') - 1 :
                         BlockThen(t) # BlockThen(l.timestamp)
                    /\ \A v \in CacheWays \ {w} :
                         lines'[c][s][v].valid => lines'[c][s][v].timestamp # l.timestamp
  BY DEF History, AddrThen, BlockThen, AddrAt, BlockAt, CacheSets, CacheWays, NSets,
         SetOf, TagOf
<1> HIDE DEF n, s0, w0
<1>4. ASSUME NEW s1 \in CacheSets(c), NEW v \in CacheWays, lines[c][s1][v].valid
      PROVE  /\ lines[c][s1][v].timestamp \in 0 .. n - 1 /\ lines[c][s1][v].timestamp < n
             /\ SetOf(c, AddrAt(lines[c][s1][v].timestamp)) = s1
             /\ TagOf(c, AddrAt(lines[c][s1][v].timestamp)) = lines[c][s1][v].tag
             /\ v \in Matches(c, AddrAt(lines[c][s1][v].timestamp))
  <2>1. lines[c][s1][v].timestamp \in 0 .. n - 1
    BY <1>4, LineFacts DEF n
  <2> QED
    BY <1>1, <1>4, <2>1, LineFacts
<1>5. CASE s = s0 /\ w = w0
  <2>1. lines'[c][s][w].timestamp = n /\ lines'[c][s][w].tag = TagOf(c, addr)
    BY <1>2, <1>5
  <2>2. ASSUME NEW v \in CacheWays \ {w}, lines'[c][s][v].valid
        PROVE  lines'[c][s][v].timestamp # n
    <3>1. lines'[c][s][v] = lines[c][s][v]
      BY <1>2, <1>5
    <3>2. lines[c][s][v].timestamp < n /\ lines[c][s][v].timestamp \in 0 .. n - 1
      BY <1>4, <2>2, <3>1
    <3> QED
      BY <1>1, <3>1, <3>2
  <2>3. \A t \in n + 1 .. (n + 1) - 1 : BlockThen(t) # BlockThen(n)
    BY <1>1
  <2>4. SetOf(c, AddrThen(n)) = s /\ TagOf(c, AddrThen(n)) = TagOf(c, addr)
    BY <1>3, <1>5 DEF s0
  <2>5. n < n + 1
    BY <1>1
  <2> QED
    BY <1>3, <2>1, <2>2, <2>3, <2>4, <2>5
<1>6. CASE s # s0 \/ w # w0
  <2> DEFINE l == lines[c][s][w]
             t == l.timestamp
  <2>1. lines'[c][s][w] = l /\ l.valid
    BY <1>2, <1>6
  <2>2. /\ t \in 0 .. n - 1 /\ SetOf(c, AddrAt(t)) = s /\ TagOf(c, AddrAt(t)) = l.tag
        /\ w \in Matches(c, AddrAt(t))
    BY <1>4, <2>1
  <2>3. /\ \A x \in t + 1 .. n - 1 : BlockAt(x) # BlockAt(t)
        /\ \A v \in CacheWays \ {w} : lines[c][s][v].valid => lines[c][s][v].timestamp # t
    BY <2>1 DEF History, n
  <2> HIDE DEF t, l
  <2>4. t \in Nat /\ t < n /\ AddrAt(t) \in Nat /\ AddrThen(t) = AddrAt(t) /\ BlockThen(t) = BlockAt(t)
    BY <1>1, <1>3, <2>2
  <2>5. BlockThen(n) # BlockAt(t)
    <3> SUFFICES ASSUME addr \div BlkSize = BlockAt(t)
                 PROVE  FALSE
      BY <1>3
    <3>1. SetOf(c, addr) = SetOf(c, AddrAt(t)) /\ TagOf(c, addr) = TagOf(c, AddrAt(t))
      BY <2>4, SamePlace DEF BlockAt
    <3>2. s = s0 /\ w \in Matches(c, addr)
      BY <2>2, <3>1 DEF Matches, s0
    <3>3. w0 \in Matches(c, addr)
      BY <3>2 DEF WayChosen, Found, w0
    <3>4. w0 = w
      BY <3>2, <3>3, UniqueMatch
    <3> QED
      BY <1>6, <3>2, <3>4
  <2>6. ASSUME NEW x \in t + 1 .. (n + 1) - 1
        PROVE  BlockThen(x) # BlockThen(t)
    <3>1. CASE x = n
      BY <2>4, <2>5, <3>1
    <3>2. CASE x # n
      <4>1. x \in t + 1 .. n - 1 /\ x \in 0 .. n - 1
        BY <1>1, <2>4, <3>2
      <4> QED
        BY <1>3, <2>3, <2>4, <4>1
    <3> QED
      BY <3>1, <3>2
  <2>7. ASSUME NEW v \in CacheWays \ {w}, lines'[c][s][v].valid
        PROVE  lines'[c][s][v].timestamp # t
    <3>1. CASE s = s0 /\ v = w0
      BY <1>1, <1>2, <2>4, <3>1
    <3>2. CASE s # s0 \/ v # w0
      BY <1>2, <2>3, <2>7, <3>2
    <3> QED
      BY <3>1, <3>2
  <2>8. t < n + 1
    BY <1>1, <2>4
  <2>9. lines'[c][s][w].timestamp = t /\ lines'[c][s][w].tag = l.tag
    BY <2>1 DEF t
  <2> QED
    BY <1>3, <2>2, <2>4, <2>6, <2>7, <2>8, <2>9
<1> QED
  BY <1>5, <1>6

LEMMA RecentStep ==
  ASSUME Recorded, NEW c \in caches, Typed(c), History(c), Recent(c), NEW addr \in Nat,
         WayChosen(c, addr), Accessed(c, addr)
  PROVE  Recent(c)'
<1> DEFINE n == Len(traces)
           s0 == SetOf(c, addr)
           w0 == WayOf(c, addr)
<1>1. n \in Nat /\ s0 \in CacheSets(c) /\ w0 \in CacheWays
  BY PlaceType DEF Recorded, WayChosen
<1>2. /\ lines'[c][s0][w0].timestamp = n /\ lines'[c][s0][w0].tag = TagOf(c, addr)
      /\ lines'[c][s0][w0].valid
      /\ \A s \in CacheSets(c) : \A w \in CacheWays :
           s # s0 \/ w # w0 => lines'[c][s][w] = lines[c][s][w]
  BY DEF Accessed, Filled
<1>3. /\ Len(traces') = n + 1 /\ AddrThen(n) = addr /\ BlockThen(n) = addr \div BlkSize
      /\ \A t \in 0 .. n - 1 : /\ t \in Nat /\ AddrAt(t) \in Nat
                               /\ AddrThen(t) = AddrAt(t) /\ BlockThen(t) = BlockAt(t)
  BY TraceThen
<1> SUFFICES ASSUME NEW t \in 0 .. Len(traces') - 1
             PROVE  LET s == SetOf(c, AddrThen(t)) IN
                    \/ \E w \in CacheWays : lines'[c][s][w].valid
                                           /\ lines'[c][s][w].tag = TagOf(c, AddrThen(t))
                    \/ \A w \in CacheWays : lines'[c][s][w].valid /\ lines'[c][s][w].timestamp > t
  BY DEF Recent, Found, Overtaken, Matches, AddrThen, AddrAt, CacheWays, NSets, SetOf, TagOf
<1> HIDE DEF n, s0, w0
<1>4. CASE t = n
  BY <1>1, <1>2, <1>3, <1>4 DEF s0
<1>5. CASE t # n
  <2> DEFINE s == SetOf(c, AddrAt(t))
  <2>1. t \in 0 .. n - 1
    BY <1>1, <1>3, <1>5
  <2>2. t \in Nat /\ t < n /\ AddrAt(t) \in Nat /\ s \in CacheSets(c) /\ AddrThen(t) = AddrAt(t)
    <3>1. t \in Nat /\ t < n /\ AddrAt(t) \in Nat /\ AddrThen(t) = AddrAt(t)
      BY <1>1, <1>3, <2>1
    <3> QED
      BY <3>1, PlaceType
  <2>3. Found(c, AddrAt(t)) \/ Overtaken(c, t)
    BY <2>1 DEF Recent, n
  <2> SUFFICES \/ \E w \in CacheWays : lines'[c][s][w].valid
                                     /\ lines'[c][s][w].tag = TagOf(c, AddrAt(t))
               \/ \A w \in CacheWays : lines'[c][s][w].valid /\ lines'[c][s][w].timestamp > t
    BY <2>2
  <2>4. CASE s # s0
    <3>1. \A w \in CacheWays : lines'[c][s][w] = lines[c][s][w]
      BY <1>2, <2>2, <2>4
    <3> QED
      BY <2>3, <3>1 DEF Found, Overtaken, Matches
  <2>5. CASE s = s0 /\ Overtaken(c, t)
    <3>1. \A w \in CacheWays : w = w0 \/ lines'[c][s][w] = lines[c][s][w]
      BY <1>2, <2>2, <2>5
    <3>2. n > t
      BY <1>1, <2>2
    <3> QED
      BY <1>2, <2>5, <3>1, <3>2 DEF Overtaken
  <2>6. CASE s = s0 /\ Found(c, AddrAt(t))
    <3>1. PICK v : v \in Matches(c, AddrAt(t))
      BY <2>6 DEF Found
    <3>2. v \in CacheWays /\ lines[c][s][v].valid /\ lines[c][s][v].tag = TagOf(c, AddrAt(t))
      BY <3>1 DEF Matches
    <3>3. CASE v # w0
      <4>1. lines'[c][s][v] = lines[c][s][v]
        BY <1>2, <2>2, <3>2, <3>3
      <4> QED
        BY <3>2, <4>1
    <3>4. CASE v = w0 /\ Found(c, addr)
      <4>1. w0 \in Matches(c, addr)
        BY <3>4 DEF WayChosen, w0
      <4>2. TagOf(c, addr) = TagOf(c, AddrAt(t))
        <5>1. lines[c][s0][w0].tag = TagOf(c, addr)
          BY <4>1 DEF Matches, s0
        <5> QED
          BY <2>6, <3>2, <3>4, <5>1
      <4>3. lines'[c][s][w0].valid /\ lines'[c][s][w0].tag = TagOf(c, AddrAt(t))
        BY <1>2, <2>6, <4>2
      <4> QED
        BY <1>1, <4>3
    <3>5. CASE v = w0 /\ ~Found(c, addr)
      <4> DEFINE u == lines[c][s][w0].timestamp
      <4>1. lines[c][s][w0].valid
        BY <3>2, <3>5
      <4>2. u \in 0 .. n - 1 /\ u \in Nat /\ \A x \in u + 1 .. n - 1 : BlockAt(x) # BlockAt(u)
        BY <1>1, <2>2, <4>1, LineFacts DEF n
      <4>3. BlockAt(u) = BlockAt(t)
        <5>1. w0 \in Matches(c, AddrAt(t))
          BY <3>1, <3>5
        <5> QED
          BY <2>2, <5>1, UniqueMatch DEF BlockAt
      <4>4. t <= u
        <5> HIDE DEF u
        <5> QED
          BY <1>1, <2>1, <2>2, <4>2, <4>3
      <4>5. ASSUME NEW w \in CacheWays, w # w0
            PROVE  lines'[c][s][w].valid /\ lines'[c][s][w].timestamp > t
        <5>1. lines[c][s][w].valid /\ lines[c][s][w].timestamp > u
          BY <2>6, <3>5, <4>1, <4>5 DEF WayChosen, s0, w0
        <5>2. lines'[c][s][w] = lines[c][s][w]
          BY <1>2, <2>2, <4>5
        <5>3. lines[c][s][w].timestamp \in Nat
          BY <2>2 DEF Typed, CacheLine
        <5> HIDE DEF u, s
        <5> QED
          BY <2>2, <4>2, <4>4, <5>1, <5>2, <5>3
      <4>6. lines'[c][s][w0].valid /\ lines'[c][s][w0].timestamp > t
        <5>1. n > t
          BY <1>1, <2>2
        <5> QED
          BY <1>2, <2>6, <5>1
      <4> QED
        BY <4>5, <4>6
    <3> QED
      BY <3>3, <3>4, <3>5
  <2> QED
    BY <2>3, <2>4, <2>5, <2>6
<1> QED
  BY <1>4, <1>5

-----------------------------------------------------------------------------
(* Hits and stack distances.                                               *)

\* The abstract specification counts with the same operator and speaks of the
\* same blocks and sets.
LEMMA AbstractCount == \A S : StackDistance!Cardinality(S) = Cardinality(S)
  BY DEF StackDistance!Cardinality, Cardinality

LEMMA AbstractPlace ==
  ASSUME NEW c \in caches, NEW t
  PROVE  /\ StackDistance!BlockAt(t) = BlockAt(t)
         /\ StackDistance!SetAt(c, t) = SetOf(c, AddrAt(t))
<1>1. StackDistance!BlockAt(t) = BlockAt(t)
  BY DEF StackDistance!BlockAt, BlockAt, AddrAt
<1>2. StackDistance!SetAt(c, t) = BlockAt(t) % NSets(c)
  BY <1>1, SameClass DEF StackDistance!SetAt
<1> QED
  BY <1>1, <1>2 DEF SetOf, BlockAt

LEMMA ReachIsWithin ==
  ASSUME NEW c \in caches, NEW t
  PROVE  StackDistance!WithinReach(c, t) <=> Reach(c, t)
<1>1. ASSUME NEW u
      PROVE  StackDistance!UsedSince(c, u, t) =
               {BlockAt(v) : v \in {x \in u + 1 .. t - 1 :
                  SetOf(c, AddrAt(x)) = SetOf(c, AddrAt(t))}}
  BY AbstractPlace DEF StackDistance!UsedSince
<1>2. OurCache!Assoc(c) = SetWays /\ StackDistance!BlockAt(t) = BlockAt(t)
  BY SameClass, AbstractPlace
<1>3. \A u : StackDistance!BlockAt(u) = BlockAt(u)
  BY AbstractPlace
<1> QED
  BY <1>1, <1>2, <1>3, AbstractCount DEF StackDistance!WithinReach, Reach

\* What a lookup finds is what the abstract specification promises of the
\* access that it is made for.
LEMMA FoundIsReach ==
  ASSUME Recorded, NEW c \in caches, Typed(c), History(c), Recent(c), NEW addr \in Nat,
         Accessed(c, addr), NEW n, n = Len(traces)
  PROVE  Reach(c, n)' <=> Found(c, addr)
<1>1. /\ n \in Nat /\ AddrThen(n) = addr /\ BlockThen(n) = addr \div BlkSize
      /\ \A t \in 0 .. n - 1 : /\ t \in Nat /\ AddrAt(t) \in Nat
                               /\ AddrThen(t) = AddrAt(t) /\ BlockThen(t) = BlockAt(t)
  BY TraceThen
<1>2. Reach(c, n)' <=>
        \E u \in 0 .. n - 1 :
          /\ BlockThen(u) = BlockThen(n)
          /\ Cardinality({BlockThen(v) : v \in {x \in u + 1 .. n - 1 :
               SetOf(c, AddrThen(x)) = SetOf(c, AddrThen(n))}} \ {BlockThen(n)}) < SetWays
  BY DEF Reach, BlockThen, AddrThen, BlockAt, AddrAt, SetOf, NSets
<1>3. ASSUME NEW u \in 0 .. n - 1, BlockAt(u) = addr \div BlkSize
      PROVE  {BlockThen(v) : v \in {x \in u + 1 .. n - 1 :
                SetOf(c, AddrThen(x)) = SetOf(c, AddrThen(n))}} \ {BlockThen(n)} = Intruders(c, u)
  <2> DEFINE X == {x \in u + 1 .. n - 1 : SetOf(c, AddrThen(x)) = SetOf(c, AddrThen(n))}
  <2>1. SetOf(c, AddrAt(u)) = SetOf(c, addr)
    BY <1>1, <1>3, SamePlace DEF BlockAt
  <2>2. \A x \in u + 1 .. n - 1 : AddrThen(x) = AddrAt(x) /\ BlockThen(x) = BlockAt(x)
    BY <1>1
  <2>3. X = LaterInSet(c, u)
    BY <1>1, <2>1, <2>2 DEF LaterInSet
  <2>4. \A v \in X : BlockThen(v) = BlockAt(v)
    BY <2>2
  <2>5. BlockThen(n) = BlockAt(u)
    BY <1>1, <1>3
  <2> HIDE DEF X
  <2>6. {BlockThen(v) : v \in X} = {BlockAt(v) : v \in LaterInSet(c, u)}
    BY <2>3, <2>4
  <2> QED
    BY <2>5, <2>6 DEF Intruders, X
<1>4. Reach(c, n)' <=>
        \E u \in 0 .. n - 1 :
          BlockAt(u) = addr \div BlkSize /\ Cardinality(Intruders(c, u)) < SetWays
  BY <1>1, <1>2, <1>3
<1>5. Found(c, addr) => Reach(c, n)'
  BY <1>4, FoundIsNear
<1>6. ASSUME ~Found(c, addr), NEW u \in 0 .. n - 1, BlockAt(u) = addr \div BlkSize
      PROVE  ~(Cardinality(Intruders(c, u)) < SetWays)
  <2>1. Cardinality(Intruders(c, u)) >= SetWays
    BY <1>6, NotFoundIsFar
  <2>2. Cardinality(Intruders(c, u)) \in Nat /\ SetWays \in Nat
    BY <1>6, IntrudersFinite, CacheAssumption
  <2> QED
    BY <2>1, <2>2
<1> QED
  BY <1>4, <1>5, <1>6

\* The past accesses keep their distances.
LEMMA ReachKept ==
  ASSUME Recorded, NEW c \in caches, NEW addr \in Nat, Accessed(c, addr),
         NEW t \in 0 .. Len(traces) - 1
  PROVE  Reach(c, t)' <=> Reach(c, t)
<1> DEFINE n == Len(traces)
<1>1. n \in Nat /\ t \in Nat /\ \A x \in 0 .. n - 1 : AddrThen(x) = AddrAt(x) /\ BlockThen(x) = BlockAt(x)
  BY TraceThen
<1>2. Reach(c, t)' <=>
        \E u \in 0 .. t - 1 :
          /\ BlockThen(u) = BlockThen(t)
          /\ Cardinality({BlockThen(v) : v \in {x \in u + 1 .. t - 1 :
               SetOf(c, AddrThen(x)) = SetOf(c, AddrThen(t))}} \ {BlockThen(t)}) < SetWays
  BY DEF Reach, BlockThen, AddrThen, BlockAt, AddrAt, SetOf, NSets
<1>3. AddrThen(t) = AddrAt(t) /\ BlockThen(t) = BlockAt(t)
  BY <1>1
<1> HIDE DEF n
<1>4. ASSUME NEW u \in 0 .. t - 1
      PROVE  /\ BlockThen(u) = BlockAt(u)
             /\ {BlockThen(v) : v \in {x \in u + 1 .. t - 1 :
                   SetOf(c, AddrThen(x)) = SetOf(c, AddrThen(t))}}
                = {BlockAt(v) : v \in {x \in u + 1 .. t - 1 :
                     SetOf(c, AddrAt(x)) = SetOf(c, AddrAt(t))}}
  <2>1. u \in 0 .. n - 1 /\ \A x \in u + 1 .. t - 1 : x \in 0 .. n - 1
    BY <1>1 DEF n
  <2>2. \A x \in u + 1 .. t - 1 : AddrThen(x) = AddrAt(x) /\ BlockThen(x) = BlockAt(x)
    BY <1>1, <2>1
  <2> DEFINE X == {x \in u + 1 .. t - 1 : SetOf(c, AddrThen(x)) = SetOf(c, AddrThen(t))}
             Y == {x \in u + 1 .. t - 1 : SetOf(c, AddrAt(x)) = SetOf(c, AddrAt(t))}
  <2>3. X = Y /\ \A v \in X : BlockThen(v) = BlockAt(v)
    BY <1>3, <2>2
  <2>4. BlockThen(u) = BlockAt(u)
    BY <1>1, <2>1
  <2> HIDE DEF X, Y
  <2>5. {BlockThen(v) : v \in X} = {BlockAt(v) : v \in Y}
    BY <2>3
  <2> QED
    BY <2>4, <2>5 DEF X, Y
<1> QED
  BY <1>2, <1>3, <1>4 DEF Reach

LEMMA CountedStep ==
  ASSUME Recorded, NEW c \in caches, Typed(c), History(c), Recent(c), Counted(c),
         NEW addr \in Nat, Accessed(c, addr), AccessCaches(addr)
  PROVE  Counted(c)'
<1> PICK n \in Nat : n = Len(traces)
  BY DEF Recorded
<1>1. Len(traces') = n + 1
  BY TraceThen
<1>2. IsFiniteSet(Near(c)) /\ n \notin Near(c)
  <2>1. IsFiniteSet(0 .. n - 1)
    BY FS_Interval
  <2>2. Near(c) \in SUBSET (0 .. n - 1)
    BY DEF Near
  <2> QED
    BY <2>1, <2>2, FS_Subset
<1>3. \A t \in 0 .. n - 1 : Reach(c, t)' <=> Reach(c, t)
  BY ReachKept
<1>4. Reach(c, n)' <=> Found(c, addr)
  BY FoundIsReach
<1>5. Near(c)' = {t \in 0 .. n : Reach(c, t)'}
  <2>1. (n + 1) - 1 = n
    OBVIOUS
  <2> QED
    BY <1>1, <2>1 DEF Near
<1>6. Near(c)' = IF Found(c, addr) THEN Near(c) \union {n} ELSE Near(c)
  <2>1. \A t \in 0 .. n : t \in 0 .. n - 1 \/ t = n
    OBVIOUS
  <2>2. \A t \in 0 .. n - 1 : t \in 0 .. n
    OBVIOUS
  <2>3. n \in 0 .. n
    OBVIOUS
  <2>4. Near(c) = {t \in 0 .. n - 1 : Reach(c, t)}
    BY DEF Near
  <2>5. CASE Found(c, addr)
    <3>1. {t \in 0 .. n : Reach(c, t)'} = {t \in 0 .. n - 1 : Reach(c, t)} \union {n}
      BY <1>3, <1>4, <2>1, <2>2, <2>3, <2>5
    <3> QED
      BY <1>5, <2>4, <2>5, <3>1
  <2>6. CASE ~Found(c, addr)
    <3>1. {t \in 0 .. n : Reach(c, t)'} = {t \in 0 .. n - 1 : Reach(c, t)}
      BY <1>3, <1>4, <2>1, <2>2, <2>3, <2>6
    <3> QED
      BY <1>5, <2>4, <2>6, <3>1
  <2> QED
    BY <2>5, <2>6
<1>7. Cardinality(Near(c)') = IF Found(c, addr) THEN Cardinality(Near(c)) + 1 ELSE Cardinality(Near(c))
  BY <1>2, <1>6, FS_AddElement
<1>8. /\ numHits'[c] = numHits[c] + IF Found(c, addr) THEN 1 ELSE 0
      /\ numMisses'[c] = numMisses[c] + IF Found(c, addr) THEN 0 ELSE 1
  BY HitsMatch DEF AccessCaches, Found
<1> QED
  BY <1>1, <1>7, <1>8 DEF Counted

LEMMA CacheInitial == CacheInit => CacheInv
<1> SUFFICES ASSUME CacheInit PROVE CacheInv
  OBVIOUS
<1>1. traces = <<>> /\ accessCount = 0 /\ Len(traces) = 0
  BY DEF CacheInit, Init
<1>2. Recorded
  BY <1>1 DEF Recorded
<1>3. ASSUME NEW c \in caches
      PROVE  Typed(c) /\ History(c) /\ Recent(c) /\ Counted(c)
  <2>1. lines[c] \in [CacheSets(c) -> [CacheWays -> Garbage]]
    <3>1. lines[c] \in OurCache!NewCache(c)
      BY DEF CacheInit
    <3> QED
      BY <3>1, SameClass DEF OurCache!NewCache
  <2>2. \A l \in Garbage : l \in CacheLine /\ ~l.valid
    BY CacheAssumption DEF OurCache!OurCacheLine, OurCache!Addr, OurCache!TimeStamp, CacheLine
  <2>3. Typed(c)
    <3>1. globalClock[c] = 0
      BY DEF CacheInit
    <3> QED
      BY <1>1, <2>1, <2>2, <3>1 DEF Typed
  <2>4. History(c)
    BY <2>1, <2>2 DEF History
  <2>5. Recent(c) /\ Near(c) = {}
    <3>1. 0 .. Len(traces) - 1 = {}
      BY <1>1
    <3> QED
      BY <3>1 DEF Recent, Near
  <2>6. Counted(c)
    <3>1. numHits[c] = 0 /\ numMisses[c] = 0
      BY DEF CacheInit
    <3>2. Cardinality({}) = 0
      BY FS_EmptySet
    <3> QED
      BY <1>1, <2>5, <3>1, <3>2 DEF Counted
  <2> QED
    BY <2>3, <2>4, <2>5, <2>6
<1> QED
  BY <1>2, <1>3 DEF CacheInv

LEMMA CacheStep == CacheInv /\ [CacheNext]_<<vars, cacheVars>> => CacheInv'
<1> SUFFICES ASSUME CacheInv, [CacheNext]_<<vars, cacheVars>> PROVE CacheInv'
  OBVIOUS
<1>1. Recorded
  BY DEF CacheInv
<1>2. CASE UNCHANGED <<traces, accessCount, cacheVars>>
  <2>1. /\ traces' = traces /\ accessCount' = accessCount /\ lines' = lines
        /\ globalClock' = globalClock /\ numHits' = numHits /\ numMisses' = numMisses
    BY <1>2 DEF cacheVars
  <2>2. Recorded'
    BY <1>1, <2>1 DEF Recorded
  <2>3. ASSUME NEW c \in caches
        PROVE  Typed(c)' /\ History(c)' /\ Recent(c)' /\ Counted(c)'
    <3>1. Typed(c) /\ History(c) /\ Recent(c) /\ Counted(c)
      BY DEF CacheInv
    <3>2. Typed(c)'
      BY <2>1, <3>1 DEF Typed
    <3>3. History(c)'
      BY <2>1, <3>1 DEF History, AddrAt, BlockAt
    <3>4. Recent(c)'
      <4>1. \A t : Found(c, AddrAt(t))' = Found(c, AddrAt(t))
        BY <2>1 DEF Found, Matches, AddrAt
      <4>2. \A t : Overtaken(c, t)' = Overtaken(c, t)
        BY <2>1 DEF Overtaken, AddrAt, BlockAt
      <4> QED
        BY <2>1, <3>1, <4>1, <4>2 DEF Recent
    <3>5. Near(c)' = Near(c)
      BY <2>1 DEF Near, Reach, Matches, AddrAt, BlockAt
    <3>6. Counted(c)'
      BY <2>1, <3>1, <3>5 DEF Counted
    <3> QED
      BY <3>2, <3>3, <3>4, <3>6
  <2> QED
    BY <2>2, <2>3 DEF CacheInv
<1>3. ASSUME NEW addr \in Addrs, CacheMemoryAccess(addr)
      PROVE  CacheInv'
  <2>1. addr \in Nat
    BY PinAssumption
  <2>2. CASE accessCount' = accessCount
    <3>1. traces' = traces
      <4>1. ~Record(addr)
        BY <1>1, <2>2 DEF Recorded, Record
      <4> QED
        BY <1>3, <4>1 DEF CacheMemoryAccess, MemoryAccess, LimitReached
    <3> QED
      BY <1>2, <1>3, <2>2, <3>1 DEF CacheMemoryAccess
  <2>3. CASE accessCount' # accessCount
    <3>1. Record(addr)
      BY <1>3, <2>3 DEF CacheMemoryAccess, MemoryAccess, LimitReached
    <3>2. Grows(addr) /\ accessCount' = accessCount + 1 /\ AccessCaches(addr)
      BY <1>3, <2>3, <3>1 DEF Grows, Record, CacheMemoryAccess
    <3>3. ASSUME NEW c \in caches
          PROVE  (Typed(c) /\ History(c) /\ Recent(c) /\ Counted(c))'
      <4>1. Typed(c) /\ History(c) /\ Recent(c) /\ Counted(c)
        BY DEF CacheInv
      <4>2. WayChosen(c, addr)
        BY <1>1, <2>1, <4>1, WayFacts
      <4>3. Accessed(c, addr) /\ Typed(c)'
        BY <1>1, <2>1, <3>2, <4>1, AccessFacts
      <4> QED
        BY <1>1, <2>1, <3>2, <4>1, <4>2, <4>3, HistoryStep, RecentStep, CountedStep
    <3>4. Recorded'
      <4>1. traces \in Seq(Nat) /\ accessCount = Len(traces)
        BY <1>1 DEF Recorded
      <4> QED
        BY <2>1, <3>2, <4>1 DEF Recorded, Grows
    <3> QED
      BY <3>3, <3>4 DEF CacheInv
  <2> QED
    BY <2>2, <2>3
<1>4. CASE \/ \E u \in Units : Enter(u) /\ UNCHANGED cacheVars
           \/ Docount /\ UNCHANGED cacheVars
           \/ startROI /\ UNCHANGED cacheVars
           \/ stopROI /\ UNCHANGED cacheVars
           \/ GuestExit /\ UNCHANGED cacheVars
           \/ Fini /\ UNCHANGED cacheVars
  BY <1>2, <1>4 DEF Enter, Docount, startROI, stopROI, GuestExit, Fini, tool
<1>5. CASE UNCHANGED <<vars, cacheVars>>
  BY <1>2, <1>5 DEF vars, tool
<1> QED
  BY <1>3, <1>4, <1>5 DEF CacheNext

\* For every guest, every access limit and every bank of caches, the hits that
\* pin-cache-tracer counts while the guest runs are those that the stack
\* distances of the recorded trace allow.
THEOREM OnlineMatchesOfflineCorrect == CacheSpec => []OnlineMatchesOffline
<1>1. CacheInit => CacheInv
  BY CacheInitial
<1>2. CacheInv /\ [CacheNext]_<<vars, cacheVars>> => CacheInv'
  BY CacheStep
<1>3. CacheInv => OnlineMatchesOffline
  <2> SUFFICES ASSUME CacheInv, NEW c \in caches
               PROVE  /\ numHits[c] = Cardinality({t \in 0 .. Len(traces) - 1 :
                                        StackDistance!WithinReach(c, t)})
                      /\ numHits[c] + numMisses[c] = accessCount
    BY DEF OnlineMatchesOffline
  <2>1. Recorded /\ Counted(c)
    BY DEF CacheInv
  <2>2. {t \in 0 .. Len(traces) - 1 : StackDistance!WithinReach(c, t)} = Near(c)
    BY ReachIsWithin DEF Near
  <2> QED
    BY <2>1, <2>2 DEF Recorded, Counted
<1> QED
  BY <1>1, <1>2, <1>3, PTL DEF CacheSpec
=============================================================================
