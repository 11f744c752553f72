----------------------------- MODULE PinTracer ------------------------------
(***************************************************************************)
(* The Pin tool that writes a memory trace, pin-memory-tracer.  Pin        *)
(* compiles the guest one unit of straight-line code at a time, when the   *)
(* guest first reaches it, and calls Instruction() for each instruction of *)
(* the unit: what is recorded is decided then and holds for every later    *)
(* execution of the unit.  The guest marks a region of interest (ROI) by   *)
(* calling PIN_Start and PIN_Stop, which the tool replaces by startROI and *)
(* stopROI.  The tool and its guest are one thread.                        *)
(***************************************************************************)
EXTENDS Integers, Sequences, FiniteSets

CONSTANTS
  Program,           \* Program[u]: the instructions of unit u, in order
  RoiUnits,          \* the units that the guest enters in the ROI only ...
  OtherUnits,        \* ... and those that it never enters in the ROI
  Addrs,             \* the addresses the guest may access
  SKIP_INST_LIMIT,   \* instructions to skip when no PIN_Start comes
  ACCESS_LIMIT,      \* accesses to record at most
  Modulus,           \* uint64_t is arithmetic modulo this
  MaxInstructions,   \* bound of the model: instructions the guest executes
  NoUnit             \* the guest is between two units

Units == DOMAIN Program
Instructions == [syscall : BOOLEAN, accesses : Nat]

ASSUME PinAssumption ==
  /\ \A u \in Units : Program[u] \in Seq(Instructions) /\ Program[u] # <<>>
  /\ \A u \in Units : \A k \in DOMAIN Program[u] :
       Program[u][k].syscall => Program[u][k].accesses = 0   \* no operand in memory
  /\ NoUnit \notin Units
  /\ RoiUnits \subseteq Units /\ OtherUnits \subseteq Units
  /\ {SKIP_INST_LIMIT, ACCESS_LIMIT, MaxInstructions} \subseteq Nat
  /\ Modulus \in Nat /\ Modulus > SKIP_INST_LIMIT + MaxInstructions
  /\ Addrs \subseteq Nat

VARIABLES
  isROI,
  count,          \* docount calls, set to SKIP_INST_LIMIT by startROI
  accessCount,
  roiInstCount,
  traces,         \* the addresses recorded
  compiled,       \* how each unit is instrumented: "cold" when not compiled yet
  unit, ins, op,  \* where the guest is: unit, instruction, accesses performed
  status,         \* "running", then "fini" and "done"; "killed" by TracePipe
  (* What really happened, to compare the tool with: *)
  window,         \* the ROI was on and the skip over when the unit was entered
  wanted,         \* the accesses the guest performed in the window
  executed,       \* the instructions it executed
  roiExecuted,    \* those in the window, but syscalls, since the last PIN_Start
  metInRoi,       \* the units that the guest first reached with the ROI on
  strayed         \* as roiExecuted: those of metInRoi outside of the window

guest == <<unit, ins, op, window, wanted, executed, roiExecuted, metInRoi, strayed>>
tool == <<isROI, count, accessCount, roiInstCount, traces, compiled>>
vars == <<tool, guest, status>>

Init ==
  /\ isROI = TRUE
  /\ count = 0 /\ accessCount = 0 /\ roiInstCount = 0 /\ traces = <<>>
  /\ compiled = [u \in Units |-> "cold"]
  /\ unit = NoUnit /\ ins = 1 /\ op = 0
  /\ status = "running"
  /\ window = FALSE /\ wanted = <<>> /\ executed = 0 /\ roiExecuted = 0
  /\ metInRoi = {} /\ strayed = 0

-----------------------------------------------------------------------------
(* Instrumentation.                                                        *)

\* A bug in Instruction, the ROI ignored.
InstructionAnywhere == IF count >= SKIP_INST_LIMIT THEN "recorded" ELSE "counted"

\* What Instruction() inserts before an instruction compiled now: nothing, a
\* call of docount, or calls of RecordMem and docount.
Instruction ==
  IF ~isROI THEN "plain"
  ELSE IF count >= SKIP_INST_LIMIT THEN "recorded"
  ELSE "counted"

\* The guest reaches unit u, which Pin compiles when it is cold.
Enter(u) ==
  /\ status = "running"
  /\ unit = NoUnit
  /\ executed + Len(Program[u]) <= MaxInstructions
  /\ window' = (isROI /\ count >= SKIP_INST_LIMIT)
  /\ u \in RoiUnits => window'
  /\ u \in OtherUnits => ~window'
  /\ unit' = u /\ ins' = 1 /\ op' = 0
  /\ compiled' = [compiled EXCEPT ![u] = IF @ = "cold" THEN Instruction ELSE @]
  /\ metInRoi' = IF isROI /\ compiled[u] = "cold" THEN metInRoi \union {u} ELSE metInRoi
  /\ UNCHANGED <<isROI, count, accessCount, roiInstCount, traces,
                 wanted, executed, roiExecuted, strayed, status>>

-----------------------------------------------------------------------------
(* Analysis calls, and the guest's execution of the instruction they       *)
(* precede.                                                                *)

Current == Program[unit][ins]

\* A bug in Record, `<=' for `<'.
RecordOneMore(addr) ==
  /\ accessCount <= ACCESS_LIMIT
  /\ traces' = Append(traces, addr)
  /\ accessCount' = accessCount + 1
  /\ UNCHANGED <<roiInstCount, status>>

\* RecordMem below the limit, and at the limit, where it ends the guest.
Record(addr) ==
  /\ accessCount < ACCESS_LIMIT
  /\ traces' = Append(traces, addr)
  /\ accessCount' = accessCount + 1
  /\ UNCHANGED <<roiInstCount, status>>

LimitReached ==
  /\ accessCount = ACCESS_LIMIT
  /\ roiInstCount' = (count - SKIP_INST_LIMIT) % Modulus
  /\ status' = "fini"
  /\ UNCHANGED <<traces, accessCount>>

\* The next access of the current instruction; Instruction() skips syscalls.
MemoryAccess(addr) ==
  /\ status = "running"
  /\ unit # NoUnit
  /\ op < Current.accesses
  /\ wanted' = IF window THEN Append(wanted, addr) ELSE wanted
  /\ op' = op + 1
  /\ IF compiled[unit] = "recorded" /\ ~Current.syscall
     THEN Record(addr) \/ LimitReached
     ELSE UNCHANGED <<traces, accessCount, roiInstCount, status>>
  /\ UNCHANGED <<isROI, count, compiled, unit, ins, window, executed, roiExecuted,
                 metInRoi, strayed>>

\* A bug in Counts, the call predicated like those of RecordMem.
CountsPredicated ==
  compiled[unit] # "plain" /\ ~Current.syscall /\ op = Current.accesses

\* The current instruction was compiled with a call of docount.
Counts == compiled[unit] # "plain" /\ ~Current.syscall

\* Code that was first met in the ROI, the skip included, runs outside of it.
Strays == ~window /\ count >= SKIP_INST_LIMIT /\ unit \in metInRoi /\ ~Current.syscall

\* docount, after all accesses of the instruction or none: the calls of
\* RecordMem are predicated.
Docount ==
  /\ status = "running"
  /\ unit # NoUnit
  /\ op \in {0, Current.accesses}
  /\ count' = IF Counts THEN count + 1 ELSE count
  /\ executed' = executed + 1
  /\ roiExecuted' = IF window /\ ~Current.syscall THEN roiExecuted + 1 ELSE roiExecuted
  /\ strayed' = IF Strays THEN strayed + 1 ELSE strayed
  /\ op' = 0
  /\ IF ins = Len(Program[unit])
     THEN unit' = NoUnit /\ ins' = 1
     ELSE ins' = ins + 1 /\ UNCHANGED unit
  /\ UNCHANGED <<isROI, accessCount, roiInstCount, traces, compiled, window,
                 wanted, metInRoi, status>>

-----------------------------------------------------------------------------
(* The routines that replace PIN_Start and PIN_Stop, and the end.          *)

startROI ==
  /\ status = "running"
  /\ unit = NoUnit
  /\ isROI' = TRUE
  /\ count' = SKIP_INST_LIMIT
  /\ roiExecuted' = 0 /\ strayed' = 0
  /\ UNCHANGED <<accessCount, roiInstCount, traces, compiled, unit, ins, op,
                 window, wanted, executed, metInRoi, status>>

stopROI ==
  /\ status = "running"
  /\ unit = NoUnit
  /\ isROI' = FALSE
  /\ UNCHANGED <<count, accessCount, roiInstCount, traces, compiled, guest, status>>

GuestExit ==
  /\ status = "running"
  /\ unit = NoUnit
  /\ status' = "fini"
  /\ UNCHANGED <<tool, guest>>

\* Fini dumps the trace and the instruction count, unless the limit has set it.
Fini ==
  /\ status = "fini"
  /\ roiInstCount' = IF roiInstCount = 0 THEN (count - SKIP_INST_LIMIT) % Modulus
                     ELSE roiInstCount
  /\ status' = "done"
  /\ UNCHANGED <<isROI, count, accessCount, traces, compiled, guest>>

Next ==
  \/ \E u \in Units : Enter(u)
  \/ \E addr \in Addrs : MemoryAccess(addr)
  \/ Docount
  \/ startROI \/ stopROI
  \/ GuestExit \/ Fini

Spec == Init /\ [][Next]_vars
-----------------------------------------------------------------------------
(* Properties.                                                             *)

TypeOK ==
  /\ isROI \in BOOLEAN
  /\ count \in 0 .. SKIP_INST_LIMIT + MaxInstructions
  /\ accessCount \in 0 .. ACCESS_LIMIT
  /\ roiInstCount \in 0 .. Modulus - 1
  /\ traces \in Seq(Addrs)
  /\ compiled \in [Units -> {"cold", "plain", "counted", "recorded"}]
  /\ unit \in Units \union {NoUnit}
  /\ unit # NoUnit => ins \in DOMAIN Program[unit] /\ op \in 0 .. Current.accesses
  /\ status \in {"running", "fini", "done", "killed"}
  /\ window \in BOOLEAN
  /\ wanted \in Seq(Addrs)
  /\ executed \in 0 .. MaxInstructions /\ roiExecuted \in 0 .. executed
  /\ metInRoi \subseteq Units /\ strayed \in 0 .. executed

\* The trace is the accesses of the ROI in their order, the first ACCESS_LIMIT
\* of them; the guest is stopped at the access after these and not before.
\* (`Return if not in ROI', `iff the instruction will actually be executed'.)
RoiExact ==
  /\ Len(traces) = accessCount
  /\ \/ traces = wanted
     \/ /\ accessCount = ACCESS_LIMIT /\ status # "running"
        /\ \E addr \in Addrs : wanted = Append(traces, addr)

\* What is reported as `ROI Instruction Count' is, wherever the guest was ended,
\* the instructions of the ROI after the last PIN_Start, and those outside of it
\* of the code that was first met there, each once; and when the guest did not
\* come past the skip, more than it has executed at all.
RoiCount ==
  status = "done" =>
    IF count >= SKIP_INST_LIMIT THEN roiInstCount = roiExecuted + strayed
    ELSE roiInstCount > executed
=============================================================================
