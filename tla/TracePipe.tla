----------------------------- MODULE TracePipe ------------------------------
(***************************************************************************)
(* The way of a trace from the Pin tool to the simulators.  The shell      *)
(* swaps the streams of the guest (`3>&1 1>&2 2>&3 | gzip'): what the      *)
(* guest and the tool write to stderr goes through one pipe into the file, *)
(* and stdout to the terminal.  The guest writes there while it runs, the  *)
(* tool all of the trace at the end.  The reader cuts the file into words, *)
(* and takes each for an address.                                          *)
(***************************************************************************)
EXTENDS PinTracer, FiniteSets, SequencesExt

CONSTANTS
  WordSize,        \* sizeof(addressTrace)
  MaxGuestBytes,   \* bound of the model: bytes the guest writes to stderr
  Mixed,           \* a word that is not the bytes of one recorded address
  NULL             \* not there yet

ASSUME PipeAssumption ==
  WordSize \in Nat \ {0} /\ MaxGuestBytes \in Nat /\ Mixed \notin Addrs

VARIABLES
  stderr,          \* the bytes written to the pipe: each with its origin
  file,            \* the same bytes once gzip has seen the end of the pipe
  memoryTraces     \* what the simulators read

pipe == <<stderr, file, memoryTraces>>

PipeInit == Init /\ stderr = <<>> /\ file = NULL /\ memoryTraces = NULL

-----------------------------------------------------------------------------
(* The writers.                                                            *)

Bytes(addr) == [k \in 1 .. WordSize |-> <<addr, k>>]
GuestByte == <<Mixed, 1>>

\* The first bytes of the trace, address after address.
TraceBytes(number) ==
  [n \in 1 .. number |-> Bytes(traces[(n - 1) \div WordSize + 1])[((n - 1) % WordSize) + 1]]

\* A bug in Dumped, the number of addresses taken for the number of bytes.
DumpedTooShort == TraceBytes(Len(traces))

Dumped == TraceBytes(Len(traces) * WordSize)

GuestWrites ==
  /\ status = "running"
  /\ unit = NoUnit
  /\ Len(stderr) < MaxGuestBytes
  /\ stderr' = Append(stderr, GuestByte)
  /\ UNCHANGED <<vars, file, memoryTraces>>

Dump == Fini /\ stderr' = stderr \o Dumped /\ UNCHANGED <<file, memoryTraces>>

\* Guest and tool, one process, get SIGKILL: while the guest runs, or with some
\* of the bytes of the trace written.
Killed ==
  /\ \/ status = "running" /\ UNCHANGED stderr
     \/ status = "fini" /\ \E n \in 0 .. Len(Dumped) : stderr' = stderr \o SubSeq(Dumped, 1, n)
  /\ status' = "killed"
  /\ UNCHANGED <<tool, guest, file, memoryTraces>>

-----------------------------------------------------------------------------
(* The readers.                                                            *)

\* gzip, at the end of its input.
Gzip ==
  /\ status \in {"done", "killed"}
  /\ file = NULL
  /\ file' = stderr
  /\ UNCHANGED <<vars, stderr, memoryTraces>>

\* The quotient drops the bytes behind the last whole word.
Words ==
  [k \in 1 .. Len(file) \div WordSize |-> SubSeq(file, (k - 1) * WordSize + 1, k * WordSize)]

Value(word) ==
  IF \E addr \in Addrs : word = Bytes(addr) THEN CHOOSE addr \in Addrs : word = Bytes(addr)
  ELSE Mixed

convertGZip2MemoryTraces ==
  /\ file # NULL
  /\ memoryTraces = NULL
  /\ memoryTraces' = [k \in DOMAIN Words |-> Value(Words[k])]
  /\ UNCHANGED <<vars, stderr, file>>

-----------------------------------------------------------------------------

PipeNext ==
  \/ \E u \in Units : Enter(u) /\ UNCHANGED pipe
  \/ \E addr \in Addrs : MemoryAccess(addr) /\ UNCHANGED pipe
  \/ Docount /\ UNCHANGED pipe
  \/ startROI /\ UNCHANGED pipe
  \/ stopROI /\ UNCHANGED pipe
  \/ GuestExit /\ UNCHANGED pipe
  \/ GuestWrites \/ Dump \/ Killed
  \/ Gzip \/ convertGZip2MemoryTraces

\* What has begun to end goes on: the tool in Fini, gzip, and the simulator that
\* is started on the file.
PipeFairness ==
  /\ WF_<<vars, pipe>>(Dump)
  /\ WF_<<vars, pipe>>(Gzip)
  /\ WF_<<vars, pipe>>(convertGZip2MemoryTraces)

PipeSpec == PipeInit /\ [][PipeNext]_<<vars, pipe>> /\ PipeFairness
-----------------------------------------------------------------------------
(* Properties.                                                             *)

GuestBytes == Cardinality({n \in DOMAIN stderr : stderr[n] = GuestByte})

\* Words of the guest's output, which the simulators take for addresses.
GuestWords == [k \in 1 .. GuestBytes \div WordSize |-> Mixed]

RecordedInRoi == SubSeq(wanted, 1, accessCount)

\* What a simulator reads are words of the guest's output and then the accesses
\* of the ROI, all of them if the tool came to its end and the first ones if it
\* was killed; but when the guest's output is not a whole number of words, not a
\* single address arrives.
AllOrNothing ==
  memoryTraces # NULL =>
    IF GuestBytes % WordSize = 0
    THEN /\ IsPrefix(memoryTraces, GuestWords \o RecordedInRoi)
         /\ IsPrefix(GuestWords, memoryTraces)
         /\ status = "done" => memoryTraces = GuestWords \o RecordedInRoi
    ELSE \A k \in DOMAIN memoryTraces : memoryTraces[k] = Mixed

\* Whatever ends the guest, the access limit in the middle of an instruction or a
\* SIGKILL, its simulators find a complete file; and unless it was killed, as many
\* addresses as the tool has counted, provided that the guest's output is a whole
\* number of words.
TraceArrives ==
  (status \in {"fini", "killed"}) ~>
    /\ memoryTraces # NULL
    /\ status = "done" /\ GuestBytes % WordSize = 0 =>
         Len(SelectSeq(memoryTraces, LAMBDA x : x # Mixed)) = accessCount
=============================================================================
