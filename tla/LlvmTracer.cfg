SPECIFICATION Spec
CONSTANTS
  Programs <- MCPrograms
  Main <- MCMain
  Addrs <- MCAddrs
  skipInstrLimit = 1
  memoryAccessLimit = 2
  MaxExecuted = 6
INVARIANTS
  ProgramKept
  PhisFirst
  TraceExact
  CountExact
\* The program ends.
CHECK_DEADLOCK FALSE
