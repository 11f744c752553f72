SPECIFICATION PipeSpec
CONSTANTS
  Program <- MCProgram
  RoiUnits <- MCRoiUnits
  OtherUnits <- MCOtherUnits
  Addrs <- MCAddrs
  SKIP_INST_LIMIT = 3
  ACCESS_LIMIT = 3
  Modulus = 32
  MaxInstructions = 6
  NoUnit = NoUnit
  WordSize = 2
  MaxGuestBytes = 2
  Mixed = Mixed
  NULL = NULL
INVARIANTS
  TypeOK
  RoiExact
  RoiCount
  AllOrNothing
PROPERTY TraceArrives
\* Nothing is left to do when the simulator has read the trace.
CHECK_DEADLOCK FALSE
