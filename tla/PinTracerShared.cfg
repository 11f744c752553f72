SPECIFICATION Spec
CONSTANTS
  Program <- MCSharedProgram
  RoiUnits <- MCNone
  OtherUnits <- MCNone
  Addrs <- MCAddrs
  SKIP_INST_LIMIT = 3
  ACCESS_LIMIT = 3
  Modulus = 32
  MaxInstructions = 6
  NoUnit = NoUnit
INVARIANT RoiExact
\* The tool ends with its guest.
CHECK_DEADLOCK FALSE
