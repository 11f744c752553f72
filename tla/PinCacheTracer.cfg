SPECIFICATION CacheSpec
CONSTANTS
  Program <- MCProgram
  RoiUnits <- MCRoiUnits
  OtherUnits <- MCOtherUnits
  Addrs <- MCAddrs
  SKIP_INST_LIMIT = 1
  ACCESS_LIMIT = 5
  Modulus = 32
  MaxInstructions = 6
  NoUnit = NoUnit
  BlkSize = 2
  SetWays = 2
  Sizes <- MCSizes
  Garbage <- MCGarbage
INVARIANT OnlineMatchesOffline
\* The tool ends with its guest.
CHECK_DEADLOCK FALSE
