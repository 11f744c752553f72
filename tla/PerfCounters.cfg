SPECIFICATION Spec
CONSTANTS
  MaxFds = 2
  Configs <- MCConfigs
  Ids <- MCIds
  MaxNow = 2
  MaxCalls = 4
  MaxReadings = 2
  Garbage <- MCGarbage
  NULL = NULL
INVARIANTS
  Aggregates
  NothingTwice
  CountsCoverTime
\* init_perf may exit, and the bounds end the calls.
CHECK_DEADLOCK FALSE
