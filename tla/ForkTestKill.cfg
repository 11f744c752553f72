SPECIFICATION FairSpec
CONSTANTS
  Work = 3
  Assoc = 4
  StealWayNums <- MCOneNumber
  Teams <- MCTwo
  ForkMayFail = TRUE
  MaxStops = 0
  HugePagesMayLack = FALSE
  AffinityMayFail = FALSE
  TargetPid = 2
  PiratePid = 3
INVARIANT KillsNobodyElse
\* The experiment ends.
CHECK_DEADLOCK FALSE
