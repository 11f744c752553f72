SPECIFICATION FairSpec
CONSTANTS
  Work = 3
  Assoc = 4
  StealWayNums <- MCStealWayNums
  Teams <- MCTeams
  ForkMayFail = TRUE
  MaxStops = 2
  HugePagesMayLack = TRUE
  AffinityMayFail = TRUE
  TargetPid = 2
  PiratePid = 3
INVARIANTS
  TypeOK
  MeasuresToTheEnd
  WindowsOverlap
  KillsPirateOnly
PROPERTIES
  ParentReturns
  PirateGone
  BothSteal
\* The experiment ends.
CHECK_DEADLOCK FALSE
