SPECIFICATION Spec
CONSTANTS
  blkSize = 2
  cacheSize = 16
  cacheAssoc = 4
  pirateMapped = 16
  full_size = 24
  part_size = 8
  stride = 1
  work_iteration = 2
  arrayMapped = 24
  Experiments <- MCExperiments
INVARIANTS
  WithinMappings
  TargetGetsRest
  PiratesHold
  WorkingSets
\* No pirate runs that has nothing to steal or fails its assertion.
CHECK_DEADLOCK FALSE
