SPECIFICATION FairSpec
CONSTANTS
  BlkSize = 2
  Inputs <- MCInputs
  SampleStep = 3
  SampleStepDiff = 2
  Modulus = 16
  Beyond <- MCBeyond
  CacheLineNums <- MCSizes
  Scale = 1000
  Eps = 4
  NaN = NaN
  MaxChunks = 17
INVARIANTS
  HistogramExact
  DivisorCountsReuses
  LargerCacheNoWorse
  SampleSpread
  SlotsPartition
  LastSlotLarge
PROPERTIES
  OneDirection
  SolvesReuse
  SlotsEnd
\* main() returns.
CHECK_DEADLOCK FALSE
