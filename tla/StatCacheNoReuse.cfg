SPECIFICATION FairSpec
CONSTANTS
  BlkSize = 2
  Inputs <- MCStatInputs
  SampleStep = 3
  SampleStepDiff = 2
  Modulus = 16
  Beyond <- MCBeyond
  CacheLineNums <- MCOneSize
  Scale = 1000
  Eps = 2
  NaN = NaN
  MaxChunks = 17
PROPERTY Returns
CHECK_DEADLOCK FALSE
