SPECIFICATION Spec
CONSTANTS
  BlkSize <- MCBlkSize
  DefaultAssoc <- MCAssoc
  Sizes <- MCSizes
  Traces <- MCTraces
  Arguments <- MCArguments
  Garbage <- MCGarbage
INVARIANTS
  TypeOK
  InStep
  LineHistory
  LruOrder
  NoEarlyEviction
  Inclusion
PROPERTY ImplementsStackDistance
\* main() returns.
CHECK_DEADLOCK FALSE
