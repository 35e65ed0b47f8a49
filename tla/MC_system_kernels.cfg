SPECIFICATION FairSystemSpec
CONSTANTS
  Batches <- AllBatches
  MaxBatch = 2
  MaxRequests = 26
  StatFlush <- Flush
  MaxOpLookup = 2
  ReqMaxPerCycle = 2
  MaxRequestsPending <- TwoSlots
  CacheLine = 4
  Configs <- AllKernels
  StartSource = 0
  StartTarget = 4
  DataWidth = 2
  StatLevel = 16
  NDEBUG = FALSE
INVARIANTS SystemTypeOK GeneratorKeepsContract RequestsConserved ReadBeforeWrite AbortsOnlySmall
PROPERTIES ReplaysPatterns StatisticsAtRest SystemHalts
