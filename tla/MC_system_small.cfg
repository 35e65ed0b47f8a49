SPECIFICATION SystemSpec
CONSTANTS
  Batches <- AllBatches
  MaxBatch = 2
  MaxRequests = 1
  StatFlush <- Flush
  MaxOpLookup = 2
  ReqMaxPerCycle = 2
  MaxRequestsPending <- TwoSlots
  CacheLine = 4
  Configs <- SingleAccess
  StartSource = 0
  StartTarget = 4
  DataWidth = 2
  StatLevel = 16
  NDEBUG = FALSE
INVARIANTS AssertionHolds
