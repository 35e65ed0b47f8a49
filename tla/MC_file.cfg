SPECIFICATION FileSpec
CONSTANTS
  Batches <- AllBatches
  MaxBatch = 2
  MaxRequests = 17
  StatFlush <- Flush
  MaxOpLookup = 2
  ReqMaxPerCycle = 2
  MaxRequestsPending <- TwoSlots
  CacheLine = 4
  Configs <- LargeThenSmall
  StartSource = 0
  StartTarget = 4
  DataWidth = 2
  StatLevel = 16
  NDEBUG = TRUE
  MaxCycles = 6
  MaxOutputs = 3
  Period = 3
INVARIANTS TableIsRun WindowBounded
