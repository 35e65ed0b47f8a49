SPECIFICATION FairSystemSpec
CONSTANTS
  Batches <- AllBatches
  MaxBatch = 2
  MaxRequests = 2
  StatFlush <- Flush
  MaxOpLookup = 2
  ReqMaxPerCycle = 2
  MaxRequestsPending <- TwoSlots
  CacheLine = 4
  Configs <- TwoAccesses
  StartSource = 0
  StartTarget = 4
  DataWidth = 2
  StatLevel = 1
  NDEBUG = TRUE
PROPERTIES SystemHalts
