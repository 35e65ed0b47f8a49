SPECIFICATION CycleSpec
CONSTANTS
  Batches <- AllBatches
  MaxBatch = 2
  MaxRequests = 3
  StatFlush <- Flush
  MaxOpLookup = 2
  ReqMaxPerCycle = 2
  MaxRequestsPending <- OneSlot
  CacheLine = 4
  MaxCycles = 3
  MaxOutputs = 2
INVARIANTS CyclesAccounted RowsBalance IssueWidthKept
