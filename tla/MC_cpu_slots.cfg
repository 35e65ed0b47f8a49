SPECIFICATION Spec
CONSTANTS
  Batches <- GatherScatterBatches
  MaxBatch = 2
  MaxRequests = 2
  StatFlush <- NeverFlush
  MaxOpLookup = 2
  ReqMaxPerCycle = 2
  MaxRequestsPending <- TwoSlots
  CacheLine = 4
INVARIANTS SlotsWithinLimit
