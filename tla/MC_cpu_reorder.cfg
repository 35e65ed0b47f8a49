SPECIFICATION Spec
CONSTANTS
  Batches <- AllBatches
  MaxBatch = 2
  MaxRequests = 5
  StatFlush <- NeverFlush
  MaxOpLookup = 3
  ReqMaxPerCycle = 2
  MaxRequestsPending <- Slots
  CacheLine = 4
INVARIANTS TypeOK SlotsMatchInFlight PartsAccounted DependenciesExact NoReissue SlotsNearLimit HaltedClean IInv
