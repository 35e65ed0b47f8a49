SPECIFICATION FairWindowSpec
CONSTANTS
  Batches <- WindowBatches
  MaxBatch = 2
  MaxRequests = 5
  StatFlush <- NeverFlush
  MaxOpLookup = 3
  ReqMaxPerCycle = 2
  MaxRequestsPending <- OneCustom
  CacheLine = 4
  Entries <- RequestIds
  Garbage = malloc
  Chunk = 2
  MaxLength = 6
INVARIANTS QueueTypeOK DelReqsOrdered KeptMatchesDelReqs WindowIsQueue EraseLoop FenceBarrier
PROPERTIES FenceOrder EveryRequestRetires ImplementsSequence
