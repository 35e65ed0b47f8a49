SPECIFICATION MemMgrSpec
CONSTANTS
  linear = linear
  shuffled = shuffled
  Managers <- OneManager
  MapPolicy <- OnePolicy
  PageSize = 8
  PageCount = 2
  CacheLine = 4
  Lengths <- ShortLengths
INVARIANTS UpperPartMapped
