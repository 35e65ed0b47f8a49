SPECIFICATION MemMgrSpec
CONSTANTS
  linear = linear
  shuffled = shuffled
  Managers <- TwoManagers
  MapPolicy <- TwoPolicies
  PageSize = 8
  PageCount = 3
  CacheLine = 4
  Lengths <- ShortLengths
INVARIANTS TranslationInjective PartsInOneLine LinearSendsRequest
