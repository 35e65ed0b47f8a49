SPECIFICATION PlacementSpec
CONSTANTS
  ParsedArgs <- SmallArgs
  Starts <- AllStarts
  Absent = absent
  WordSize = 8
  DataWidth = 2
  dense_size = 3
INVARIANTS OverlapWarned
