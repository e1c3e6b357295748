SPECIFICATION FairSpec
CONSTANTS
  BLOCK_SIZE = 6
  Cell <- MCCell
  ZERO = "zero"
  ImageLen <- MCImageLen
  Image <- MCImage
  Faults = {"error"}
  MaxFaults = 2
  MinRecord = 2
  U32_SIZE = 64
  Records <- MCRecords
  SuspEntries <- MCSuspEntries
  Root <- MCRoot
  Iterators = {}
  Finder = "f"
  Names <- MCNames
  Paths <- MCPaths
  Lower <- MCLower
INVARIANTS FindIsRight SuspComplete
PROPERTIES CallsReturn
