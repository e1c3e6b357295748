SPECIFICATION Spec
CONSTANTS
  BLOCK_SIZE = 6
  Cell <- MCCell
  ZERO = "zero"
  ImageLen <- MCImageLen
  Image <- MCImage
  Faults = {"error"}
  MaxFaults = 0
  MinRecord = 2
  U32_SIZE = 64
  Records <- MCRecordsOffset
  SuspEntries <- MCSuspEntries
  Root <- MCRoot
  Iterators = {"i"}
  Finder = "f"
  Names = {}
  Paths = {}
  Lower <- MCLower
INVARIANTS SuspComplete
