SPECIFICATION Spec
CONSTANTS
  BLOCK_SIZE = 6
  Cell <- MCCell
  ZERO = "zero"
  ImageLen <- MCImageLen
  Image <- MCImage
  Faults = {"error", "short"}
  MaxFaults = 1
  MinRecord = 2
  U32_SIZE = 64
  Records <- MCRecords
  SuspEntries <- MCSuspEntries
  Root <- MCRoot
  Iterators = {"i"}
  Finder = "f"
  Names <- MCSub
  Paths <- MCWalkPaths
  Lower <- MCLower
INVARIANTS TypeOK BlockCoherent ListedExactly
PROPERTIES StreamSpec
