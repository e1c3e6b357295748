SPECIFICATION Spec
CONSTANTS
  BLOCK_SIZE = 3
  Cell <- MCCell
  ZERO = 0
  ImageLen <- MCImageLen
  Image <- MCImage
  Faults = {"short"}
  MaxFaults = 1
  Readers = {"a", "b"}
  StartLba <- MCStartLba
  Size <- MCSize
  MaxRead = 4
  I64_MAX = 7
INVARIANTS ReadsTheFile
