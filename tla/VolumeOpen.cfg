SPECIFICATION Spec
CONSTANTS
  BLOCK_SIZE = 2
  Cell <- MCCell
  ZERO = "x"
  ImageLen <- MCImageLen
  Image <- MCImage
  Faults = {"error"}
  MaxFaults = 1
  Starts <- MCStarts
  Descriptors <- MCDescriptors
  RockRidge = {"rr"}
  Serial = {"rr", "plain"}
  Children <- MCChildren
  DirLba <- MCDirLba
  Paths <- MCPaths
INVARIANTS OpenIsRight
CHECK_DEADLOCK FALSE
