SPECIFICATION FairSpec
CONSTANTS
  BLOCK_SIZE = 2
  Cell <- MCCell
  ZERO = "x"
  ImageLen <- MCImageLen
  Image <- MCImage
  Faults = {"error", "short"}
  MaxFaults = 2
  Starts <- MCStarts
  Descriptors <- MCDescriptors
  RockRidge = {"rr"}
  Serial = {"rr", "plain"}
  Children <- MCChildren
  DirLba <- MCDirLba
  Paths <- MCPaths
INVARIANTS TypeOK ScanIsRight OpenIsRightInRoot MountIsRight
PROPERTIES CallsReturn
CHECK_DEADLOCK FALSE
