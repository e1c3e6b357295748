SPECIFICATION Spec
CONSTANTS
  Entries <- MCNodesEntries
  Kind <- MCKind
  Name <- MCName
  Names = {"f", "d", "h", "l"}
  Relocated = {}
  Associated = {"a"}
  Serial <- MCSerial
  Listing <- MCListing
  Root = "root"
  Modes <- MCBothModes
  Extent <- MCExtent
  U64_MAX = 6
  MaxLookups = 2
  MaxForgets = 1
  MaxFiles = 2
  MaxDirs = 0
  MaxFaults = 1
INVARIANTS TypeOK NodesStable HandlesStable
