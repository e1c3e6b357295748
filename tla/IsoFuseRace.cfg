SPECIFICATION Spec
CONSTANTS
  Entries <- MCEntries
  Kind <- MCKind
  Name <- MCName
  Names <- MCNames
  Relocated = {"m"}
  Associated = {"a"}
  Serial <- MCSerial
  Listing <- MCListing
  Root = "root"
  Modes <- MCSerialMode
  Extent <- MCExtent
  U64_MAX = 7
  MaxLookups = 2
  MaxForgets = 1
  MaxFiles = 0
  MaxDirs = 0
  MaxFaults = 0
INVARIANTS NodesKept
