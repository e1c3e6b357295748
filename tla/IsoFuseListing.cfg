SPECIFICATION FairSpec
CONSTANTS
  Entries <- MCEntries
  Kind <- MCKind
  Name <- MCName
  Names = {"f", "d"}
  Relocated = {"m"}
  Associated = {"a"}
  Serial <- MCSerial
  Listing <- MCListing
  Root = "root"
  Modes <- MCBothModes
  Extent <- MCExtent
  U64_MAX = 7
  MaxLookups = 2
  MaxForgets = 1
  MaxFiles = 0
  MaxDirs = 1
  MaxFaults = 1
INVARIANTS NodesStable HandlesStable ListingExact
PROPERTIES ReadDirReturns
