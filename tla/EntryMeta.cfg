SPECIFICATION Spec
CONSTANTS
  BLOCK_SIZE = 4
  U32_SIZE = 32
  Headers <- MCHeaders
  RawEntries <- MCEntries
  MaxEntries = 3
  Tokens <- MCTokens
  Numbers <- MCNumbers
  None = None
INVARIANTS TargetLeadsThere NameIsRight TimesAreRight ModeIsRight
CHECK_DEADLOCK FALSE
