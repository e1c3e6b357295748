SPECIFICATION Spec
CONSTANTS
  BLOCK_SIZE = 4
  U32_SIZE = 32
  Headers <- MCHeaders
  RawEntries <- MCEntries
  MaxEntries = 1
  Tokens <- MCTokens
  Numbers <- MCNumbers
  None = None
INVARIANTS OtherTimesAreRight
CHECK_DEADLOCK FALSE
