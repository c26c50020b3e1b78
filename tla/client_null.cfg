SPECIFICATION ClientSpec
CONSTANTS
  Objects <- MCObjects
  FileSizes <- MCFileSizes
  HeaderSize = 8
  ShdrSize = 4
  WordAlign = 2
  Buf = 32
  AddrMod = 256
  HasStubs = TRUE
  IdentSize = 4
  Provided <- MCProvided
INVARIANTS
  RefusedIfNotLoaded
\* The process ends.
CHECK_DEADLOCK FALSE
