SPECIFICATION Spec
CONSTANTS
  Objects <- MCObjects
  FileSizes <- MCFileSizes
  HeaderSize = 8
  ShdrSize = 4
  WordAlign = 2
  Buf = 32
  AddrMod = 256
  HasStubs = TRUE
INVARIANTS
  ReadToTheEnd
  NeverBlind
  TablesInMemory
  PatchedFromFile
  NothingAfterACut
  WholeFileLoads
\* The object is loaded, read() has returned 0, or the program aborts.
CHECK_DEADLOCK FALSE
