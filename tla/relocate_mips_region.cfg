SPECIFICATION Spec
CONSTANTS
  Sections <- MCSections
  ShType <- MCShType
  SecBase <- MCSecBase
  LcommAlign = 16
  Machines = {"MIPS"}
  NumSyms = 7
  Symtab <- MCSymtab
  Entries <- MCEntries
  MaxRelocs = 4
  Order <- MCOrder
  SecSize <- MCSecSize
  FindSym <- MCFindSym
  VarAddr <- MCVarAddr
  StubSize = 8
  AddrMod = 65536
  CallReach = 20
  RegionSize = 4096
PROPERTIES
  RegionsDifferIfStopped
CHECK_DEADLOCK FALSE
