SPECIFICATION Spec
CONSTANTS
  Sections <- MCSections
  ShType <- MCShType
  SecBase <- MCSecBase
  LcommAlign = 16
  Machines = {"ARM"}
  NumSyms = 8
  Symtab <- MCSymtab
  Entries <- MCEntries
  MaxRelocs = 4
  Order <- MCOrder
  SecSize <- MCSecSize
  FindSym <- MCFindSym
  VarAddr <- MCVarAddr
  StubSize = 8
  AddrMod = 8192
  CallReach = 20
  RegionSize = 4096
INVARIANTS
  StubInv
  NeverOutOfStubs
  CallsLand
  SitesCurrent
  Unresolved
  FarOnlyIfBoundBefore
  SealedComplete
PROPERTIES
  Terminates
  ImplementsBinding
\* relocate() returns or the program aborts.
CHECK_DEADLOCK FALSE
