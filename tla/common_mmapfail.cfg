SPECIFICATION Spec
CONSTANTS
  Sections <- MCSections
  ShType <- MCShType
  SecBase <- MCSecBase
  LcommAlign = 4
  NumSyms = 3
  Entries <- MCEntries
  Bases <- MCBases
  SizeMod = 128
  ExternAddrs = {0, 77}
INVARIANTS
  AllocatedBeforeRelocation
CHECK_DEADLOCK FALSE
