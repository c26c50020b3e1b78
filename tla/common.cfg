SPECIFICATION Spec
CONSTANTS
  Sections <- MCSections
  ShType <- MCShType
  SecBase <- MCSecBase
  LcommAlign = 4
  NumSyms = 3
  Entries <- MCEntries
  Bases <- MCBases
  SizeMod = 128
  ExternAddrs = {0, 77}
INVARIANTS
  PoolInv
  NeverExhausted
  MissedOnlyIfRefused
PROPERTIES
  ImplementsStorage
\* The program may abort, and a client may stop asking.
CHECK_DEADLOCK FALSE
