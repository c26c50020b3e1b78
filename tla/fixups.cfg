SPECIFICATION Spec
CONSTANTS
  Low = 4
  Nibble = 4
  Field = 16
  OpSize = 16
  Jump = 16
  Regions = 4
  Spaces = 4
  Shapes <- MCShapes
INVARIANTS
  TypeOK
  BranchArrives
  FarOnlyIfFar
  MovPairGives
  HiLoPairGives
  PcLeads
  LowAddressExact
  OtherBitsKept
\* The loop ends, or the program aborts.
CHECK_DEADLOCK FALSE
