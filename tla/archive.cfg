SPECIFICATION Spec
CONSTANT
  Jobs <- MCJobs
  AddrMod = 8192
INVARIANTS
  AsTheABI
  ReadsAsAssumed
  OnlyOwnKind
\* A read comes to its end.
CHECK_DEADLOCK FALSE
