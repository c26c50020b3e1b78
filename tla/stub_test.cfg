SPECIFICATION Spec
CONSTANTS
  Functions = {"function1", "function2"}
  StubSize = 8
INVARIANTS
  StubsGiven
\* The program ends.
CHECK_DEADLOCK FALSE
