------------------------------- MODULE StubTest -------------------------------
(***************************************************************************)
(* The program tests/stub-test.cpp, which uses a StubLayout                *)
(* (lib/StubLayout.cpp) on its own: it asks for stubs of two functions and *)
(* calls them.  Nobody gives the layout a table.                           *)
(***************************************************************************)
EXTENDS Naturals

CONSTANTS
  Functions,  \* the functions the test wants stubs of
  StubSize    \* STUB_SIZE

VARIABLES
  arm,     \* built for ARM: elsewhere there are no stubs
  table,   \* next free slot of the layout, 0 for NULL
  count,   \* slots left
  stubs,   \* what allocateStub has answered: function -> address, 0 for NULL
  pc       \* "allocate", "passed", or "failed" for exit(EXIT_FAILURE)

vars == <<arm, table, count, stubs, pc>>

(* StubLayout::StubLayout *)
Init ==
  /\ arm \in BOOLEAN
  /\ table = 0 /\ count = 0
  /\ stubs = [f \in {} |-> 0]
  /\ pc = "allocate"

(* StubLayout::allocateStub; answer is what it returns.                    *)
AllocateStub(answer) ==
  \/ /\ arm /\ count > 0
     /\ answer = table
     /\ table' = table + StubSize /\ count' = count - 1
  \/ /\ ~arm \/ count = 0
     /\ answer = 0
     /\ UNCHANGED <<table, count>>

(* One of the declarations func1 and func2.                                *)
Declare(f) ==
  /\ pc = "allocate" /\ f \in Functions \ DOMAIN stubs
  /\ \E answer \in {0, table} :
       /\ AllocateStub(answer)
       /\ stubs' = [g \in DOMAIN stubs \cup {f} |-> IF g = f THEN answer ELSE stubs[g]]
  /\ UNCHANGED <<arm, pc>>

(* The tests of both, and the calls.                                       *)
Examine ==
  /\ pc = "allocate" /\ DOMAIN stubs = Functions
  /\ pc' = IF \E f \in Functions : stubs[f] = 0 THEN "failed" ELSE "passed"
  /\ UNCHANGED <<arm, table, count, stubs>>

Next == (\E f \in Functions : Declare(f)) \/ Examine

Spec == Init /\ [][Next]_vars

-----------------------------------------------------------------------------
(* The test does not report "ERROR: Unable to allocate stub for function1" *)
(* (tests/stub-test.cpp:37): a new StubLayout has stubs to give.  In the   *)
(* code it has none before initStubTable has been called                   *)
(* (StubLayout.cpp:30-43), and the test fails in every build.              *)
StubsGiven == pc # "failed"
===============================================================================
