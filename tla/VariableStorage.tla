--------------------------- MODULE VariableStorage ---------------------------
(***************************************************************************)
(* What the loader promises about the variables of an object, with no word *)
(* about how: every variable that is asked for gets a place of its own, of *)
(* its size and at its alignment, which never moves; the loader refuses a  *)
(* variable only when the memory for variables was refused as a whole, or  *)
(* when the variable has no size or no alignment.                          *)
(* SHNCommonData implements this specification.                            *)
(***************************************************************************)
EXTENDS Integers

CONSTANT Addresses     \* the addresses a variable can be given, 0 not among them

VARIABLES
  wanted,   \* [variables -> [size, align]]
  memory,   \* "unknown", then "granted" or "refused"
  place,    \* the address of every placed variable, 0 of the others
  stopped   \* the loader has refused a variable

absVars == <<wanted, memory, place, stopped>>

Legal(w) == w.size > 0 /\ w.align > 0

Bytes(v, a) == a .. (a + wanted[v].size - 1)

Placed == {v \in DOMAIN wanted : place[v] # 0}

AbsInit ==
  /\ \A v \in DOMAIN wanted : wanted[v] \in [size : Nat, align : Nat]
  /\ memory = "unknown"
  /\ place = [v \in DOMAIN wanted |-> 0]
  /\ stopped = FALSE

Reserve == /\ memory = "unknown"
           /\ memory' \in {"granted", "refused"}
           /\ UNCHANGED <<wanted, place, stopped>>

Place(v) ==
  /\ memory = "granted" /\ ~stopped
  /\ place[v] = 0 /\ Legal(wanted[v])
  /\ \E a \in Addresses :
       /\ a % wanted[v].align = 0
       /\ \A u \in Placed : Bytes(v, a) \cap Bytes(u, place[u]) = {}
       /\ place' = [place EXCEPT ![v] = a]
  /\ UNCHANGED <<wanted, memory, stopped>>

Refuse(v) ==
  /\ ~stopped
  /\ memory = "refused" \/ ~Legal(wanted[v])
  /\ stopped' = TRUE
  /\ UNCHANGED <<wanted, memory, place>>

AbsNext == Reserve \/ \E v \in DOMAIN wanted : Place(v) \/ Refuse(v)

AbsSpec == AbsInit /\ [][AbsNext]_absVars
==============================================================================
