---------------------------- MODULE SymbolBinding ----------------------------
(***************************************************************************)
(* What relocation promises about the symbols of an object, with no word   *)
(* about machines, stubs or the order of the tables: a symbol is bound to  *)
(* an address at most once, and for good; every word that refers to it is  *)
(* written at most once, with the address the symbol has from then on (0   *)
(* if it is left without one); nothing is written after a refusal, and     *)
(* relocation is complete only when every word is.                         *)
(* Relocate implements this specification.                                 *)
(***************************************************************************)
CONSTANT Addresses   \* the addresses a symbol can be given, and 0

VARIABLES
  words,     \* the words that refer to symbols, records with a field sym
  address,   \* the address of every symbol, 0 if it is not bound
  content,   \* written words -> what has been written
  state      \* "open", then "complete" or "refused"

bindVars == <<words, address, content, state>>

BindInit ==
  /\ \A w \in words : w.sym \in DOMAIN address
  /\ \A s \in DOMAIN address : address[s] = 0
  /\ DOMAIN content = {}
  /\ state = "open"

(* No symbol but s gets an address, and s only if it has none.             *)
BindOnly(s) ==
  /\ address' \in [DOMAIN address -> Addresses]
  /\ \A t \in DOMAIN address : address'[t] # address[t] => t = s /\ address[t] = 0

Write(w) ==
  /\ state = "open" /\ w \notin DOMAIN content
  /\ BindOnly(w.sym)
  /\ content' = [u \in DOMAIN content \cup {w} |->
                   IF u = w THEN address'[w.sym] ELSE content[u]]
  /\ state' \in {"open", "refused"}

Refuse ==
  /\ state = "open" /\ state' = "refused"
  /\ UNCHANGED address \/ \E w \in words \ DOMAIN content : BindOnly(w.sym)
  /\ UNCHANGED content

Complete ==
  /\ state = "open" /\ state' = "complete"
  /\ words \subseteq DOMAIN content
  /\ UNCHANGED <<address, content>>

BindNext == UNCHANGED words /\ (Refuse \/ Complete \/ \E w \in words : Write(w))

BindSpec == BindInit /\ [][BindNext]_bindVars
==============================================================================
