---------------------------- MODULE SHNCommonData ----------------------------
(***************************************************************************)
(* The memory of an object's variables: ELFObject::SHNCommonData.          *)
(*                                                                         *)
(* relocate() (include/impl/ELFObject.hxx) first walks the symbol table    *)
(* and adds up what its variables may need, then maps one chunk of that    *)
(* size, and afterwards hands the chunk out, piece by piece, the first     *)
(* time ELFSymbol::getAddress is asked for each variable                   *)
(* (allocateSHNCommonData, include/ELFObject.h).  The order of those       *)
(* requests is the order of the relocation entries, then of the client's   *)
(* rsloaderGetSymbolAddress calls: any order at all.  The padding that     *)
(* aligns a piece depends on that order, the sum made in advance does not. *)
(*                                                                         *)
(* A call of relocate() is broken up into its loop iterations.             *)
(***************************************************************************)
EXTENDS ELFSymbol, FiniteSets

CONSTANTS
  NumSyms,     \* entries of the symbol table
  Entries,     \* the symbols a table may hold
  Bases,       \* addresses mmap may return
  SizeMod,     \* 2^(bits of a size_t)
  ExternAddrs  \* addresses find_sym may return, 0 (NULL) among them

Syms == 0 .. NumSyms - 1

ASSUME CommonAssumption ==
  /\ NumSyms \in Nat
  /\ Entries \subseteq Symbols
  /\ Bases \subseteq Nat \ {0}
  /\ SizeMod \in Nat
  /\ ExternAddrs \subseteq Nat

VARIABLES
  symtab,                \* the symbol table, fixed once read
  pc,                    \* "count", "relocate", "loaded" or "aborted"
  failure,               \* what aborted the program
  i,                     \* index of the counting loop
  SHNCommonDataSize,     \* local of relocate(): the sum so far
  chunk,                 \* buffer of the MemChunk, 0 for MAP_FAILED
  SHNCommonDataPtr,      \* next free byte, 0 (NULL) before the chunk is mapped
  SHNCommonDataFreeSize, \* bytes left
  my_addr                \* cached address of every symbol, 0 if not known

poolVars == <<chunk, SHNCommonDataPtr, SHNCommonDataFreeSize>>
vars == <<symtab, pc, failure, i, SHNCommonDataSize, chunk,
          SHNCommonDataPtr, SHNCommonDataFreeSize, my_addr>>

Failures == {"none", "request", "pool", "exhausted", "symbol"}

(* Subtraction of a size_t.                                                *)
Minus(a, b) == IF b <= a THEN a - b ELSE a - b + SizeMod

Abort(why) == pc' = "aborted" /\ failure' = why

(* Memory that has to be counted for a set of symbols: one token for every *)
(* byte, so that the sum over a set is the size of a set.                  *)
Tokens(S)      == UNION {{s} \X (1 .. Demand(symtab[s])) : s \in S}
TotalDemand(S) == Cardinality(Tokens(S))

-----------------------------------------------------------------------------
(* The variables of an object that is loaded fit the address space.        *)
Init ==
  /\ symtab \in [Syms -> Entries] /\ TotalDemand(Syms) < SizeMod
  /\ pc = "count" /\ failure = "none"
  /\ i = 0 /\ SHNCommonDataSize = 0
  /\ chunk = 0 /\ SHNCommonDataPtr = 0 /\ SHNCommonDataFreeSize = 0
  /\ my_addr = [s \in Syms |-> 0]

(* A loop that assigns the size instead of adding it (for the sensitivity  *)
(* runs).                                                                  *)
CountLast ==
  /\ pc = "count" /\ i < NumSyms
  /\ SHNCommonDataSize' = Demand(symtab[i]) % SizeMod
  /\ i' = i + 1
  /\ UNCHANGED <<symtab, pc, failure, poolVars, my_addr>>

(* One iteration of the loop that adds up the sizes, as a size_t.          *)
CountSymbol ==
  /\ pc = "count" /\ i < NumSyms
  /\ SHNCommonDataSize' = (SHNCommonDataSize + Demand(symtab[i])) % SizeMod
  /\ i' = i + 1
  /\ UNCHANGED <<symtab, pc, failure, poolVars, my_addr>>

(* initSHNCommonDataSize when mmap gives the memory.                       *)
InitCommonData ==
  /\ pc = "count" /\ i = NumSyms
  /\ SHNCommonDataSize > 0
  /\ \E base \in Bases :
       /\ base + SHNCommonDataSize <= SizeMod
       /\ chunk' = base
       /\ SHNCommonDataPtr' = base
  /\ SHNCommonDataFreeSize' = SHNCommonDataSize
  /\ pc' = "relocate"
  /\ UNCHANGED <<symtab, failure, i, SHNCommonDataSize, my_addr>>

(* initSHNCommonDataSize when mmap refuses, as it always does for a size   *)
(* of 0.  The assertion that should report it tests a string literal and   *)
(* never fires, so relocation goes on without a chunk.                     *)
InitCommonDataFails ==
  /\ pc = "count" /\ i = NumSyms
  /\ pc' = "relocate"
  /\ UNCHANGED <<symtab, failure, i, SHNCommonDataSize, poolVars, my_addr>>

-----------------------------------------------------------------------------
(* An allocator that forgets to align (for the sensitivity runs).          *)
NoPadding(align) == 0

(* Bytes skipped so that a piece starts at a multiple of align.            *)
Padding(align) ==
  LET rem == SHNCommonDataPtr % align IN IF rem = 0 THEN 0 ELSE align - rem

(* The first byte after a piece; and an allocator that forgets to advance. *)
Stay(start, size) == start
Advance(start, size) == start + size

(* allocateSHNCommonData(size, align) on behalf of symbol s.  Without a    *)
(* piece getAddress aborts.                                                *)
AllocateSHNCommonData(s, size, align) ==
  \/ /\ size = 0 \/ align = 0
     /\ Abort("request")
     /\ UNCHANGED <<poolVars, my_addr>>
  \/ /\ size > 0 /\ align > 0 /\ SHNCommonDataPtr = 0
     /\ Abort("pool")
     /\ UNCHANGED <<poolVars, my_addr>>
  \/ /\ size > 0 /\ align > 0 /\ SHNCommonDataPtr # 0
     /\ LET start == SHNCommonDataPtr + Padding(align)
            free  == Minus(SHNCommonDataFreeSize, Padding(align))
        IN \/ /\ free < size
              /\ SHNCommonDataPtr' = start
              /\ SHNCommonDataFreeSize' = free
              /\ Abort("exhausted")
              /\ UNCHANGED my_addr
           \/ /\ free >= size
              /\ SHNCommonDataPtr' = Advance(start, size)
              /\ SHNCommonDataFreeSize' = free - size
              /\ my_addr' = [my_addr EXCEPT ![s] = start]
              /\ UNCHANGED <<pc, failure>>
     /\ UNCHANGED chunk

(* getAddress that does not look for a cached address (for the sensitivity *)
(* runs).                                                                  *)
GetAddressAgain(s, autoAlloc) ==
  /\ IsCommonData(symtab[s])
  /\ symtab[s].shndx = "COMMON" => autoAlloc
  /\ AllocateSHNCommonData(s, symtab[s].size, Align(symtab[s]))
  /\ UNCHANGED <<symtab, i, SHNCommonDataSize>>

(* getAddress(autoAlloc) of a symbol whose address is not known yet.  It   *)
(* is called by the relocation loop with autoAlloc, and by                 *)
(* rsloaderGetSymbolAddress without.                                       *)
GetAddress(s, autoAlloc) ==
  /\ my_addr[s] = 0
  /\ \/ /\ IsCommonData(symtab[s])
        /\ symtab[s].shndx = "COMMON" => autoAlloc
        /\ AllocateSHNCommonData(s, symtab[s].size, Align(symtab[s]))
     \/ /\ IsSectionData(symtab[s]) /\ ~HasNoAddress(symtab[s])
        /\ my_addr' = [my_addr EXCEPT ![s] = SectionAddress(symtab[s])]
        /\ UNCHANGED <<pc, failure, poolVars>>
     \/ /\ HasNoAddress(symtab[s])
        /\ Abort("symbol")
        /\ UNCHANGED <<poolVars, my_addr>>
  /\ UNCHANGED <<symtab, i, SHNCommonDataSize>>

(* A relocation entry refers to s.                                         *)
RelocateAgainst(s) == pc = "relocate" /\ GetAddress(s, TRUE)

(* A relocation entry refers to an undefined symbol, getAddress answers 0, *)
(* and the relocator sets the address find_sym (or a stub) gives.          *)
SetAddress(s) ==
  /\ pc = "relocate"
  /\ IsUndefined(symtab[s]) /\ my_addr[s] = 0
  /\ \E a \in ExternAddrs : my_addr' = [my_addr EXCEPT ![s] = a]
  /\ UNCHANGED <<symtab, pc, failure, i, SHNCommonDataSize, poolVars>>

(* The relocation entries are exhausted, and relocate() returns.           *)
EndRelocate ==
  /\ pc = "relocate"
  /\ pc' = "loaded"
  /\ UNCHANGED <<symtab, failure, i, SHNCommonDataSize, poolVars, my_addr>>

(* The client asks for the address of s.                                   *)
GetSymbolAddress(s) == pc = "loaded" /\ GetAddress(s, FALSE)

Next ==
  \/ CountSymbol \/ InitCommonData \/ InitCommonDataFails \/ EndRelocate
  \/ \E s \in Syms : RelocateAgainst(s) \/ SetAddress(s) \/ GetSymbolAddress(s)

Spec == Init /\ [][Next]_vars

-----------------------------------------------------------------------------
CommonVars == {s \in Syms : IsCommonData(symtab[s])}
Pending == {s \in Syms : IsCommonData(symtab[s]) /\ my_addr[s] = 0}
Given   == {s \in Syms : IsCommonData(symtab[s]) /\ my_addr[s] # 0}

(* Every variable holds a value of its type, the program is aborted        *)
(* exactly when something failed, and the free pointer is NULL exactly     *)
(* while no chunk is mapped (ELFObject.h:41-54).                           *)
TypeOK ==
  /\ symtab \in [Syms -> Entries]
  /\ pc \in {"count", "relocate", "loaded", "aborted"}
  /\ failure \in Failures /\ (pc = "aborted" <=> failure # "none")
  /\ i \in 0 .. NumSyms
  /\ SHNCommonDataSize \in Nat
  /\ chunk \in Bases \cup {0}
  /\ SHNCommonDataPtr \in Nat /\ (SHNCommonDataPtr = 0 <=> chunk = 0)
  /\ SHNCommonDataFreeSize \in Nat
  /\ my_addr \in [Syms -> Nat]

(* The sum the counting loop has made is the demand of the symbols it has  *)
(* passed, it has not wrapped, and all of them have been passed before the *)
(* chunk is used.                                                          *)
Counted ==
  /\ TotalDemand(Syms) < SizeMod
  /\ SHNCommonDataSize = TotalDemand(0 .. i - 1)
  /\ pc # "count" => i = NumSyms
  /\ pc = "count" => chunk = 0

(* Used and free bytes add up to the chunk, whatever was padded away: the  *)
(* unsigned subtraction of ELFObject.h:86 never wraps.                     *)
Accounting ==
  /\ chunk = 0 => Given = {}
  /\ chunk # 0 => /\ chunk <= SHNCommonDataPtr
                  /\ SHNCommonDataPtr - chunk + SHNCommonDataFreeSize
                       = SHNCommonDataSize
                  /\ chunk + SHNCommonDataSize <= SizeMod

(* What is free always suffices for every variable that has not been given *)
(* its piece, at the worst padding.                                        *)
PendingFits == chunk # 0 => TotalDemand(Pending) <= SHNCommonDataFreeSize

(* The pieces lie inside the used part of the chunk, at their alignment,   *)
(* and do not overlap.                                                     *)
Within(s) ==
  /\ chunk <= my_addr[s]
  /\ my_addr[s] + symtab[s].size <= SHNCommonDataPtr
Apart(s, t) == \/ my_addr[s] + symtab[s].size <= my_addr[t]
               \/ my_addr[t] + symtab[t].size <= my_addr[s]
PiecesApart ==
  \A s \in Given : /\ Within(s)
                   /\ \A t \in Given \ {s} : Apart(s, t)
Aligned == \A s \in Given : my_addr[s] % Align(symtab[s]) = 0

PoolInv == TypeOK /\ Counted /\ Accounting /\ PendingFits /\ PiecesApart

(* The abort "Unable to allocate memory for SHN_COMMON."                   *)
(* (ELFSymbol.hxx:158 and 206) is never reached once the chunk is mapped,  *)
(* in whatever order the variables are asked for.                          *)
NeverExhausted == failure # "exhausted"

(* The chunk is missed ("Must init common data size before use!") only if  *)
(* mmap really refused memory: an object without variables, for which it   *)
(* is asked for 0 bytes and always fails, never draws on it.               *)
MissedOnlyIfRefused ==
  failure = "pool" => chunk = 0 /\ SHNCommonDataSize > 0

(* An object that has variables is relocated with memory for them: what    *)
(* the assertion at ELFObject.hxx:451-453 says ("Allocate memory for       *)
(* common variable fail!").  It tests a string literal and never fires, so *)
(* the code goes on after mmap has refused.                                *)
AllocatedBeforeRelocation ==
  pc \in {"relocate", "loaded"} /\ SHNCommonDataSize > 0 => chunk # 0

-----------------------------------------------------------------------------
(* The promise of VariableStorage, seen in this state.                     *)
Storage == INSTANCE VariableStorage WITH
  Addresses <- 1 .. SizeMod,
  wanted  <- [s \in CommonVars |->
                [size |-> symtab[s].size, align |-> Align(symtab[s])]],
  memory  <- IF pc = "count" THEN "unknown"
             ELSE IF chunk = 0 THEN "refused" ELSE "granted",
  place   <- [s \in CommonVars |-> my_addr[s]],
  stopped <- failure \notin {"none", "symbol"}

(* Every variable gets aligned memory of its own that never moves, and is  *)
(* refused only when it is malformed or when mmap refused the whole chunk  *)
(* (ELFObject.h:77-100 with ELFObject.hxx:408-453).                        *)
ImplementsStorage == Storage!AbsSpec
==============================================================================
