------------------------------- MODULE Relocate -------------------------------
(***************************************************************************)
(* ELFObject::relocate (include/impl/ELFObject.hxx) after the memory for   *)
(* variables has been set up: for every relocation section in turn, every  *)
(* entry binds its symbol to an address (ELFSymbol::getAddress, find_sym,  *)
(* and on ARM a stub of the section being patched) and patches one word of *)
(* the section; afterwards every section is protected and the caches are   *)
(* flushed.                                                                *)
(*                                                                         *)
(* What is abstracted:                                                     *)
(*   - a patched word is represented by the value S it was computed from;  *)
(*     its bits are left out, and so is the addend, except that of a       *)
(*     branch, which decides whether the branch reaches;                   *)
(*   - the place of a variable is VarAddr, which is what module            *)
(*     SHNCommonData shows the allocator to provide;                       *)
(*   - the entries of a section are a set, taken in any order: every       *)
(*     relocation table with these entries is covered.                     *)
(***************************************************************************)
EXTENDS ELFSymbol, FiniteSets, Sequences

CONSTANTS
  Machines,    \* machines an object may be for, of "ARM", "MIPS", and "X86"
               \* for both x86 relocators
  NumSyms,     \* entries of the symbol table
  Symtab,      \* the symbol table
  Entries,     \* relocation entries [sec, off, sym, type, addend] to choose
               \* from; addend is the offset that is in the word of a call
  MaxRelocs,   \* bound on the number of entries of an object
  Order,       \* the sections that are relocated, in file order
  SecSize,     \* sh_size of every section
  FindSym,     \* what find_sym answers for every symbol, 0 for NULL
  VarAddr,     \* where the allocator places the common data
  StubSize,    \* STUB_SIZE
  AddrMod,     \* addresses the processor has, 2^32
  CallReach,   \* words a branch reaches in either direction
  RegionSize   \* bytes an R_MIPS_26 jump can choose from

Syms == 0 .. NumSyms - 1

(* The symbols the object takes for external functions: isExternFunc looks *)
(* at the type only (ELFSymbol.h:134).                                     *)
ExternFuncs == {s \in Syms : Symtab[s].type = "NOTYPE"}

(* getExternFuncCount, the number of stubs every section is given.         *)
ExternFuncCount == Cardinality(ExternFuncs)

ASSUME RelocateAssumption ==
  /\ Machines \subseteq {"ARM", "X86", "MIPS"}
  /\ NumSyms \in Nat
  /\ Symtab \in [Syms -> Symbols]
  /\ Entries \subseteq
       [sec : Sections, off : Nat, sym : Syms, type : STRING, addend : Int]
  /\ Order \in Seq(Sections)
  /\ SecSize \in [Sections -> Nat]
  /\ FindSym \in [Syms -> Nat]
  /\ VarAddr \in [Syms -> Nat \ {0}]
  /\ StubSize \in Nat \ {0}
  /\ MaxRelocs \in Nat /\ CallReach \in Nat /\ RegionSize \in Nat \ {0}

(* The addresses are whole words; a branch reaches some of them, and has   *)
(* an offset in its word.                                                  *)
WholeWords ==
  /\ AddrMod \in Nat \ {0} /\ AddrMod % 4 = 0 /\ 4 * CallReach <= AddrMod
  /\ \A r \in Entries : -CallReach <= r.addend /\ r.addend < CallReach
ASSUME AddressAssumption == WholeWords

(* mmap gives the sections, each with its stub table behind its contents,  *)
(* memory of their own.                                                    *)
StubTable(sec) == SecBase[sec] + SecSize[sec]
ASSUME ChunksApart ==
  \A s, t \in Sections :
    s # t /\ SecBase[s] # 0 /\ SecBase[t] # 0 =>
      \/ StubTable(s) + ExternFuncCount * StubSize <= SecBase[t]
      \/ StubTable(t) + ExternFuncCount * StubSize <= SecBase[s]

VARIABLES
  machine,  \* e_machine of the object
  relocs,   \* the entries of the object
  pc,       \* "relocate", "protect", "loaded" or "aborted"
  failure,  \* why the program stopped
  cur,      \* index in Order of the section being patched
  my_addr,  \* cached address of every symbol, 0 if not known
  layout,   \* StubLayout of every section: next slot and slots left
  stubs,    \* the stubs that have been written: address -> target
  site,     \* patched entries: the S of the word
  sealed    \* sections that have been protected

vars == <<machine, relocs, pc, failure, cur, my_addr, layout, stubs, site, sealed>>

(* f with x mapped to v.                                                   *)
With(f, x, v) == [y \in DOMAIN f \cup {x} |-> IF y = x THEN v ELSE f[y]]

-----------------------------------------------------------------------------
(* A reader that reserves stubs for some of the functions only (for the    *)
(* sensitivity runs).                                                      *)
InitFewerStubs ==
  [sec \in Sections |-> [table |-> StubTable(sec), count |-> ExternFuncCount - 2]]

(* read() has given every section its stub table behind its contents.      *)
InitStubTables ==
  [sec \in Sections |-> [table |-> StubTable(sec), count |-> ExternFuncCount]]

(* The relocation types the switch of a machine knows, and one it does not.*)
Types(m) ==
  CASE m = "ARM"  -> {"ABS32", "CALL", "MOVW", "MOVT", "other"}
    [] m = "X86"  -> {"ABS", "PC", "other"}
    [] m = "MIPS" -> {"HI16", "LO16", "32", "26", "26+A", "other"}

Init ==
  /\ machine \in Machines
  /\ relocs \in SUBSET {r \in Entries : r.type \in Types(machine)}
  /\ Cardinality(relocs) <= MaxRelocs
  /\ \A q, r \in relocs : q.sec = r.sec /\ q.off = r.off => q = r
  /\ pc = "relocate" /\ failure = "none" /\ cur = 1
  /\ my_addr = [s \in Syms |-> 0]
  /\ layout = InitStubTables
  /\ stubs = <<>> /\ site = <<>>
  /\ sealed = {}

(* The entries of section k of Order that have not been patched.           *)
Left(k) == {r \in relocs : r.sec = Order[k] /\ r \notin DOMAIN site}

(* P, the address of the word an entry patches.                            *)
Place(r) == SecBase[r.sec] + r.off

(* sym->getAddress().                                                      *)
Address(s) ==
  IF my_addr[s] # 0 THEN my_addr[s]
  ELSE IF IsCommonData(Symtab[s]) THEN VarAddr[s]
  ELSE IF IsSectionData(Symtab[s]) THEN SectionAddress(Symtab[s])
  ELSE 0

Unbound(s) == Address(s) = 0

(* An address as an Inst_t, which is an int32_t.                           *)
Signed(a) == LET u == a % AddrMod IN IF 2 * u < AddrMod THEN u ELSE u - AddrMod

(* The branch of an entry reaches the address S: the range test of         *)
(* R_ARM_CALL, with arithmetic shifts.  The quarters of two addresses and  *)
(* an addend never add up to more than an int32_t.                         *)
Reaches(r, S) ==
  LET words == (Signed(S) \div 4) - (Signed(Place(r)) \div 4) + r.addend
  IN -CallReach <= words /\ words < CallReach

(* setAddress, and the caching of getAddress; and a loader that forgets.   *)
Forget(s, a) == UNCHANGED my_addr
Bind(s, a) == my_addr' = [my_addr EXCEPT ![s] = a]

Patch(r, S) == site' = With(site, r, S)

Stop(why) == pc' = "aborted" /\ failure' = why

(* The loop has come to the section of r, and has not patched r.           *)
Reached(r) ==
  /\ pc = "relocate" /\ cur <= Len(Order) /\ SecBase[Order[cur]] # 0
  /\ r \in Left(cur)

(* An entry r is due, of one of the given types, and getAddress does not   *)
(* fail an assertion.                                                      *)
Due(r, types) ==
  /\ Reached(r)
  /\ r.type \in types
  /\ ~(my_addr[r.sym] = 0 /\ HasNoAddress(Symtab[r.sym]))
  /\ UNCHANGED <<relocs, cur, sealed>>

Proceed == UNCHANGED <<pc, failure>>

NoStub == UNCHANGED <<layout, stubs>>

(* getAddress fails an assertion.                                          *)
NoAddress(r) ==
  /\ Reached(r)
  /\ my_addr[r.sym] = 0 /\ HasNoAddress(Symtab[r.sym])
  /\ Stop("symbol")
  /\ UNCHANGED <<relocs, cur, my_addr, layout, stubs, site, sealed>>

-----------------------------------------------------------------------------
(* relocateARM *)

(* R_ARM_ABS32 takes S as it is, also 0.                                   *)
ARM_ABS32(r) ==
  /\ machine = "ARM" /\ Due(r, {"ABS32"})
  /\ Bind(r.sym, Address(r.sym)) /\ Patch(r, Address(r.sym))
  /\ Proceed /\ NoStub

(* The branch can be encoded, or the program aborts ("Stub is still too    *)
(* far").                                                                  *)
PatchCall(r, S) ==
  \/ Reaches(r, S) /\ Patch(r, S) /\ Proceed
  \/ ~Reaches(r, S) /\ Stop("far") /\ UNCHANGED site

(* R_ARM_CALL of a function that has an address: one of the object, or an  *)
(* external one that an earlier entry has bound.                           *)
ARM_CALL(r) ==
  /\ machine = "ARM" /\ Due(r, {"CALL"})
  /\ Symtab[r.sym].type \in {"FUNC", "NOTYPE"} /\ ~Unbound(r.sym)
  /\ Bind(r.sym, Address(r.sym)) /\ PatchCall(r, Address(r.sym))
  /\ NoStub

(* The section whose stub table is used; and one that always takes the     *)
(* first section's (for the sensitivity runs).                             *)
FirstSection(r) == Order[1]
StubOwner(r) == r.sec

(* The slot after a stub; and a table that does not advance.               *)
SameSlot(stub) == stub
NextSlot(stub) == stub + StubSize

(* StubLayout::allocateStub on the section being patched, for the address  *)
(* find_sym gives.                                                         *)
AllocateStub(r) ==
  LET sec  == StubOwner(r)
      stub == layout[sec].table
  IN
  /\ layout[sec].count > 0
  /\ stubs' = With(stubs, stub, FindSym[r.sym])
  /\ layout' = [layout EXCEPT ![sec] =
                  [table |-> NextSlot(stub), count |-> @.count - 1]]
  /\ Bind(r.sym, stub)
  /\ PatchCall(r, stub)

(* R_ARM_CALL of an external function that has no address yet.  find_sym's *)
(* answer is not tested: a NULL target is given a stub as well.            *)
ARM_CALL_extern(r) ==
  /\ machine = "ARM" /\ Due(r, {"CALL"})
  /\ Symtab[r.sym].type = "NOTYPE" /\ Unbound(r.sym)
  /\ \/ AllocateStub(r)
     \/ /\ layout[StubOwner(r)].count = 0
        /\ Stop("stub")
        /\ UNCHANGED my_addr /\ NoStub /\ UNCHANGED site

(* R_ARM_CALL of anything else.                                            *)
ARM_CALL_wrong_type(r) ==
  /\ machine = "ARM" /\ Due(r, {"CALL"})
  /\ Symtab[r.sym].type \notin {"FUNC", "NOTYPE"}
  /\ Bind(r.sym, Address(r.sym))
  /\ Stop("type") /\ NoStub /\ UNCHANGED site

(* The address an entry binds an undefined symbol to: what find_sym says;  *)
(* and an entry that never asks it, or always does (for the sensitivity    *)
(* runs).                                                                  *)
NeverAsk(s)  == Address(s)
AlwaysAsk(s) == IF IsUndefined(Symtab[s]) THEN FindSym[s] ELSE Address(s)
Resolve(s) == IF Unbound(s) THEN FindSym[s] ELSE Address(s)

(* R_ARM_MOVW_ABS_NC and R_ARM_MOVT_ABS, the halves of an address.         *)
ARM_MOV(r) ==
  /\ machine = "ARM" /\ Due(r, {"MOVW", "MOVT"})
  /\ LET S == IF Symtab[r.sym].type = "NOTYPE" THEN Resolve(r.sym)
              ELSE Address(r.sym)
     IN Bind(r.sym, S) /\ Patch(r, S)
  /\ Proceed /\ NoStub

-----------------------------------------------------------------------------
(* relocateX86_32 and relocateX86_64: one rule for both types.             *)
X86_entry(r) ==
  /\ machine = "X86" /\ Due(r, {"ABS", "PC"})
  /\ Bind(r.sym, Resolve(r.sym)) /\ Patch(r, Resolve(r.sym))
  /\ Proceed /\ NoStub

(* relocateMIPS *)
MIPS_entry(r) ==
  /\ machine = "MIPS" /\ Due(r, {"HI16", "LO16", "32"})
  /\ Bind(r.sym, Resolve(r.sym)) /\ Patch(r, Resolve(r.sym))
  /\ Proceed /\ NoStub

(* R_MIPS_26 with an addend in the word is not supported.                  *)
MIPS_26_addend(r) ==
  /\ machine = "MIPS" /\ Due(r, {"26+A"})
  /\ Bind(r.sym, Resolve(r.sym))
  /\ Stop("addend") /\ NoStub /\ UNCHANGED site

(* R_MIPS_26: the word is patched, and then the assertion on the upper     *)
(* four bits, which has the comparison the wrong way round, decides.       *)
MIPS_26(r) ==
  /\ machine = "MIPS" /\ Due(r, {"26"})
  /\ Bind(r.sym, Resolve(r.sym)) /\ Patch(r, Resolve(r.sym))
  /\ IF ((Place(r) + 4) \div RegionSize) # (Resolve(r.sym) \div RegionSize)
     THEN Proceed ELSE Stop("region")
  /\ NoStub

(* A relocation type the machine's switch does not know.  The symbol has   *)
(* been bound before, except by ARM, where only getAddress has.            *)
UnknownType(r) ==
  /\ Due(r, {"other"})
  /\ Bind(r.sym, IF machine = "ARM" THEN Address(r.sym) ELSE Resolve(r.sym))
  /\ Stop("type") /\ NoStub /\ UNCHANGED site

Entry(r) ==
  \/ NoAddress(r) \/ UnknownType(r)
  \/ ARM_ABS32(r) \/ ARM_CALL(r) \/ ARM_CALL_extern(r)
  \/ ARM_CALL_wrong_type(r) \/ ARM_MOV(r)
  \/ X86_entry(r) \/ MIPS_entry(r) \/ MIPS_26(r) \/ MIPS_26_addend(r)

-----------------------------------------------------------------------------
(* Leaving a section with entries to go (for the sensitivity runs).        *)
NextSectionEarly ==
  /\ pc = "relocate" /\ cur <= Len(Order) /\ Cardinality(Left(cur)) <= 1
  /\ cur' = cur + 1
  /\ UNCHANGED <<relocs, pc, failure, my_addr, layout, stubs, site, sealed>>

(* The relocation section is done; the loop goes on with the next one.     *)
NextSection ==
  /\ pc = "relocate" /\ cur <= Len(Order) /\ SecBase[Order[cur]] # 0
  /\ Left(cur) = {}
  /\ cur' = cur + 1
  /\ UNCHANGED <<relocs, pc, failure, my_addr, layout, stubs, site, sealed>>

(* The section to be patched is not in memory: "Need be relocated section  *)
(* can't be NULL."                                                         *)
MissingSection ==
  /\ pc = "relocate" /\ cur <= Len(Order) /\ SecBase[Order[cur]] = 0
  /\ Stop("section")
  /\ UNCHANGED <<relocs, cur, my_addr, layout, stubs, site, sealed>>

BeginProtect ==
  /\ pc = "relocate" /\ cur > Len(Order)
  /\ pc' = "protect"
  /\ UNCHANGED <<relocs, failure, cur, my_addr, layout, stubs, site, sealed>>

(* A protect loop that does not advance (for the sensitivity runs).        *)
ProtectAgain(sec) ==
  /\ pc = "protect" /\ SecBase[sec] # 0 /\ sec \notin sealed
  /\ UNCHANGED vars

(* ELFSectionBits::protect of one section that is in memory: mprotect, and *)
(* the cache flush of what is executable.  Its result is not looked at.    *)
Protect(sec) ==
  /\ pc = "protect" /\ SecBase[sec] # 0 /\ sec \notin sealed
  /\ ShType[sec] \in {"PROGBITS", "NOBITS"}
  /\ sealed' = sealed \cup {sec}
  /\ UNCHANGED <<relocs, pc, failure, cur, my_addr, layout, stubs, site>>

Return ==
  /\ pc = "protect"
  /\ \A sec \in Sections :
       SecBase[sec] # 0 /\ ShType[sec] \in {"PROGBITS", "NOBITS"} => sec \in sealed
  /\ pc' = "loaded"
  /\ UNCHANGED <<relocs, failure, cur, my_addr, layout, stubs, site, sealed>>

Step ==
  \/ \E r \in Entries : Entry(r)
  \/ NextSection \/ MissingSection \/ BeginProtect \/ Return
  \/ \E sec \in Sections : Protect(sec)

Next == Step /\ UNCHANGED machine

(* relocate() is sequential code without a wait: it keeps taking steps.    *)
Spec == Init /\ [][Next]_vars /\ WF_vars(Next)

-----------------------------------------------------------------------------
AllEntries == UNION {{r \in relocs : r.sec = Order[k]} : k \in DOMAIN Order}

(* Every variable holds a value of its type; patched words belong to the   *)
(* object and stubs are what find_sym has answered.                        *)
TypeOK ==
  /\ relocs \subseteq Entries
  /\ pc \in {"relocate", "protect", "loaded", "aborted"}
  /\ failure \in {"none", "symbol", "section", "far", "stub", "type", "addend", "region"}
  /\ pc = "aborted" <=> failure # "none"
  /\ cur \in 1 .. Len(Order) + 1
  /\ my_addr \in [Syms -> Nat]
  /\ layout \in [Sections -> [table : Nat, count : Nat]]
  /\ DOMAIN site \subseteq relocs /\ \A r \in DOMAIN site : site[r] \in Nat
  /\ \A a \in DOMAIN stubs : a \in Nat /\ stubs[a] \in Nat
  /\ sealed \subseteq Sections

(* Every section has at least as many stubs left as there are external     *)
(* functions without an address.                                           *)
UnboundFuncs == {s \in ExternFuncs : my_addr[s] = 0}
StubsSuffice ==
  \A sec \in Sections : Cardinality(UnboundFuncs) <= layout[sec].count

(* The free stubs of a section fill the room behind its contents that      *)
(* read() has reserved, up to its end.                                     *)
StubsInside ==
  \A sec \in Sections :
    /\ StubTable(sec) <= layout[sec].table
    /\ layout[sec].table + layout[sec].count * StubSize
         = StubTable(sec) + ExternFuncCount * StubSize

(* Stubs suffice, and never leave the memory of their section              *)
(* (ELFSectionProgBits.hxx:40-59 with StubLayout.cpp:38-50).               *)
StubInv == TypeOK /\ StubsSuffice /\ StubsInside

(* The exit "unable to allocate stub." (ELFObject.hxx:193-197) is never    *)
(* taken, whatever the order of the entries: a function takes at most one  *)
(* stub of any section, since the stub becomes its address.                *)
NeverOutOfStubs == failure # "stub"

(* A call of an external function lands on the function: directly, or on   *)
(* a stub that still leads to it.                                          *)
Leads(a, target) == a = target \/ (a \in DOMAIN stubs /\ stubs[a] = target)
CallsLand ==
  \A r \in DOMAIN site :
    r.type = "CALL" /\ IsUndefined(Symtab[r.sym])
      => Leads(site[r], FindSym[r.sym])

(* A patched word holds the address the symbol still has: my_addr, once    *)
(* set, is never stale.                                                    *)
SitesCurrent ==
  \A r \in DOMAIN site : site[r] # 0 => my_addr[r.sym] = site[r]

(* All words that refer to a symbol, the two halves of a MOVW/MOVT pair    *)
(* among them, agree on its address, in spite of the stubs                 *)
(* (ELFObject.hxx:192-202 and 224-229); only a word that was left without  *)
(* an address differs.                                                     *)
SitesAgree ==
  \A q, r \in DOMAIN site :
    q.sym = r.sym /\ site[q] # 0 /\ site[r] # 0 => site[q] = site[r]

(* A word is left without an address only if find_sym does not know the    *)
(* symbol, or by R_ARM_ABS32, which never asks (ELFObject.hxx:152-156).    *)
Unresolved ==
  \A r \in DOMAIN site :
    site[r] = 0 => FindSym[r.sym] = 0 \/ r.type = "ABS32"

(* The stubs of the section an entry patches can be reached from it: all   *)
(* on the side of 2 GB the word is on, and near enough, with the addend.   *)
StubsEnd(sec) == StubTable(sec) + ExternFuncCount * StubSize
OwnStubsNear(r) ==
  /\ \E low \in {0, AddrMod \div 2} :
       /\ \A a \in {Place(r), StubTable(r.sec)} : low <= a
       /\ Place(r) < low + AddrMod \div 2 /\ StubsEnd(r.sec) <= low + AddrMod \div 2
  /\ \A a \in {StubTable(r.sec), StubsEnd(r.sec)} :
       (a \div 4) - (Place(r) \div 4) + r.addend \in -CallReach .. CallReach - 1

(* The abort "Stub is still too far" (ELFObject.hxx:211-214) happens to an *)
(* external function only if an earlier entry has bound it, to an address  *)
(* or to the stub of another section: the first reference to a function,   *)
(* when it is a call, never fails, except in a section whose own stubs     *)
(* are out of its reach, by its size, by the addend, or across 2 GB.       *)
FarOnlyIfBoundBefore ==
  failure = "far" =>
    \E r \in Left(cur) :
      /\ r.type = "CALL" /\ ~Reaches(r, my_addr[r.sym])
      /\ \/ ~IsUndefined(Symtab[r.sym])
         \/ \E q \in DOMAIN site : q.sym = r.sym
         \/ ~OwnStubsNear(r)

(* An R_MIPS_26 jump is given up only if its target is in another region:  *)
(* the assertion at ELFObject.hxx:395 says "Cannot relocate R_MIPS_26 due  *)
(* to differences in the upper four bits."                                 *)
RegionsDifferIfStopped ==
  [][\A r \in DOMAIN site' \ DOMAIN site :
       failure' = "region" =>
         (Place(r) + 4) \div RegionSize # site'[r] \div RegionSize]_vars

(* Sections are protected and flushed only after every entry of every      *)
(* section has been patched, and all of them are when relocate returns.    *)
SealedComplete ==
  sealed # {} \/ pc = "loaded" => AllEntries \subseteq DOMAIN site

(* The promise of SymbolBinding, seen in this state.                       *)
Binding == INSTANCE SymbolBinding WITH
  Addresses <- Nat,
  words     <- AllEntries,
  address   <- my_addr,
  content   <- site,
  state     <- CASE pc = "relocate" -> "open"
                 [] pc = "aborted"  -> "refused"
                 [] OTHER           -> "complete"

(* Relocation implements it: although getAddress, setAddress, find_sym and *)
(* the stubs of every section give addresses to a symbol in the order the  *)
(* entries come in, and a MOVW/MOVT or HI16/LO16 pair is patched in two    *)
(* steps, every word has the one address of its symbol, and no entry of a  *)
(* table is passed over (ELFObject.hxx:134-241, 455-496, ELFSymbol.hxx:    *)
(* 135-189).                                                               *)
ImplementsBinding == Binding!BindSpec

(* relocate() comes to an end.                                             *)
Terminates == <>(pc \in {"loaded", "aborted"})
===============================================================================
