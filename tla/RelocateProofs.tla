---------------------------- MODULE RelocateProofs ----------------------------
(***************************************************************************)
(* relocate() never runs out of stubs, and the words it patches agree on   *)
(* the addresses of symbols, for every symbol table, every set of          *)
(* relocation entries and every order of the entries.                      *)
(***************************************************************************)
EXTENDS Relocate, FiniteSetTheorems, TLAPS

(* Taking one stub from a table.                                           *)
LEMMA OneLess ==
  ASSUME NEW c \in Int, NEW z \in Int
  PROVE  (c - 1) * z = c * z - z
OBVIOUS

(* A symbol table is finite, and so are its external functions.            *)
LEMMA CountNat == IsFiniteSet(Syms) /\ ExternFuncCount \in Nat
<1>1. IsFiniteSet(0 .. NumSyms - 1)
  BY RelocateAssumption, FS_Interval
<1>2. ExternFuncs \in SUBSET Syms
  BY DEF ExternFuncs
<1> QED BY <1>1, <1>2, FS_Subset, FS_CardinalityType DEF Syms, ExternFuncCount

(* getAddress and find_sym answer addresses.                               *)
LEMMA AddressNat ==
  ASSUME my_addr \in [Syms -> Nat], NEW s \in Syms
  PROVE  Address(s) \in Nat /\ Resolve(s) \in Nat
<1>1. Symtab[s] \in Symbols
  BY RelocateAssumption
<1>2. IsSectionData(Symtab[s]) => SectionAddress(Symtab[s]) \in Nat
  BY <1>1, SectionsAssumption DEF IsSectionData, InSection, SectionAddress, Symbols
<1>3. Address(s) \in Nat
  BY <1>2, RelocateAssumption DEF Address
<1> QED BY <1>3, RelocateAssumption DEF Resolve

(* The functions without an address are finitely many.                     *)
LEMMA UnboundFinite ==
  IsFiniteSet(UnboundFuncs) /\ Cardinality(UnboundFuncs) \in Nat
<1>1. UnboundFuncs \in SUBSET Syms
  BY DEF UnboundFuncs, ExternFuncs
<1> QED BY <1>1, CountNat, FS_Subset, FS_CardinalityType

(* Binding symbols does not make more functions unbound.                   *)
LEMMA UnboundShrinks ==
  ASSUME my_addr \in [Syms -> Nat], my_addr' \in [Syms -> Nat],
         \A s \in Syms : my_addr[s] # 0 => my_addr'[s] # 0
  PROVE  Cardinality(UnboundFuncs') <= Cardinality(UnboundFuncs)
<1>1. UnboundFuncs' \subseteq UnboundFuncs
  BY DEF UnboundFuncs, ExternFuncs
<1> QED BY <1>1, UnboundFinite, FS_Subset

(* Binding an unbound function leaves one fewer.                           *)
LEMMA UnboundLoses ==
  ASSUME my_addr \in [Syms -> Nat], NEW s \in UnboundFuncs, NEW a \in Nat \ {0},
         my_addr' = [my_addr EXCEPT ![s] = a]
  PROVE  Cardinality(UnboundFuncs') = Cardinality(UnboundFuncs) - 1
<1>1. UnboundFuncs' = UnboundFuncs \ {s}
  BY DEF UnboundFuncs, ExternFuncs
<1> QED BY <1>1, UnboundFinite, FS_RemoveElement

-----------------------------------------------------------------------------
(* Every section starts with a stub for every external function.           *)
LEMMA InitStubInv == Init => StubInv
<1> SUFFICES ASSUME Init PROVE StubInv
  OBVIOUS
<1>1. TypeOK
  <2>1. layout \in [Sections -> [table : Nat, count : Nat]]
    BY CountNat, SectionsAssumption, RelocateAssumption
       DEF Init, InitStubTables, StubTable
  <2>2. cur \in 1 .. Len(Order) + 1
    BY RelocateAssumption DEF Init
  <2>3. DOMAIN site = {} /\ DOMAIN stubs = {}
    BY DEF Init
  <2> QED BY <2>1, <2>2, <2>3 DEF Init, TypeOK
<1>2. StubsSuffice
  <2>1. UnboundFuncs \subseteq ExternFuncs /\ ExternFuncs \in SUBSET Syms
    BY DEF UnboundFuncs, ExternFuncs
  <2>2. IsFiniteSet(ExternFuncs)
    BY <2>1, CountNat, FS_Subset
  <2>3. Cardinality(UnboundFuncs) <= Cardinality(ExternFuncs)
    BY <2>1, <2>2, FS_Subset
  <2> QED BY <2>3
     DEF Init, InitStubTables, StubsSuffice, ExternFuncCount
<1>3. StubsInside
  <2>1. \A sec \in Sections : StubTable(sec) \in Nat
    BY SectionsAssumption, RelocateAssumption DEF StubTable
  <2>2. \A sec \in Sections : /\ layout[sec].table = StubTable(sec)
                              /\ layout[sec].count = ExternFuncCount
    BY DEF Init, InitStubTables
  <2>3. \A n \in Nat : n <= n
    OBVIOUS
  <2> QED BY <2>1, <2>2, <2>3 DEF StubsInside
<1> QED BY <1>1, <1>2, <1>3 DEF StubInv

(* A step that binds one symbol without taking a stub.                     *)
LEMMA BindStep ==
  ASSUME StubInv, NEW r \in relocs,
         NEW a \in Nat, my_addr[r.sym] # 0 => a # 0,
         my_addr' = [my_addr EXCEPT ![r.sym] = a],
         UNCHANGED <<relocs, cur, sealed, layout, stubs>>,
         \/ UNCHANGED <<pc, failure>>
         \/ pc' = "aborted"
            /\ failure' \in {"symbol", "far", "stub", "type", "addend", "region"},
         UNCHANGED site \/ \E S \in Nat : site' = With(site, r, S)
  PROVE  StubInv'
<1>1. r.sym \in Syms /\ my_addr \in [Syms -> Nat]
  BY RelocateAssumption DEF StubInv, TypeOK
<1>2. my_addr' \in [Syms -> Nat] /\ \A s \in Syms : my_addr[s] # 0 => my_addr'[s] # 0
  BY <1>1
<1>3. DOMAIN site' \subseteq relocs /\ \A q \in DOMAIN site' : site'[q] \in Nat
  BY DEF With, StubInv, TypeOK
<1>4. TypeOK'
  BY <1>2, <1>3 DEF StubInv, TypeOK
<1>5. StubsSuffice'
  <2>1. Cardinality(UnboundFuncs') <= Cardinality(UnboundFuncs)
    BY <1>1, <1>2, UnboundShrinks
  <2>2. IsFiniteSet(UnboundFuncs') /\ Cardinality(UnboundFuncs') \in Nat
    <3>1. UnboundFuncs' \in SUBSET Syms
      BY DEF UnboundFuncs, ExternFuncs
    <3> QED BY <3>1, CountNat, FS_Subset, FS_CardinalityType
  <2>3. \A sec \in Sections : Cardinality(UnboundFuncs') <= layout[sec].count
    BY <2>1, <2>2, UnboundFinite DEF StubInv, StubsSuffice, TypeOK
  <2> QED BY <2>3 DEF StubsSuffice
<1> QED BY <1>4, <1>5 DEF StubInv, StubsInside, StubTable

(* A step that takes a stub for an unbound function.                       *)
LEMMA AllocateStubInv ==
  ASSUME StubInv, NEW r \in relocs, r.sym \in UnboundFuncs, r.sec \in Sections,
         SecBase[r.sec] # 0,
         AllocateStub(r), UNCHANGED <<relocs, cur, sealed>>
  PROVE  StubInv'
<1> DEFINE stub == layout[r.sec].table
           new  == [table |-> stub + StubSize, count |-> layout[r.sec].count - 1]
<1>0. StubTable(r.sec) \in Nat \ {0} /\ StubTable(r.sec) <= layout[r.sec].table
  <2>1. SecBase[r.sec] \in Nat \ {0} /\ SecSize[r.sec] \in Nat
    BY SectionsAssumption, RelocateAssumption
  <2>2. StubTable(r.sec) \in Nat \ {0}
    BY <2>1 DEF StubTable
  <2> QED BY <2>2 DEF StubInv, StubsInside
<1>1. /\ r.sym \in Syms /\ my_addr \in [Syms -> Nat]
      /\ layout \in [Sections -> [table : Nat, count : Nat]]
      /\ layout[r.sec].count > 0 /\ stub \in Nat \ {0}
      /\ layout' = [layout EXCEPT ![r.sec] = new]
      /\ my_addr' = [my_addr EXCEPT ![r.sym] = stub]
      /\ stubs' = With(stubs, stub, FindSym[r.sym])
      /\ PatchCall(r, stub)
  BY <1>0 DEF StubInv, TypeOK, AllocateStub, StubOwner, NextSlot, Bind, UnboundFuncs,
                 ExternFuncs
<1>2. new \in [table : Nat, count : Nat]
  BY <1>1, RelocateAssumption
<1>3. TypeOK'
  <2>1. my_addr' \in [Syms -> Nat] /\ layout' \in [Sections -> [table : Nat, count : Nat]]
    BY <1>1, <1>2
  <2>2. \A a \in DOMAIN stubs' : a \in Nat /\ stubs'[a] \in Nat
    BY <1>1, RelocateAssumption DEF With, StubInv, TypeOK
  <2>3. DOMAIN site' \subseteq relocs /\ \A q \in DOMAIN site' : site'[q] \in Nat
    BY <1>1 DEF With, StubInv, TypeOK, PatchCall, Patch
  <2>4. /\ pc' \in {"relocate", "protect", "loaded", "aborted"}
        /\ failure' \in {"none", "symbol", "section", "far", "stub", "type", "addend", "region"}
        /\ pc' = "aborted" <=> failure' # "none"
    BY <1>1 DEF StubInv, TypeOK, PatchCall, Proceed, Stop
  <2> QED BY <2>1, <2>2, <2>3, <2>4 DEF StubInv, TypeOK
<1>4. StubsSuffice'
  <2>1. Cardinality(UnboundFuncs') = Cardinality(UnboundFuncs) - 1
    BY <1>1, UnboundLoses
  <2>2. \A sec \in Sections : layout'[sec].count >= layout[sec].count - 1
    BY <1>1
  <2>3. \A sec \in Sections : layout[sec].count \in Nat /\ layout'[sec].count \in Int
    BY <1>1, <1>2
  <2>4. \A sec \in Sections : Cardinality(UnboundFuncs) <= layout[sec].count
    BY DEF StubInv, StubsSuffice
  <2>5. \A sec \in Sections : Cardinality(UnboundFuncs') <= layout'[sec].count
    BY <2>1, <2>2, <2>3, <2>4, UnboundFinite
  <2> QED BY <2>5 DEF StubsSuffice
<1>5. StubsInside'
  <2>1. \A sec \in Sections : StubTable(sec) \in Nat
    BY SectionsAssumption, RelocateAssumption DEF StubTable
  <2>2. layout'[r.sec].table >= layout[r.sec].table
    BY <1>1, RelocateAssumption
  <2>3. \A sec \in Sections : layout'[sec].table >= layout[sec].table
                              /\ layout[sec].table \in Nat /\ layout'[sec].table \in Nat
    BY <1>1, <1>2, <2>2
  <2>4. \A sec \in Sections : StubTable(sec) <= layout[sec].table
    BY DEF StubInv, StubsInside
  <2>5. \A sec \in Sections : StubTable(sec) <= layout'[sec].table
    BY <2>1, <2>3, <2>4
  <2>6. layout[r.sec].count \in Int /\ StubSize \in Int
    BY <1>1, RelocateAssumption
  <2>7. (layout[r.sec].count - 1) * StubSize = layout[r.sec].count * StubSize - StubSize
    BY <2>6, OneLess, Zenon
  <2>8. layout[r.sec].count * StubSize \in Int
    BY <1>1, RelocateAssumption
  <2>9. new.table + new.count * StubSize
          = layout[r.sec].table + layout[r.sec].count * StubSize
    BY <1>1, <2>7, <2>8, RelocateAssumption
  <2>10. \A sec \in Sections :
           layout'[sec].table + layout'[sec].count * StubSize
             = layout[sec].table + layout[sec].count * StubSize
    BY <1>1, <2>9
  <2>11. \A sec \in Sections :
           layout[sec].table + layout[sec].count * StubSize
             = StubTable(sec) + ExternFuncCount * StubSize
    BY DEF StubInv, StubsInside
  <2> HIDE DEF new
  <2>12. \A sec \in Sections :
           layout'[sec].table + layout'[sec].count * StubSize
             = StubTable(sec) + ExternFuncCount * StubSize
    BY <2>10, <2>11
  <2> QED BY <2>5, <2>12 DEF StubsInside, StubTable
<1> QED BY <1>3, <1>4, <1>5 DEF StubInv

(* Every entry keeps the invariant, and none finds the stub table empty.   *)
LEMMA EntryStep ==
  ASSUME StubInv, NEW r \in Entries, Entry(r)
  PROVE  StubInv' /\ failure' # "stub"
<1>1. /\ r \in relocs /\ r.sec \in Sections /\ r.sym \in Syms /\ SecBase[r.sec] # 0
      /\ UNCHANGED <<relocs, cur, sealed>> /\ failure = "none" /\ pc = "relocate"
  <2>1. Reached(r) /\ UNCHANGED <<relocs, cur, sealed>>
    BY DEF Entry, NoAddress, UnknownType, ARM_ABS32, ARM_CALL, ARM_CALL_extern,
           ARM_CALL_wrong_type, ARM_MOV, X86_entry, MIPS_entry, MIPS_26,
           MIPS_26_addend, Due
  <2>2. cur \in 1 .. Len(Order)
    BY <2>1, RelocateAssumption DEF Reached, StubInv, TypeOK
  <2> QED BY <2>1, <2>2, RelocateAssumption DEF Reached, Left, StubInv, TypeOK
<1>2. /\ my_addr \in [Syms -> Nat]
      /\ Address(r.sym) \in Nat /\ Resolve(r.sym) \in Nat
      /\ my_addr[r.sym] # 0 => Address(r.sym) # 0 /\ Resolve(r.sym) # 0
  <2>1. my_addr \in [Syms -> Nat]
    BY DEF StubInv, TypeOK
  <2> QED BY <1>1, <2>1, AddressNat DEF Address, Resolve, Unbound
<1> DEFINE Reasons == {"symbol", "far", "type", "addend", "region"}
<1>3. ASSUME NEW a \in {Address(r.sym), Resolve(r.sym)}, Bind(r.sym, a), NoStub,
             Proceed \/ \E why \in Reasons : Stop(why),
             UNCHANGED site \/ \E S \in Nat : Patch(r, S)
      PROVE  StubInv' /\ failure' # "stub"
  <2>1. /\ a \in Nat
        /\ my_addr[r.sym] # 0 => a # 0
        /\ my_addr' = [my_addr EXCEPT ![r.sym] = a]
        /\ UNCHANGED <<layout, stubs>>
        /\ UNCHANGED site \/ \E S \in Nat : site' = With(site, r, S)
    BY <1>2, <1>3 DEF Bind, NoStub, Patch
  <2>2. /\ UNCHANGED <<pc, failure>> \/ (pc' = "aborted" /\ failure' \in Reasons)
        /\ failure' # "stub"
    BY <1>1, <1>3 DEF Proceed, Stop
  <2> QED BY <1>1, <2>1, <2>2, BindStep
<1>4. CASE NoAddress(r)
  <2>1. my_addr' = [my_addr EXCEPT ![r.sym] = my_addr[r.sym]]
    BY <1>1, <1>2, <1>4 DEF NoAddress
  <2>2. my_addr[r.sym] \in Nat
    BY <1>1, <1>2
  <2>3. pc' = "aborted" /\ failure' = "symbol" /\ UNCHANGED <<layout, stubs, site>>
    BY <1>4 DEF NoAddress, Stop
  <2> QED BY <1>1, <2>1, <2>2, <2>3, BindStep
<1>5. CASE UnknownType(r)
  BY <1>3, <1>5 DEF UnknownType
<1>6. CASE ARM_ABS32(r)
  BY <1>2, <1>3, <1>6 DEF ARM_ABS32
<1>7. CASE ARM_CALL(r)
  <2>1. (Proceed \/ Stop("far")) /\ (UNCHANGED site \/ Patch(r, Address(r.sym)))
    BY <1>7 DEF ARM_CALL, PatchCall
  <2> QED BY <1>2, <1>3, <1>7, <2>1 DEF ARM_CALL
<1>8. CASE ARM_CALL_extern(r)
  <2>1. my_addr[r.sym] = 0 /\ r.sym \in UnboundFuncs
    BY <1>1, <1>2, <1>8 DEF ARM_CALL_extern, Unbound, UnboundFuncs, ExternFuncs
  <2>2. Cardinality(UnboundFuncs) > 0
    BY <2>1, UnboundFinite, FS_EmptySet
  <2>3. layout[r.sec].count # 0
    BY <1>1, <2>2, UnboundFinite DEF StubInv, StubsSuffice, TypeOK
  <2>4. AllocateStub(r)
    BY <1>8, <2>3 DEF ARM_CALL_extern, StubOwner
  <2>5. failure' # "stub"
    BY <1>1, <2>4 DEF AllocateStub, PatchCall, Proceed, Stop
  <2> QED BY <1>1, <2>1, <2>4, <2>5, AllocateStubInv
<1>9. CASE ARM_CALL_wrong_type(r)
  BY <1>3, <1>9 DEF ARM_CALL_wrong_type
<1>10. CASE ARM_MOV(r)
  <2>1. PICK a \in {Address(r.sym), Resolve(r.sym)} : Bind(r.sym, a) /\ Patch(r, a)
    BY <1>10 DEF ARM_MOV
  <2> QED BY <1>2, <1>3, <1>10, <2>1 DEF ARM_MOV
<1>11. CASE X86_entry(r)
  BY <1>2, <1>3, <1>11 DEF X86_entry
<1>12. CASE MIPS_entry(r)
  BY <1>2, <1>3, <1>12 DEF MIPS_entry
<1>13. CASE MIPS_26(r)
  BY <1>2, <1>3, <1>13 DEF MIPS_26
<1>14. CASE MIPS_26_addend(r)
  BY <1>2, <1>3, <1>14 DEF MIPS_26_addend
<1> QED BY <1>4, <1>5, <1>6, <1>7, <1>8, <1>9, <1>10, <1>11, <1>12, <1>13, <1>14
        DEF Entry

(* Every action keeps the invariant, and none finds the stub table empty.  *)
LEMMA NextStep ==
  ASSUME StubInv, NeverOutOfStubs, [Next]_vars
  PROVE  StubInv' /\ NeverOutOfStubs'
<1>1. CASE \E r \in Entries : Entry(r)
  BY <1>1, EntryStep DEF NeverOutOfStubs
<1>2. CASE NextSection
  <2>0. Len(Order) \in Nat /\ cur \in 1 .. Len(Order) + 1
    BY RelocateAssumption DEF StubInv, TypeOK
  <2>1. cur' \in 1 .. Len(Order) + 1
    BY <1>2, <2>0 DEF NextSection
  <2> QED BY <1>2, <2>1 DEF NextSection, StubInv, TypeOK, StubsSuffice, StubsInside,
       UnboundFuncs, NeverOutOfStubs
<1>3. CASE BeginProtect \/ Return \/ UNCHANGED vars
  BY <1>3 DEF BeginProtect, Return, vars, StubInv, TypeOK, StubsSuffice, StubsInside,
              UnboundFuncs, NeverOutOfStubs
<1>4. CASE \E sec \in Sections : Protect(sec)
  BY <1>4 DEF Protect, StubInv, TypeOK, StubsSuffice, StubsInside, UnboundFuncs,
              NeverOutOfStubs
<1>5. CASE MissingSection
  BY <1>5 DEF MissingSection, Stop, StubInv, TypeOK, StubsSuffice, StubsInside,
              UnboundFuncs, NeverOutOfStubs
<1> QED BY <1>1, <1>2, <1>3, <1>4, <1>5 DEF Next, Step

(* Stubs suffice in every reachable state.                                 *)
THEOREM StubInvariant == Spec => []StubInv
<1>1. Init => StubInv /\ NeverOutOfStubs
  BY InitStubInv DEF Init, NeverOutOfStubs
<1>2. StubInv /\ NeverOutOfStubs /\ [Next]_vars => StubInv' /\ NeverOutOfStubs'
  BY NextStep
<1> QED BY <1>1, <1>2, PTL DEF Spec

(* The loader never exits with "unable to allocate stub.".                 *)
THEOREM NeverOutOfStubsHolds == Spec => []NeverOutOfStubs
<1>1. Init => StubInv /\ NeverOutOfStubs
  BY InitStubInv DEF Init, NeverOutOfStubs
<1>2. StubInv /\ NeverOutOfStubs /\ [Next]_vars => StubInv' /\ NeverOutOfStubs'
  BY NextStep
<1> QED BY <1>1, <1>2, PTL DEF Spec
-----------------------------------------------------------------------------
(* An entry binds its symbol to the address it has, if it has one, and the *)
(* word it patches, if any, holds that address.                            *)
BindsOnce(r) ==
  /\ \E a \in Nat : /\ my_addr[r.sym] # 0 => a = my_addr[r.sym]
                    /\ my_addr' = [my_addr EXCEPT ![r.sym] = a]
                    /\ UNCHANGED site \/ site' = With(site, r, a)

(* Binding a symbol once keeps the words that refer to it current.         *)
LEMMA BindsOnceKeepsSites ==
  ASSUME StubInv, SitesCurrent, NEW r \in relocs, BindsOnce(r)
  PROVE  SitesCurrent'
<1>1. PICK a \in Nat : /\ my_addr[r.sym] # 0 => a = my_addr[r.sym]
                       /\ my_addr' = [my_addr EXCEPT ![r.sym] = a]
                       /\ UNCHANGED site \/ site' = With(site, r, a)
  BY DEF BindsOnce
<1>2. /\ my_addr \in [Syms -> Nat] /\ r.sym \in Syms
      /\ \A q \in DOMAIN site : q.sym \in Syms /\ site[q] \in Nat
  BY RelocateAssumption DEF StubInv, TypeOK
<1>3. \A q \in DOMAIN site : site[q] # 0 => my_addr'[q.sym] = site[q]
  BY <1>1, <1>2 DEF SitesCurrent
<1>4. CASE UNCHANGED site
  BY <1>3, <1>4 DEF SitesCurrent
<1>5. CASE site' = With(site, r, a)
  <2>1. \A q \in DOMAIN site' : q # r => q \in DOMAIN site /\ site'[q] = site[q]
    BY <1>5 DEF With
  <2>2. r \in DOMAIN site' => site'[r] = a /\ my_addr'[r.sym] = a
    BY <1>1, <1>2, <1>5 DEF With
  <2> QED BY <1>3, <2>1, <2>2 DEF SitesCurrent
<1> QED BY <1>1, <1>4, <1>5

(* Every entry binds its symbol once.                                      *)
LEMMA EntryBindsOnce ==
  ASSUME StubInv, NEW r \in Entries, Entry(r)
  PROVE  r \in relocs /\ BindsOnce(r)
<1>1. r \in relocs /\ r.sym \in Syms /\ r.sec \in Sections
  BY RelocateAssumption
     DEF Entry, NoAddress, UnknownType, ARM_ABS32, ARM_CALL, ARM_CALL_extern,
         ARM_CALL_wrong_type, ARM_MOV, X86_entry, MIPS_entry, MIPS_26,
         MIPS_26_addend, Due, Reached, Left, StubInv, TypeOK
<1>2. my_addr \in [Syms -> Nat] /\ layout \in [Sections -> [table : Nat, count : Nat]]
  BY DEF StubInv, TypeOK
<1>3. \A a \in {Address(r.sym), Resolve(r.sym)} :
        a \in Nat /\ (my_addr[r.sym] # 0 => a = my_addr[r.sym])
  BY <1>1, <1>2, AddressNat DEF Address, Resolve, Unbound
<1>4. ASSUME NEW a \in {Address(r.sym), Resolve(r.sym)}, Bind(r.sym, a),
             UNCHANGED site \/ Patch(r, a)
      PROVE  BindsOnce(r)
  BY <1>3, <1>4 DEF BindsOnce, Bind, Patch
<1>5. CASE NoAddress(r)
  <2>1. my_addr' = [my_addr EXCEPT ![r.sym] = my_addr[r.sym]] /\ UNCHANGED site
    BY <1>1, <1>2, <1>5 DEF NoAddress
  <2> QED BY <1>1, <1>2, <2>1 DEF BindsOnce
<1>6. CASE UnknownType(r)
  BY <1>1, <1>4, <1>6 DEF UnknownType
<1>7. CASE ARM_ABS32(r) \/ ARM_CALL(r) \/ ARM_CALL_wrong_type(r)
  BY <1>1, <1>4, <1>7 DEF ARM_ABS32, ARM_CALL, ARM_CALL_wrong_type, PatchCall
<1>8. CASE ARM_CALL_extern(r)
  <2>1. my_addr[r.sym] = 0
    BY <1>3, <1>8 DEF ARM_CALL_extern, Unbound
  <2>2. CASE AllocateStub(r)
    BY <1>1, <1>2, <2>1, <2>2
       DEF AllocateStub, StubOwner, PatchCall, Patch, Bind, BindsOnce
  <2>3. CASE UNCHANGED <<my_addr, site>>
    <3>1. my_addr' = [my_addr EXCEPT ![r.sym] = my_addr[r.sym]]
      BY <1>1, <1>2, <2>3
    <3> QED BY <1>1, <1>2, <2>3, <3>1 DEF BindsOnce
  <2> QED BY <1>8, <2>2, <2>3 DEF ARM_CALL_extern
<1>9. CASE ARM_MOV(r)
  BY <1>1, <1>4, <1>9 DEF ARM_MOV
<1>10. CASE X86_entry(r) \/ MIPS_entry(r) \/ MIPS_26(r) \/ MIPS_26_addend(r)
  BY <1>1, <1>4, <1>10 DEF X86_entry, MIPS_entry, MIPS_26, MIPS_26_addend
<1> QED BY <1>1, <1>5, <1>6, <1>7, <1>8, <1>9, <1>10 DEF Entry

(* A patched word never holds a stale address.                             *)
THEOREM SitesCurrentHolds == Spec => []SitesCurrent
<1>1. Init => SitesCurrent
  BY DEF Init, SitesCurrent
<1>2. StubInv /\ SitesCurrent /\ [Next]_vars => SitesCurrent'
  <2> SUFFICES ASSUME StubInv, SitesCurrent, [Next]_vars
               PROVE  SitesCurrent'
    OBVIOUS
  <2>1. CASE \E r \in Entries : Entry(r)
    BY <2>1, EntryBindsOnce, BindsOnceKeepsSites
  <2>2. CASE UNCHANGED <<site, my_addr>>
    BY <2>2 DEF SitesCurrent
  <2>3. (\E r \in Entries : Entry(r)) \/ UNCHANGED <<site, my_addr>>
    BY DEF Next, Step, NextSection, MissingSection, BeginProtect, Return, Protect, vars
  <2> QED BY <2>1, <2>2, <2>3
<1> QED BY <1>1, <1>2, StubInvariant, PTL DEF Spec

(* All words that refer to one symbol hold one address.                    *)
THEOREM SitesAgreeHolds == Spec => []SitesAgree
<1>1. SitesCurrent => SitesAgree
  BY DEF SitesCurrent, SitesAgree
<1> QED BY <1>1, SitesCurrentHolds, PTL

-----------------------------------------------------------------------------
(* What is behind the loop over the sections is patched completely, and    *)
(* protection starts behind the last section.                              *)
DoneInv ==
  /\ \A k \in 1 .. cur - 1 : Left(k) = {}
  /\ sealed # {} \/ pc \in {"protect", "loaded"} => cur > Len(Order)

(* An entry takes nothing back that has been patched.                      *)
LEMMA EntryKeepsDone ==
  ASSUME StubInv, DoneInv, NEW r \in Entries, Entry(r)
  PROVE  DoneInv'
<1>1. /\ pc = "relocate" /\ pc' \in {"relocate", "aborted"}
      /\ UNCHANGED <<relocs, cur, sealed>>
  BY DEF Entry, NoAddress, UnknownType, ARM_ABS32, ARM_CALL, ARM_CALL_extern,
         ARM_CALL_wrong_type, ARM_MOV, X86_entry, MIPS_entry, MIPS_26,
         MIPS_26_addend, Due, Reached, Stop, Proceed, AllocateStub, PatchCall
<1>2. DOMAIN site \subseteq DOMAIN site'
  BY EntryBindsOnce DEF BindsOnce, With
<1>3. \A k \in 1 .. cur - 1 : Left(k)' = {}
  BY <1>1, <1>2 DEF DoneInv, Left
<1> QED BY <1>1, <1>3 DEF DoneInv

(* The loops over sections keep it.                                        *)
LEMMA NextKeepsDone ==
  ASSUME StubInv, DoneInv, [Next]_vars
  PROVE  DoneInv'
<1>1. CASE \E r \in Entries : Entry(r)
  BY <1>1, EntryKeepsDone
<1>2. CASE NextSection
  <2>1. cur \in Nat /\ cur' = cur + 1 /\ Left(cur) = {}
    BY <1>2, RelocateAssumption DEF NextSection, StubInv, TypeOK
  <2>2. \A k \in 1 .. cur' - 1 : k \in 1 .. cur - 1 \/ k = cur
    BY <2>1
  <2>3. \A k \in 1 .. cur' - 1 : Left(k)' = {}
    BY <1>2, <2>1, <2>2 DEF DoneInv, Left, NextSection
  <2>4. sealed' = {} /\ pc' = "relocate"
    BY <1>2, RelocateAssumption DEF NextSection, DoneInv, StubInv, TypeOK
  <2> QED BY <2>3, <2>4 DEF DoneInv
<1>3. CASE MissingSection \/ BeginProtect \/ Return \/ UNCHANGED vars
  BY <1>3 DEF MissingSection, Stop, BeginProtect, Return, vars, DoneInv, Left
<1>4. CASE \E sec \in Sections : Protect(sec)
  BY <1>4 DEF Protect, DoneInv, Left
<1> QED BY <1>1, <1>2, <1>3, <1>4 DEF Next, Step

(* Nothing is protected or flushed before all of it has been patched.      *)
THEOREM SealedCompleteHolds == Spec => []SealedComplete
<1>1. Init => DoneInv
  BY DEF Init, DoneInv
<1>2. StubInv /\ DoneInv /\ [Next]_vars => DoneInv'
  BY NextKeepsDone
<1>3. StubInv /\ DoneInv => SealedComplete
  <2> SUFFICES ASSUME StubInv, DoneInv, sealed # {} \/ pc = "loaded",
                      NEW r \in AllEntries
               PROVE  r \in DOMAIN site
    BY DEF SealedComplete
  <2>1. PICK k \in DOMAIN Order : r \in relocs /\ r.sec = Order[k]
    BY DEF AllEntries
  <2>2. k \in 1 .. cur - 1
    <3>1. DOMAIN Order = 1 .. Len(Order) /\ Len(Order) \in Nat
      BY RelocateAssumption
    <3>2. cur > Len(Order) /\ cur \in 1 .. Len(Order) + 1
      BY DEF DoneInv, StubInv, TypeOK
    <3> QED BY <2>1, <3>1, <3>2
  <2> QED BY <2>1, <2>2 DEF DoneInv, Left
<1> QED BY <1>1, <1>2, <1>3, StubInvariant, PTL DEF Spec

-----------------------------------------------------------------------------
(* What an entry does to its word: it leaves it, or puts an address there  *)
(* that is NULL only if find_sym says so, or if find_sym is not asked.     *)
PatchesKnown(r) ==
  \/ UNCHANGED site
  \/ \E a \in Nat : /\ site' = With(site, r, a)
                    /\ a = 0 => FindSym[r.sym] = 0 \/ r.type = "ABS32"

(* A symbol the object defines has an address, or getAddress stops.        *)
LEMMA DefinedHasAddress ==
  ASSUME NEW s \in Syms, ~IsUndefined(Symtab[s]),
         my_addr \in [Syms -> Nat], my_addr[s] # 0 \/ ~HasNoAddress(Symtab[s])
  PROVE  Address(s) # 0
<1>1. Symtab[s] \in Symbols
  BY RelocateAssumption
<1>2. CASE my_addr[s] # 0
  BY <1>2 DEF Address
<1>3. CASE my_addr[s] = 0 /\ IsCommonData(Symtab[s])
  BY <1>3, RelocateAssumption DEF Address
<1>4. CASE my_addr[s] = 0 /\ ~IsCommonData(Symtab[s]) /\ ~HasNoAddress(Symtab[s])
  <2>1. IsSectionData(Symtab[s]) /\ SecBase[Symtab[s].shndx] # 0
    BY <1>4 DEF HasNoAddress
  <2>2. Symtab[s].shndx \in Sections /\ Symtab[s].value \in Nat
    BY <1>1, <2>1 DEF IsSectionData, InSection, Symbols
  <2>3. SectionAddress(Symtab[s]) # 0
    BY <2>1, <2>2, SectionsAssumption DEF SectionAddress
  <2> QED BY <1>4, <2>1, <2>3 DEF Address
<1> QED BY <1>2, <1>3, <1>4

LEMMA EntryPatchesKnown ==
  ASSUME StubInv, NEW r \in Entries, Entry(r)
  PROVE  PatchesKnown(r)
<1>1. /\ r.sym \in Syms /\ r.sec \in Sections
      /\ my_addr \in [Syms -> Nat]
      /\ layout \in [Sections -> [table : Nat, count : Nat]]
  BY RelocateAssumption DEF StubInv, TypeOK
<1>2. Address(r.sym) \in Nat /\ Resolve(r.sym) \in Nat
  BY <1>1, AddressNat
<1>3. Resolve(r.sym) = 0 => FindSym[r.sym] = 0
  BY DEF Resolve, Unbound
<1>4. CASE NoAddress(r) \/ UnknownType(r) \/ ARM_CALL_wrong_type(r) \/ MIPS_26_addend(r)
  BY <1>4 DEF NoAddress, UnknownType, ARM_CALL_wrong_type, MIPS_26_addend, PatchesKnown
<1>5. CASE ARM_ABS32(r)
  BY <1>2, <1>5 DEF ARM_ABS32, Due, Patch, PatchesKnown
<1>6. CASE ARM_CALL(r)
  BY <1>2, <1>6 DEF ARM_CALL, PatchCall, Patch, Unbound, PatchesKnown
<1>7. CASE ARM_CALL_extern(r)
  <2>1. CASE AllocateStub(r)
    <3>1. r.sec \in Sections /\ SecBase[r.sec] # 0
      <4>1. Reached(r)
        BY <1>7 DEF ARM_CALL_extern, Due
      <4> QED BY <1>1, <4>1 DEF Reached, Left
    <3>2. StubTable(r.sec) \in Nat \ {0} /\ StubTable(r.sec) <= layout[r.sec].table
      BY <3>1, SectionsAssumption, RelocateAssumption DEF StubTable, StubInv, StubsInside
    <3>3. layout[r.sec].table \in Nat \ {0}
      BY <1>1, <3>2
    <3> QED BY <2>1, <3>3 DEF AllocateStub, StubOwner, PatchCall, Patch, PatchesKnown
  <2>2. CASE UNCHANGED site
    BY <2>2 DEF PatchesKnown
  <2> QED BY <1>7, <2>1, <2>2 DEF ARM_CALL_extern
<1>8. CASE ARM_MOV(r)
  <2>1. CASE Symtab[r.sym].type = "NOTYPE"
    BY <1>2, <1>3, <1>8, <2>1 DEF ARM_MOV, Patch, PatchesKnown
  <2>2. CASE Symtab[r.sym].type # "NOTYPE"
    <3>1. Address(r.sym) # 0
      BY <1>1, <1>8, <2>2, DefinedHasAddress DEF ARM_MOV, Due, IsUndefined
    <3> QED BY <1>2, <1>8, <2>2, <3>1 DEF ARM_MOV, Patch, PatchesKnown
  <2> QED BY <2>1, <2>2
<1>9. CASE X86_entry(r) \/ MIPS_entry(r) \/ MIPS_26(r)
  BY <1>2, <1>3, <1>9 DEF X86_entry, MIPS_entry, MIPS_26, Patch, PatchesKnown
<1> QED BY <1>4, <1>5, <1>6, <1>7, <1>8, <1>9 DEF Entry

(* Only words of unknown functions, and pointers that never ask, are NULL. *)
THEOREM UnresolvedHolds == Spec => []Unresolved
<1>1. Init => Unresolved
  BY DEF Init, Unresolved
<1>2. StubInv /\ Unresolved /\ [Next]_vars => Unresolved'
  <2> SUFFICES ASSUME StubInv, Unresolved, [Next]_vars PROVE Unresolved'
    OBVIOUS
  <2>1. ASSUME NEW r \in Entries, PatchesKnown(r) PROVE Unresolved'
    BY <2>1 DEF PatchesKnown, Unresolved, With
  <2>2. (\E r \in Entries : Entry(r)) \/ UNCHANGED site
    BY DEF Next, Step, NextSection, MissingSection, BeginProtect, Return, Protect, vars
  <2> QED BY <2>1, <2>2, EntryPatchesKnown DEF Unresolved
<1> QED BY <1>1, <1>2, StubInvariant, PTL DEF Spec

-----------------------------------------------------------------------------
(* Stubs lie in the used part of the table of a section that is in memory; *)
(* an undefined symbol with an address leads to what find_sym answers.     *)
StubsBehind(sec, a) ==
  SecBase[sec] # 0 /\ StubTable(sec) <= a /\ a < layout[sec].table
LandInv ==
  /\ \A a \in DOMAIN stubs : a \in Nat /\ \E sec \in Sections : StubsBehind(sec, a)
  /\ \A s \in Syms : IsUndefined(Symtab[s]) /\ my_addr[s] # 0
                        => Leads(my_addr[s], FindSym[s])

LEMMA Product ==
  ASSUME NEW c \in Nat, NEW z \in Nat \ {0}
  PROVE  c * z \in Nat /\ (c > 0 => c * z > 0)
OBVIOUS

(* The next slot of a section has not been written: the tables of two      *)
(* sections do not meet.                                                   *)
LEMMA SlotIsFree ==
  ASSUME StubInv, LandInv, NEW sec \in Sections, SecBase[sec] # 0,
         layout[sec].count > 0
  PROVE  layout[sec].table \in Nat /\ layout[sec].table \notin DOMAIN stubs
<1> DEFINE end(t) == StubTable(t) + ExternFuncCount * StubSize
<1>1. \A t \in Sections :
        /\ layout[t].table \in Nat /\ layout[t].count \in Nat
        /\ layout[t].count * StubSize \in Nat
        /\ layout[t].count > 0 => layout[t].count * StubSize > 0
        /\ layout[t].table + layout[t].count * StubSize = end(t)
        /\ StubTable(t) <= layout[t].table
        /\ SecBase[t] \in Nat /\ SecBase[t] <= StubTable(t) /\ StubTable(t) \in Nat
  <2>1. \A t \in Sections : layout[t].table \in Nat /\ layout[t].count \in Nat
    BY DEF StubInv, TypeOK
  <2>2. \A t \in Sections :
          /\ layout[t].count * StubSize \in Nat
          /\ layout[t].count > 0 => layout[t].count * StubSize > 0
    BY <2>1, Product, RelocateAssumption
  <2>3. \A t \in Sections :
        /\ layout[t].table + layout[t].count * StubSize = end(t)
        /\ StubTable(t) <= layout[t].table
    BY DEF StubInv, StubsInside
  <2>4. \A t \in Sections :
          SecBase[t] \in Nat /\ SecBase[t] <= StubTable(t) /\ StubTable(t) \in Nat
    BY SectionsAssumption, RelocateAssumption DEF StubTable
  <2> QED BY <2>1, <2>2, <2>3, <2>4
<1>2. SUFFICES ASSUME NEW a \in DOMAIN stubs, a = layout[sec].table PROVE FALSE
  BY <1>1
<1>3. PICK t \in Sections : StubsBehind(t, a)
  BY DEF LandInv
<1>4. CASE t = sec
  BY <1>1, <1>2, <1>3, <1>4 DEF StubsBehind
<1>5. CASE t # sec
  <2>1. end(sec) <= SecBase[t] \/ end(t) <= SecBase[sec]
    BY <1>3, <1>5, ChunksApart DEF StubsBehind
  <2>2. a < end(sec) /\ SecBase[sec] <= a
    <3> HIDE DEF end
    <3> QED BY <1>1, <1>2
  <2>3. a < end(t) /\ SecBase[t] <= a
    <3>1. StubTable(t) <= a /\ a < layout[t].table
      BY <1>3 DEF StubsBehind
    <3> HIDE DEF end
    <3> QED BY <1>1, <1>2, <3>1
  <2>4. end(sec) \in Nat /\ end(t) \in Nat
    <3>1. layout[sec].table + layout[sec].count * StubSize \in Nat
      BY <1>1
    <3>2. layout[t].table + layout[t].count * StubSize \in Nat
      BY <1>1
    <3> HIDE DEF end
    <3> QED BY <1>1, <3>1, <3>2
  <2> HIDE DEF end
  <2> QED BY <1>1, <1>2, <2>1, <2>2, <2>3, <2>4
<1> QED BY <1>4, <1>5

(* An entry that takes no stub keeps an undefined symbol leading to what   *)
(* find_sym answers.                                                       *)
LEMMA BindLands ==
  ASSUME StubInv, LandInv, NEW r \in Entries, UNCHANGED <<stubs, layout>>,
         NEW a \in Nat, my_addr' = [my_addr EXCEPT ![r.sym] = a],
         a \in {my_addr[r.sym], Address(r.sym), Resolve(r.sym)}
  PROVE  LandInv'
<1>1. my_addr \in [Syms -> Nat] /\ r.sym \in Syms
  BY RelocateAssumption DEF StubInv, TypeOK
<1>2. \A b \in DOMAIN stubs' : b \in Nat /\ \E sec \in Sections : StubsBehind(sec, b)'
  BY DEF LandInv, StubsBehind
<1>3. ASSUME NEW s \in Syms, IsUndefined(Symtab[s]), my_addr'[s] # 0
      PROVE  Leads(my_addr[s], FindSym[s])'
  <2>1. CASE s # r.sym \/ a = my_addr[r.sym]
    BY <1>1, <1>3, <2>1 DEF LandInv, Leads
  <2>2. CASE s = r.sym /\ a # my_addr[r.sym]
    <3>1. my_addr'[s] = a /\ a # 0
      BY <1>1, <1>3, <2>2
    <3>2. ~IsCommonData(Symtab[s]) /\ ~IsSectionData(Symtab[s])
      BY <1>3, SectionsAssumption
         DEF IsUndefined, IsCommonData, IsSectionData, InSection, Reserved
    <3>3. a = FindSym[s]
      BY <2>2, <3>1, <3>2 DEF Address, Resolve, Unbound
    <3> QED BY <3>1, <3>3 DEF Leads
  <2> QED BY <2>1, <2>2
<1> QED BY <1>2, <1>3 DEF LandInv

(* So does a stub, and it is not written over an older one.                *)
LEMMA StubLands ==
  ASSUME StubInv, LandInv, NEW r \in Entries, SecBase[r.sec] # 0, AllocateStub(r)
  PROVE  LandInv'
<1>1. /\ my_addr \in [Syms -> Nat] /\ r.sym \in Syms /\ r.sec \in Sections
      /\ layout \in [Sections -> [table : Nat, count : Nat]]
  BY RelocateAssumption DEF StubInv, TypeOK
<1>0. PICK stub : stub = layout[r.sec].table
  OBVIOUS
<1>2. /\ layout[r.sec].count > 0
      /\ stubs' = With(stubs, stub, FindSym[r.sym])
      /\ layout' = [layout EXCEPT ![r.sec] =
                      [table |-> stub + StubSize, count |-> layout[r.sec].count - 1]]
      /\ my_addr' = [my_addr EXCEPT ![r.sym] = stub]
  BY <1>0, <1>1 DEF AllocateStub, StubOwner, NextSlot, Bind
<1>3. stub \in Nat /\ stub \notin DOMAIN stubs /\ StubTable(r.sec) <= stub
  BY <1>0, <1>1, <1>2, SlotIsFree DEF StubInv, StubsInside
<1>4. \A sec \in Sections : layout[sec].table \in Nat /\ layout'[sec].table \in Nat
                            /\ layout[sec].table <= layout'[sec].table
  <2>1. layout[r.sec].table <= stub + StubSize /\ stub + StubSize \in Nat
    BY <1>0, <1>3, RelocateAssumption
  <2> QED BY <1>1, <1>2, <2>1
<1>5. \A b \in DOMAIN stubs' : b \in Nat /\ \E sec \in Sections : StubsBehind(sec, b)'
  <2>1. DOMAIN stubs' = DOMAIN stubs \cup {stub}
    BY <1>2 DEF With
  <2>2. ASSUME NEW b \in DOMAIN stubs
        PROVE  b \in Nat /\ \E sec \in Sections : StubsBehind(sec, b)'
    <3>1. PICK sec \in Sections : StubsBehind(sec, b) /\ b \in Nat
      BY DEF LandInv
    <3>2. StubsBehind(sec, b)'
      BY <1>4, <3>1 DEF StubsBehind, StubTable
    <3> QED BY <3>1, <3>2
  <2>3. StubsBehind(r.sec, stub)'
    <3>1. layout'[r.sec].table = stub + StubSize
      BY <1>1, <1>2
    <3>2. stub < stub + StubSize
      BY <1>3, RelocateAssumption
    <3> QED BY <1>3, <3>1, <3>2 DEF StubsBehind, StubTable
  <2> QED BY <1>1, <1>3, <2>1, <2>2, <2>3
<1>6. ASSUME NEW s \in Syms, IsUndefined(Symtab[s]), my_addr'[s] # 0
      PROVE  Leads(my_addr[s], FindSym[s])'
  <2>1. CASE s = r.sym
    BY <1>1, <1>2, <2>1 DEF Leads, With
  <2>2. CASE s # r.sym
    BY <1>1, <1>2, <1>3, <1>6, <2>2 DEF LandInv, Leads, With
  <2> QED BY <2>1, <2>2
<1> QED BY <1>5, <1>6 DEF LandInv

LEMMA EntryLands ==
  ASSUME StubInv, LandInv, NEW r \in Entries, Entry(r)
  PROVE  LandInv'
<1>1. /\ my_addr \in [Syms -> Nat] /\ r.sym \in Syms /\ my_addr[r.sym] \in Nat
      /\ Address(r.sym) \in Nat /\ Resolve(r.sym) \in Nat
  BY AddressNat, RelocateAssumption DEF StubInv, TypeOK
<1>2. ASSUME NEW a \in {Address(r.sym), Resolve(r.sym)}, Bind(r.sym, a), NoStub
      PROVE  LandInv'
  BY <1>1, <1>2, BindLands DEF Bind, NoStub
<1>3. ASSUME UNCHANGED my_addr, UNCHANGED <<stubs, layout>>
      PROVE  LandInv'
  BY <1>3 DEF LandInv, StubsBehind, Leads
<1>4. CASE NoAddress(r)
  BY <1>3, <1>4 DEF NoAddress
<1>5. CASE ARM_CALL_extern(r)
  <2>1. SecBase[r.sec] # 0
    BY <1>5 DEF ARM_CALL_extern, Due, Reached, Left
  <2> QED BY <1>3, <1>5, <2>1, StubLands DEF ARM_CALL_extern, NoStub
<1>6. CASE UnknownType(r) \/ ARM_ABS32(r) \/ ARM_CALL(r) \/ ARM_CALL_wrong_type(r)
  BY <1>2, <1>6 DEF UnknownType, ARM_ABS32, ARM_CALL, ARM_CALL_wrong_type
<1>7. CASE ARM_MOV(r)
  BY <1>2, <1>7 DEF ARM_MOV
<1>8. CASE X86_entry(r) \/ MIPS_entry(r) \/ MIPS_26(r) \/ MIPS_26_addend(r)
  BY <1>2, <1>8 DEF X86_entry, MIPS_entry, MIPS_26, MIPS_26_addend
<1> QED BY <1>4, <1>5, <1>6, <1>7, <1>8 DEF Entry

(* A call of an external function lands on it, whatever stubs have been    *)
(* taken since.                                                            *)
THEOREM CallsLandHolds == Spec => []CallsLand
<1>1. Init => LandInv
  BY DEF Init, LandInv
<1>2. StubInv /\ LandInv /\ [Next]_vars => LandInv'
  <2> SUFFICES ASSUME StubInv, LandInv, [Next]_vars PROVE LandInv'
    OBVIOUS
  <2>1. (\E r \in Entries : Entry(r)) \/ UNCHANGED <<my_addr, stubs, layout>>
    BY DEF Next, Step, NextSection, MissingSection, BeginProtect, Return, Protect, vars
  <2>2. CASE UNCHANGED <<my_addr, stubs, layout>>
    BY <2>2 DEF LandInv, StubsBehind, Leads
  <2> QED BY <2>1, <2>2, EntryLands
<1>3. StubInv /\ LandInv /\ SitesCurrent /\ Unresolved => CallsLand
  <2> SUFFICES ASSUME StubInv, LandInv, SitesCurrent, Unresolved,
                      NEW r \in DOMAIN site, r.type = "CALL", IsUndefined(Symtab[r.sym])
               PROVE  Leads(site[r], FindSym[r.sym])
    BY DEF CallsLand
  <2>1. r.sym \in Syms
    BY RelocateAssumption DEF StubInv, TypeOK
  <2>2. CASE site[r] # 0
    BY <2>1, <2>2 DEF SitesCurrent, LandInv
  <2>3. CASE site[r] = 0
    BY <2>3 DEF Unresolved, Leads
  <2> QED BY <2>2, <2>3
<1> QED BY <1>1, <1>2, <1>3, StubInvariant, SitesCurrentHolds, UnresolvedHolds, PTL DEF Spec

-----------------------------------------------------------------------------
(* An address below the end of the address space is itself.                *)
LEMMA SmallRest == ASSUME NEW m \in Nat \ {0}, NEW a \in 0 .. m - 1 PROVE a % m = a
OBVIOUS

(* Addresses on one side of 2 GB are as far apart as Inst_t says.          *)
LEMMA SignedOnOneSide ==
  ASSUME NEW m \in Nat \ {0}, AddrMod = 4 * m, NEW low \in {0, 2 * m},
         NEW a \in Nat, low <= a, a < low + 2 * m
  PROVE  Signed(a) = IF low = 0 THEN a ELSE a - 4 * m
<1>1. a \in 0 .. AddrMod - 1 /\ AddrMod \in Nat \ {0}
  OBVIOUS
<1>2. a % AddrMod = a
  BY <1>1, SmallRest
<1> QED BY <1>1, <1>2 DEF Signed

LEMMA QuartersShift ==
  ASSUME NEW m \in Nat, NEW a \in Nat, NEW p \in Nat
  PROVE  ((a - 4 * m) \div 4) - ((p - 4 * m) \div 4) = (a \div 4) - (p \div 4)
OBVIOUS

LEMMA QuartersOrdered ==
  ASSUME NEW a \in Nat, NEW b \in Nat, a <= b
  PROVE  a \div 4 \in Nat /\ b \div 4 \in Nat /\ a \div 4 <= b \div 4
OBVIOUS

(* A new stub is in reach of the call it is made for, when the table is.   *)
LEMMA NewStubReached ==
  ASSUME StubInv, NEW r \in Entries, layout[r.sec].count > 0, OwnStubsNear(r)
  PROVE  Reaches(r, layout[r.sec].table)
<1>1. /\ r.sec \in Sections /\ r.off \in Nat /\ r.addend \in Int
      /\ SecBase[r.sec] \in Nat /\ SecSize[r.sec] \in Nat /\ CallReach \in Nat
      /\ AddrMod \in Nat \ {0} /\ AddrMod % 4 = 0
  BY RelocateAssumption, SectionsAssumption, AddressAssumption DEF WholeWords
<1>2. PICK t, u, e, p : /\ t = layout[r.sec].table /\ u = StubTable(r.sec)
                        /\ e = StubsEnd(r.sec) /\ p = Place(r)
  OBVIOUS
<1>3. u \in Nat /\ p \in Nat /\ t \in Nat /\ e \in Nat /\ u <= t /\ t < e
  <2>1. PICK count, rest, room : /\ count = layout[r.sec].count
                                 /\ rest = count * StubSize
                                 /\ room = ExternFuncCount * StubSize
    OBVIOUS
  <2>2. t \in Nat /\ count \in Nat /\ count > 0
    BY <1>1, <1>2, <2>1 DEF StubInv, TypeOK
  <2>3. rest \in Nat /\ rest > 0 /\ room \in Nat
    BY <2>1, <2>2, Product, CountNat, RelocateAssumption
  <2>4. u <= t /\ t + rest = u + room /\ e = u + room
    BY <1>1, <1>2, <2>1 DEF StubInv, StubsInside, StubsEnd
  <2> QED BY <1>1, <1>2, <2>2, <2>3, <2>4 DEF StubTable, Place
<1>4. PICK m \in Nat \ {0} : AddrMod = 4 * m /\ AddrMod \div 2 = 2 * m
  <2>1. AddrMod \div 4 \in Nat \ {0} /\ AddrMod = 4 * (AddrMod \div 4)
        /\ AddrMod \div 2 = 2 * (AddrMod \div 4)
    BY <1>1
  <2> QED BY <2>1
<1>5. PICK low \in {0, 2 * m} : low <= p /\ low <= u /\ p < low + 2 * m /\ e <= low + 2 * m
  BY <1>2, <1>4 DEF OwnStubsNear
<1>6. low \in Nat /\ low <= t /\ t < low + 2 * m
  BY <1>3, <1>5
<1>7. /\ Signed(t) = IF low = 0 THEN t ELSE t - 4 * m
      /\ Signed(p) = IF low = 0 THEN p ELSE p - 4 * m
  BY <1>3, <1>4, <1>5, <1>6, SignedOnOneSide
<1>8. (Signed(t) \div 4) - (Signed(p) \div 4) = (t \div 4) - (p \div 4)
  BY <1>3, <1>7, QuartersShift
<1>9. PICK tw, uw, ew, pw : /\ tw = t \div 4 /\ uw = u \div 4
                            /\ ew = e \div 4 /\ pw = p \div 4
  OBVIOUS
<1>10. tw \in Nat /\ uw \in Nat /\ ew \in Nat /\ pw \in Nat /\ uw <= tw /\ tw <= ew
  BY <1>3, <1>9, QuartersOrdered
<1>11. /\ uw - pw + r.addend \in -CallReach .. CallReach - 1
       /\ ew - pw + r.addend \in -CallReach .. CallReach - 1
  BY <1>2, <1>9 DEF OwnStubsNear
<1>12. -CallReach <= tw - pw + r.addend /\ tw - pw + r.addend < CallReach
  BY <1>1, <1>10, <1>11
<1> QED BY <1>2, <1>8, <1>9, <1>12 DEF Reaches

(* An external function with an address has it from a patched entry.       *)
FarInv ==
  /\ pc # "aborted" =>
       \A s \in Syms : IsUndefined(Symtab[s]) /\ my_addr[s] # 0
                        => \E q \in DOMAIN site : q.sym = s
  /\ FarOnlyIfBoundBefore

LEMMA EntryFar ==
  ASSUME StubInv, FarInv, NEW r \in Entries, Entry(r)
  PROVE  FarInv'
<1>1. /\ r \in Left(cur) /\ UNCHANGED <<relocs, cur>> /\ pc = "relocate"
      /\ failure = "none" /\ r.sym \in Syms /\ r.sec \in Sections
      /\ my_addr \in [Syms -> Nat] /\ r \notin DOMAIN site
  BY RelocateAssumption
     DEF Entry, NoAddress, UnknownType, ARM_ABS32, ARM_CALL, ARM_CALL_extern,
         ARM_CALL_wrong_type, ARM_MOV, X86_entry, MIPS_entry, MIPS_26,
         MIPS_26_addend, Due, Reached, Left, StubInv, TypeOK
<1>2. ASSUME Proceed, NEW a, Bind(r.sym, a), NEW S, Patch(r, S)
      PROVE  FarInv'
  <2>1. /\ DOMAIN site' = DOMAIN site \cup {r}
        /\ \A s \in Syms : s # r.sym => my_addr'[s] = my_addr[s]
        /\ failure' = "none"
    BY <1>1, <1>2 DEF Bind, Patch, With, Proceed
  <2> QED BY <1>1, <2>1 DEF FarInv, FarOnlyIfBoundBefore
<1>3. ASSUME pc' = "aborted", failure' # "far" PROVE FarInv'
  BY <1>3 DEF FarInv, FarOnlyIfBoundBefore
<1>4. CASE NoAddress(r) \/ UnknownType(r) \/ ARM_CALL_wrong_type(r) \/ MIPS_26_addend(r)
  BY <1>3, <1>4 DEF NoAddress, UnknownType, ARM_CALL_wrong_type, MIPS_26_addend, Stop
<1>5. CASE ARM_ABS32(r) \/ ARM_MOV(r) \/ X86_entry(r) \/ MIPS_entry(r)
  BY <1>2, <1>5 DEF ARM_ABS32, ARM_MOV, X86_entry, MIPS_entry
<1>6. CASE MIPS_26(r)
  BY <1>2, <1>3, <1>6 DEF MIPS_26, Stop
<1>7. CASE ARM_CALL(r)
  <2>1. CASE Patch(r, Address(r.sym)) /\ Proceed
    BY <1>2, <1>7, <2>1 DEF ARM_CALL
  <2>2. CASE ~Reaches(r, Address(r.sym)) /\ Stop("far") /\ UNCHANGED site
    <3>1. my_addr'[r.sym] = Address(r.sym) /\ Address(r.sym) # 0 /\ r.type = "CALL"
      BY <1>1, <1>7 DEF ARM_CALL, Due, Bind, Unbound
    <3>2. r \in Left(cur)'
      BY <1>1, <2>2 DEF Left
    <3>3. IsUndefined(Symtab[r.sym]) => \E q \in DOMAIN site : q.sym = r.sym
      <4>1. IsUndefined(Symtab[r.sym]) =>
              ~IsCommonData(Symtab[r.sym]) /\ ~IsSectionData(Symtab[r.sym])
        BY SectionsAssumption
           DEF IsUndefined, IsCommonData, IsSectionData, InSection, Reserved
      <4>2. IsUndefined(Symtab[r.sym]) => my_addr[r.sym] # 0
        BY <3>1, <4>1 DEF Address
      <4> QED BY <1>1, <4>2 DEF FarInv
    <3>4. ~Reaches(r, my_addr'[r.sym])
      BY <2>2, <3>1
    <3> QED BY <1>1, <2>2, <3>1, <3>2, <3>3, <3>4
            DEF FarInv, FarOnlyIfBoundBefore, Stop, Reaches, Place
  <2> QED BY <1>7, <2>1, <2>2 DEF ARM_CALL, PatchCall
<1>8. CASE ARM_CALL_extern(r)
  <2>1. CASE AllocateStub(r)
    <3>1. /\ layout[r.sec].count > 0 /\ Bind(r.sym, layout[r.sec].table)
          /\ PatchCall(r, layout[r.sec].table)
      BY <2>1 DEF AllocateStub, StubOwner
    <3>2. CASE Patch(r, layout[r.sec].table) /\ Proceed
      BY <1>2, <3>1, <3>2
    <3>3. CASE ~Reaches(r, layout[r.sec].table) /\ Stop("far") /\ UNCHANGED site
      <4>1. my_addr'[r.sym] = layout[r.sec].table /\ r.type = "CALL"
        BY <1>1, <1>8, <3>1 DEF ARM_CALL_extern, Due, Bind
      <4>2. r \in Left(cur)'
        BY <1>1, <3>3 DEF Left
      <4>3. ~OwnStubsNear(r)
        BY <3>1, <3>3, NewStubReached
      <4>4. ~Reaches(r, my_addr'[r.sym])
        BY <3>3, <4>1
      <4> QED BY <1>1, <3>3, <4>1, <4>2, <4>3, <4>4
              DEF FarInv, FarOnlyIfBoundBefore, Stop, Reaches, Place
    <3> QED BY <3>1, <3>2, <3>3 DEF PatchCall
  <2>2. CASE Stop("stub")
    BY <1>3, <2>2 DEF Stop
  <2> QED BY <1>8, <2>1, <2>2 DEF ARM_CALL_extern
<1> QED BY <1>4, <1>5, <1>6, <1>7, <1>8 DEF Entry

(* For every object, placement of its sections and order of its entries:   *)
(* the call that is the first to need a function is too far away only if   *)
(* the stubs of its own section are (ELFObject.hxx:186-214).               *)
THEOREM FarOnlyIfBoundBeforeHolds == Spec => []FarOnlyIfBoundBefore
<1>1. Init => FarInv
  BY DEF Init, FarInv, FarOnlyIfBoundBefore
<1>2. StubInv /\ FarInv /\ [Next]_vars => FarInv'
  <2> SUFFICES ASSUME StubInv, FarInv, [Next]_vars PROVE FarInv'
    OBVIOUS
  <2>1. CASE \E r \in Entries : Entry(r)
    BY <2>1, EntryFar
  <2>2. CASE NextSection \/ MissingSection
    <3>1. failure' # "far" /\ UNCHANGED <<my_addr, site>> /\ pc = "relocate"
      BY <2>2 DEF NextSection, MissingSection, Stop, StubInv, TypeOK
    <3> QED BY <3>1 DEF FarInv, FarOnlyIfBoundBefore
  <2>3. CASE BeginProtect \/ Return \/ UNCHANGED vars \/ \E sec \in Sections : Protect(sec)
    <3>1. /\ UNCHANGED <<relocs, failure, cur, my_addr, site>>
          /\ pc' = pc \/ pc # "aborted"
      BY <2>3 DEF BeginProtect, Return, Protect, vars
    <3> QED BY <3>1 DEF FarInv, FarOnlyIfBoundBefore, Left, Reaches, Place
  <2> QED BY <2>1, <2>2, <2>3 DEF Next, Step
<1>3. FarInv => FarOnlyIfBoundBefore
  BY DEF FarInv
<1> QED BY <1>1, <1>2, <1>3, StubInvariant, PTL DEF Spec

-----------------------------------------------------------------------------
(* No address is bound and nothing is written at first.                    *)
LEMMA BindingInit == Init => Binding!BindInit
<1> SUFFICES ASSUME Init PROVE Binding!BindInit
  OBVIOUS
<1>1. \A r \in AllEntries : r.sym \in Syms
  BY RelocateAssumption DEF Init, AllEntries
<1> QED BY <1>1 DEF Init, Binding!BindInit

(* An entry comes from a table, and the tables stay as they are.           *)
LEMMA EntryListed ==
  ASSUME StubInv, NEW r \in Entries, Entry(r)
  PROVE  /\ r \in AllEntries /\ r \notin DOMAIN site /\ r.sym \in Syms
         /\ pc = "relocate" /\ pc' \in {"relocate", "aborted"}
         /\ r \in DOMAIN site' \/ pc' = "aborted"
         /\ UNCHANGED <<relocs, cur, sealed>>
<1>1. Reached(r) /\ UNCHANGED <<relocs, cur, sealed>>
  BY DEF Entry, NoAddress, UnknownType, ARM_ABS32, ARM_CALL, ARM_CALL_extern,
         ARM_CALL_wrong_type, ARM_MOV, X86_entry, MIPS_entry, MIPS_26,
         MIPS_26_addend, Due
<1>2. cur \in DOMAIN Order
  BY <1>1, RelocateAssumption DEF Reached, StubInv, TypeOK
<1>3. /\ r \in AllEntries /\ r \notin DOMAIN site /\ r.sym \in Syms /\ pc = "relocate"
  BY <1>1, <1>2, RelocateAssumption DEF Reached, Left, AllEntries
<1>4. (Proceed /\ r \in DOMAIN site') \/ (\E why : Stop(why))
  <2>1. \A S : Patch(r, S) => r \in DOMAIN site'
    BY DEF Patch, With
  <2>2. CASE ARM_CALL_extern(r)
    BY <2>1, <2>2 DEF ARM_CALL_extern, AllocateStub, PatchCall
  <2>3. CASE ARM_CALL(r)
    BY <2>1, <2>3 DEF ARM_CALL, PatchCall
  <2>4. CASE ~ARM_CALL_extern(r) /\ ~ARM_CALL(r)
    BY <2>1, <2>4
       DEF Entry, NoAddress, UnknownType, ARM_ABS32, ARM_CALL_wrong_type, ARM_MOV,
           X86_entry, MIPS_entry, MIPS_26, MIPS_26_addend
  <2> QED BY <2>2, <2>3, <2>4
<1> QED BY <1>1, <1>3, <1>4 DEF Proceed, Stop

(* An entry writes its word, or is refused.                                *)
LEMMA EntryWrites ==
  ASSUME StubInv, NEW r \in Entries, Entry(r)
  PROVE  Binding!BindNext
<1>1. /\ r \in AllEntries /\ r \notin DOMAIN site /\ r.sym \in Syms
      /\ pc = "relocate" /\ pc' \in {"relocate", "aborted"}
      /\ r \in DOMAIN site' \/ pc' = "aborted"
      /\ AllEntries' = AllEntries
  BY EntryListed DEF AllEntries
<1>2. PICK a \in Nat : /\ my_addr[r.sym] # 0 => a = my_addr[r.sym]
                       /\ my_addr' = [my_addr EXCEPT ![r.sym] = a]
                       /\ UNCHANGED site \/ site' = With(site, r, a)
  BY EntryBindsOnce DEF BindsOnce
<1>3. my_addr \in [Syms -> Nat] /\ my_addr'[r.sym] = a
  BY <1>1, <1>2 DEF StubInv, TypeOK
<1>4. Binding!BindOnly(r.sym)
  BY <1>1, <1>2, <1>3 DEF Binding!BindOnly
<1>5. CASE site' = With(site, r, a)
  <2>1. Binding!Write(r)
    BY <1>1, <1>3, <1>4, <1>5 DEF Binding!Write, With
  <2> QED BY <1>1, <2>1 DEF Binding!BindNext
<1>6. CASE UNCHANGED site
  <2>1. pc' = "aborted"
    BY <1>1, <1>6
  <2>2. Binding!Refuse
    BY <1>1, <1>4, <1>6, <2>1 DEF Binding!Refuse
  <2> QED BY <1>1, <2>2 DEF Binding!BindNext
<1> QED BY <1>2, <1>5, <1>6

(* Behind the last section every word has been written.                    *)
LEMMA AllWritten ==
  ASSUME StubInv, DoneInv, cur > Len(Order)
  PROVE  AllEntries \subseteq DOMAIN site
<1> SUFFICES ASSUME NEW r \in AllEntries PROVE r \in DOMAIN site
  OBVIOUS
<1>1. PICK k \in DOMAIN Order : r \in relocs /\ r.sec = Order[k]
  BY DEF AllEntries
<1>2. k \in 1 .. cur - 1
  BY RelocateAssumption DEF StubInv, TypeOK
<1> QED BY <1>1, <1>2 DEF DoneInv, Left

(* Every step is one of SymbolBinding, or does not show there.             *)
LEMMA BindingStep ==
  ASSUME StubInv, DoneInv, [Next]_vars
  PROVE  [Binding!BindNext]_Binding!bindVars
<1>1. CASE \E r \in Entries : Entry(r)
  BY <1>1, EntryWrites
<1>2. CASE MissingSection
  <2>1. pc = "relocate" /\ pc' = "aborted" /\ UNCHANGED <<relocs, my_addr, site>>
    BY <1>2 DEF MissingSection, Stop
  <2>2. Binding!Refuse /\ AllEntries' = AllEntries
    BY <2>1 DEF Binding!Refuse, AllEntries
  <2> QED BY <2>2 DEF Binding!BindNext
<1>3. CASE BeginProtect
  <2>1. /\ pc = "relocate" /\ pc' = "protect" /\ cur > Len(Order)
        /\ UNCHANGED <<relocs, my_addr, site>>
    BY <1>3 DEF BeginProtect
  <2>2. AllEntries \subseteq DOMAIN site /\ AllEntries' = AllEntries
    BY <2>1, AllWritten DEF AllEntries
  <2>3. Binding!Complete
    BY <2>1, <2>2 DEF Binding!Complete
  <2> QED BY <2>2, <2>3 DEF Binding!BindNext
<1>4. CASE NextSection \/ Return \/ UNCHANGED vars \/ \E sec \in Sections : Protect(sec)
  <2>1. /\ UNCHANGED <<relocs, my_addr, site>>
        /\ pc' = pc \/ (pc = "protect" /\ pc' = "loaded")
    BY <1>4 DEF NextSection, Return, Protect, vars
  <2>2. AllEntries' = AllEntries
    BY <2>1 DEF AllEntries
  <2> QED BY <2>1, <2>2 DEF Binding!bindVars
<1> QED BY <1>1, <1>2, <1>3, <1>4 DEF Next, Step

(* For every machine, object and order of entries, relocation keeps the    *)
(* promise of SymbolBinding: one address for a symbol, in all its words,   *)
(* and no word passed over (ELFObject.hxx:134-241, 455-496).               *)
THEOREM ImplementsBindingHolds == Spec => ImplementsBinding
<1>1. Init => DoneInv
  BY DEF Init, DoneInv
<1>2. StubInv /\ DoneInv /\ [Next]_vars => DoneInv'
  BY NextKeepsDone
<1>3. StubInv /\ DoneInv /\ [Next]_vars => [Binding!BindNext]_Binding!bindVars
  BY BindingStep
<1> QED BY <1>1, <1>2, <1>3, BindingInit, StubInvariant, PTL
        DEF Spec, ImplementsBinding, Binding!BindSpec

-----------------------------------------------------------------------------
(* What relocate() has yet to do at most: the entries it has not patched,  *)
(* the relocation sections it has not left, the sections it has not        *)
(* protected, and the phases ahead.                                        *)
PhasesAhead == CASE pc = "relocate" -> 2 [] pc = "protect" -> 1 [] OTHER -> 0
Effort ==
  Cardinality(relocs \ DOMAIN site) + (Len(Order) + 1 - cur)
    + Cardinality(Sections \ sealed) + PhasesAhead

(* A file holds finitely many entries and sections.                        *)
FiniteObject == IsFiniteSet(Entries) /\ IsFiniteSet(Sections)

LEMMA EffortNat ==
  ASSUME FiniteObject, StubInv
  PROVE  /\ IsFiniteSet(relocs) /\ IsFiniteSet(Sections)
         /\ Cardinality(relocs \ DOMAIN site) \in Nat
         /\ Cardinality(Sections \ sealed) \in Nat
         /\ Len(Order) + 1 - cur \in Nat /\ PhasesAhead \in 0 .. 2
         /\ Effort \in Nat
<1>1. IsFiniteSet(relocs) /\ IsFiniteSet(Sections)
  BY FS_Subset DEF FiniteObject, StubInv, TypeOK
<1>2. /\ Cardinality(relocs \ DOMAIN site) \in Nat
      /\ Cardinality(Sections \ sealed) \in Nat
  BY <1>1, FS_Difference, FS_CardinalityType
<1>3. Len(Order) + 1 - cur \in Nat /\ PhasesAhead \in 0 .. 2
  BY RelocateAssumption DEF StubInv, TypeOK, PhasesAhead
<1> QED BY <1>1, <1>2, <1>3 DEF Effort

(* Fewer remain when one of them is done, and no more otherwise.           *)
LEMMA FewerLeft ==
  ASSUME NEW S, IsFiniteSet(S), NEW D, NEW E, D \subseteq E
  PROVE  /\ Cardinality(S \ E) \in Nat /\ Cardinality(S \ D) \in Nat
         /\ Cardinality(S \ E) <= Cardinality(S \ D)
         /\ \A x \in S : x \in E /\ x \notin D => Cardinality(S \ E) < Cardinality(S \ D)
<1>1. IsFiniteSet(S \ D) /\ IsFiniteSet(S \ E) /\ S \ E \subseteq S \ D
  BY FS_Difference
<1>2. Cardinality(S \ E) \in Nat /\ Cardinality(S \ D) \in Nat
  BY <1>1, FS_CardinalityType
<1>3. Cardinality(S \ E) <= Cardinality(S \ D)
  BY <1>1, FS_Subset
<1>4. ASSUME NEW x \in S, x \in E, x \notin D
      PROVE  Cardinality(S \ E) < Cardinality(S \ D)
  BY <1>1, <1>2, <1>3, <1>4, FS_Subset
<1> QED BY <1>2, <1>3, <1>4

(* Every step lowers what is yet to be done.                               *)
LEMMA StepLowersEffort ==
  ASSUME FiniteObject, StubInv, StubInv', DoneInv, Next
  PROVE  Effort' < Effort
<1>1. /\ IsFiniteSet(relocs) /\ IsFiniteSet(Sections)
      /\ Cardinality(relocs \ DOMAIN site) \in Nat
      /\ Cardinality(Sections \ sealed) \in Nat
      /\ Len(Order) + 1 - cur \in Nat /\ PhasesAhead \in 0 .. 2
      /\ Len(Order) \in Nat /\ cur \in Nat
  BY EffortNat, RelocateAssumption DEF StubInv, TypeOK
<1>2. PhasesAhead' \in 0 .. 2
  BY DEF PhasesAhead
<1>3. CASE \E r \in Entries : Entry(r)
  <2>1. PICK r \in Entries : Entry(r)
    BY <1>3
  <2>2. /\ r \in relocs /\ r \notin DOMAIN site /\ pc = "relocate"
        /\ r \in DOMAIN site' \/ pc' = "aborted"
        /\ pc' \in {"relocate", "aborted"}
        /\ relocs' = relocs /\ cur' = cur /\ sealed' = sealed
    BY <2>1, EntryListed DEF AllEntries
  <2>3. DOMAIN site \subseteq DOMAIN site'
    BY <2>1, EntryBindsOnce DEF BindsOnce, With
  <2>4. /\ Cardinality(relocs \ DOMAIN site') \in Nat
        /\ Cardinality(relocs \ DOMAIN site') <= Cardinality(relocs \ DOMAIN site)
        /\ r \in DOMAIN site' =>
             Cardinality(relocs \ DOMAIN site') < Cardinality(relocs \ DOMAIN site)
    BY <1>1, <2>2, <2>3, FewerLeft
  <2>5. /\ pc' = "relocate" => PhasesAhead' = PhasesAhead
        /\ pc' = "aborted" => PhasesAhead' < PhasesAhead
    BY <2>2 DEF PhasesAhead
  <2>6. Effort' = Cardinality(relocs \ DOMAIN site') + (Len(Order) + 1 - cur)
                    + Cardinality(Sections \ sealed) + PhasesAhead'
    BY <2>2 DEF Effort
  <2>7. CASE pc' = "relocate"
    <3>1. Cardinality(relocs \ DOMAIN site') < Cardinality(relocs \ DOMAIN site)
      BY <2>2, <2>4, <2>7
    <3> QED BY <1>1, <2>4, <2>5, <2>6, <2>7, <3>1 DEF Effort
  <2>8. CASE pc' = "aborted"
    <3>1. PhasesAhead' < PhasesAhead
      BY <2>5, <2>8
    <3>2. PhasesAhead' \in Int /\ PhasesAhead \in Int
      BY <1>1, <1>2
    <3> QED BY <1>1, <2>4, <2>6, <3>1, <3>2 DEF Effort
  <2> QED BY <2>2, <2>7, <2>8
<1>4. CASE NextSection
  <2>1. /\ cur' = cur + 1 /\ PhasesAhead' = PhasesAhead
        /\ UNCHANGED <<relocs, site, sealed>>
    BY <1>4 DEF NextSection, PhasesAhead
  <2> QED BY <1>1, <2>1 DEF Effort
<1>5. CASE MissingSection
  BY <1>1, <1>5 DEF MissingSection, Stop, Effort, PhasesAhead
<1>6. CASE BeginProtect
  BY <1>1, <1>6 DEF BeginProtect, Effort, PhasesAhead
<1>7. CASE Return
  BY <1>1, <1>7 DEF Return, Effort, PhasesAhead
<1>8. CASE \E sec \in Sections : Protect(sec)
  <2>1. PICK sec \in Sections : Protect(sec)
    BY <1>8
  <2>2. /\ sec \notin sealed /\ sealed' = sealed \cup {sec}
        /\ relocs' = relocs /\ site' = site /\ cur' = cur /\ pc' = pc
    BY <2>1 DEF Protect
  <2>3. /\ Cardinality(Sections \ sealed') \in Nat
        /\ Cardinality(Sections \ sealed') < Cardinality(Sections \ sealed)
    BY <1>1, <2>2, FewerLeft
  <2>4. PhasesAhead' = PhasesAhead
    BY <2>2 DEF PhasesAhead
  <2> QED BY <1>1, <2>2, <2>3, <2>4 DEF Effort
<1> QED BY <1>3, <1>4, <1>5, <1>6, <1>7, <1>8 DEF Next, Step

(* relocate() cannot go round for ever: every step patches an entry,       *)
(* leaves a section, protects one or ends a phase, and takes nothing back  *)
(* (ELFObject.hxx:134-430, 455-506).                                       *)
THEOREM RelocateProgress ==
  ASSUME FiniteObject
  PROVE  Spec => [](Effort \in Nat) /\ [][Effort' < Effort]_vars
<1>1. Init => DoneInv
  BY DEF Init, DoneInv
<1>2. StubInv /\ DoneInv /\ [Next]_vars => DoneInv'
  BY NextKeepsDone
<1>3. StubInv /\ StubInv' /\ DoneInv /\ [Next]_vars => [Effort' < Effort]_vars
  BY StepLowersEffort
<1>4. StubInv => Effort \in Nat
  BY EffortNat
<1> QED BY <1>1, <1>2, <1>3, <1>4, StubInvariant, PTL DEF Spec

-----------------------------------------------------------------------------
(* An R_MIPS_26 jump that has been patched, in an object that has not been *)
(* given up, has its target in another region.                             *)
JumpsMiss ==
  pc # "aborted" =>
    \A r \in DOMAIN site :
      r.type = "26" => (Place(r) + 4) \div RegionSize # site[r] \div RegionSize

LEMMA EntryJumps ==
  ASSUME StubInv, JumpsMiss, NEW r \in Entries, Entry(r)
  PROVE  JumpsMiss'
<1>1. pc = "relocate"
  BY EntryListed
<1>2. ASSUME NEW S, Patch(r, S), pc' # "aborted",
             r.type = "26" => (Place(r) + 4) \div RegionSize # S \div RegionSize
      PROVE  JumpsMiss'
  BY <1>1, <1>2 DEF Patch, With, JumpsMiss, Place
<1>3. ASSUME pc' = "aborted" PROVE JumpsMiss'
  BY <1>3 DEF JumpsMiss
<1>4. CASE MIPS_26(r)
  BY <1>2, <1>3, <1>4 DEF MIPS_26, Stop
<1>5. CASE ARM_CALL(r) \/ ARM_CALL_extern(r)
  <2>1. r.type = "CALL"
    BY <1>5 DEF ARM_CALL, ARM_CALL_extern, Due
  <2>2. pc' = "aborted" \/ \E S : Patch(r, S)
    BY <1>5 DEF ARM_CALL, ARM_CALL_extern, AllocateStub, PatchCall, Stop
  <2> QED BY <1>2, <1>3, <2>1, <2>2
<1>6. CASE ARM_ABS32(r) \/ ARM_MOV(r) \/ X86_entry(r) \/ MIPS_entry(r)
  <2>1. r.type # "26"
    BY <1>6 DEF ARM_ABS32, ARM_MOV, X86_entry, MIPS_entry, Due
  <2>2. \E S : Patch(r, S)
    BY <1>6 DEF ARM_ABS32, ARM_MOV, X86_entry, MIPS_entry
  <2> QED BY <1>2, <1>3, <2>1, <2>2
<1>7. CASE NoAddress(r) \/ UnknownType(r) \/ ARM_CALL_wrong_type(r) \/ MIPS_26_addend(r)
  BY <1>3, <1>7 DEF NoAddress, UnknownType, ARM_CALL_wrong_type, MIPS_26_addend, Stop
<1> QED BY <1>4, <1>5, <1>6, <1>7 DEF Entry

(* What the reversed comparison of the assertion on the upper four bits    *)
(* (ELFObject.hxx:390-396) leads to, for every object: a MIPS object that  *)
(* is loaded has only jumps whose target they cannot encode.               *)
THEOREM LoadedJumpsMiss == Spec => []JumpsMiss
<1>1. Init => JumpsMiss
  BY DEF Init, JumpsMiss
<1>2. StubInv /\ JumpsMiss /\ [Next]_vars => JumpsMiss'
  <2> SUFFICES ASSUME StubInv, JumpsMiss, [Next]_vars PROVE JumpsMiss'
    OBVIOUS
  <2>1. CASE \E r \in Entries : Entry(r)
    BY <2>1, EntryJumps
  <2>2. CASE MissingSection
    BY <2>2 DEF MissingSection, Stop, JumpsMiss
  <2>3. CASE NextSection \/ BeginProtect \/ Return \/ UNCHANGED vars
             \/ \E sec \in Sections : Protect(sec)
    <3>1. site' = site /\ (pc' = pc \/ pc # "aborted")
      BY <2>3 DEF NextSection, BeginProtect, Return, Protect, vars
    <3> QED BY <3>1 DEF JumpsMiss, Place
  <2> QED BY <2>1, <2>2, <2>3 DEF Next, Step
<1> QED BY <1>1, <1>2, StubInvariant, PTL DEF Spec
===============================================================================
