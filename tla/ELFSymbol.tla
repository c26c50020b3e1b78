------------------------------ MODULE ELFSymbol ------------------------------
(***************************************************************************)
(* The symbols of a loaded object (include/ELFSymbol.h) and the decision   *)
(* table of ELFSymbol::getAddress (include/impl/ELFSymbol.hxx): where the  *)
(* storage of a symbol comes from is a function of its type and of the     *)
(* section its st_shndx names.                                             *)
(*                                                                         *)
(* A symbol is a record [type, shndx, value, size].  shndx is a section    *)
(* or one of the reserved indices:                                         *)
(*   type  "FILE" stands for STT_COMMON, STT_FILE, STT_TLS and the OS and  *)
(*         processor ranges, which getAddress does not implement;          *)
(*   shndx "ABS"  stands for SHN_ABS and SHN_XINDEX.                       *)
(* The type numbers the ABI leaves undefined are left out.  rsl_assert     *)
(* stops the program: that is how the repository builds it.                *)
(***************************************************************************)
EXTENDS Integers

CONSTANTS
  Sections,   \* the sections of the object
  ShType,     \* sh_type of every section
  SecBase     \* address of the memory of every section, 0 for a NULL stab entry

SymTypes == {"NOTYPE", "OBJECT", "FUNC", "SECTION", "FILE"}
Reserved == {"UNDEF", "ABS", "COMMON"}
Symbols  == [type : SymTypes, shndx : Sections \cup Reserved,
             value : Nat, size : Nat]

ASSUME SectionsAssumption ==
  /\ Sections \cap Reserved = {}
  /\ ShType \in [Sections -> {"PROGBITS", "NOBITS", "OTHER"}]
  /\ SecBase \in [Sections -> Nat]

(* The alignment given to a variable of a NOBITS section, whatever the     *)
(* section says (the .lcomm workaround).                                   *)
CONSTANT LcommAlign
ASSUME LcommAlignAssumption == LcommAlign \in Nat \ {0}

InSection(sym, shTypes) == sym.shndx \in Sections /\ ShType[sym.shndx] \in shTypes

(* Variables that are given memory of their own: commons, and the objects  *)
(* of a NOBITS section.                                                    *)
IsCommonData(sym) == /\ sym.type = "OBJECT"
                     /\ sym.shndx = "COMMON" \/ InSection(sym, {"NOBITS"})

(* Symbols that live in the memory of their section.                       *)
IsSectionData(sym) ==
  \/ sym.type \in {"OBJECT", "FUNC"} /\ InSection(sym, {"PROGBITS"})
  \/ sym.type \in {"SECTION", "NOTYPE"} /\ InSection(sym, {"PROGBITS", "NOBITS"})

(* Symbols the object does not define: getAddress answers 0.               *)
IsUndefined(sym) == sym.type = "NOTYPE" /\ sym.shndx = "UNDEF"

(* Every other symbol fails one of the assertions of getAddress.           *)
HasNoAddress(sym) ==
  \/ ~IsCommonData(sym) /\ ~IsSectionData(sym) /\ ~IsUndefined(sym)
  \/ IsSectionData(sym) /\ SecBase[sym.shndx] = 0

SectionAddress(sym) == SecBase[sym.shndx] + sym.value

Align(sym) == IF sym.shndx = "COMMON" THEN sym.value ELSE LcommAlign

(* Counting loops that forget the room for alignment, or the variables of  *)
(* a NOBITS section (used by the sensitivity runs only).                   *)
DemandWithoutAlign(sym) == IF IsCommonData(sym) THEN sym.size ELSE 0
DemandOfCommons(sym) ==
  IF sym.type = "OBJECT" /\ sym.shndx = "COMMON" THEN sym.size + sym.value ELSE 0

(* What the counting loop of ELFObject::relocate adds for a symbol.        *)
Demand(sym) == IF IsCommonData(sym) THEN sym.size + Align(sym) ELSE 0

==============================================================================
