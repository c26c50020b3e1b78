--------------------------- MODULE MCSHNCommonData ---------------------------
(* Three symbols, drawn from all the kinds getAddress tells apart.  Sizes   *)
(* and alignments are scaled: mmap's bases are multiples of a "page" of 8,  *)
(* and one common asks for more than page alignment.                        *)
EXTENDS SHNCommonData

MCSections == {"text", "bss", "note", "empty"}
MCShType == [s \in MCSections |->
  CASE s = "bss" -> "NOBITS" [] s = "note" -> "OTHER" [] OTHER -> "PROGBITS"]
MCSecBase == [s \in MCSections |->
  CASE s = "text" -> 1000 [] s = "bss" -> 1200 [] OTHER -> 0]

Sym(t, sec, v, sz) == [type |-> t, shndx |-> sec, value |-> v, size |-> sz]
MCEntries == {
  Sym("OBJECT", "COMMON", 1, 3),    \* a char array
  Sym("OBJECT", "COMMON", 4, 4),    \* an int
  Sym("OBJECT", "COMMON", 16, 1),   \* aligned beyond the page
  Sym("OBJECT", "COMMON", 4, 0),    \* no size
  Sym("OBJECT", "bss", 0, 5),       \* .lcomm
  Sym("OBJECT", "text", 8, 4),      \* an initialised variable
  Sym("OBJECT", "empty", 0, 0),     \* in a section that was not loaded
  Sym("SECTION", "bss", 0, 0),
  Sym("NOTYPE", "UNDEF", 0, 0) }    \* an external function
MCBases == {8, 24}
==============================================================================
