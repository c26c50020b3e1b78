------------------------------ MODULE MCRelocate ------------------------------
(* An x86 or a MIPS object: code, read-only data and an exported variable.  *)
(* Symbol 0 is the null entry, 1 an external function, 2 one that find_sym  *)
(* does not know.                                                           *)
EXTENDS Relocate, TLC

MCSections == {"text", "rodata", "debug"}
MCShType == [s \in MCSections |-> "PROGBITS"]
MCSecBase == [s \in MCSections |->
  CASE s = "text" -> 4080 [] s = "rodata" -> 9000 [] s = "debug" -> 0]
MCSecSize == [s \in MCSections |-> 20]

Sym(t, sec, v, sz) == [type |-> t, shndx |-> sec, value |-> v, size |-> sz]
MCSymtab == (0 :> Sym("NOTYPE", "UNDEF", 0, 0)) @@ (1 :> Sym("NOTYPE", "UNDEF", 0, 0))
         @@ (2 :> Sym("NOTYPE", "UNDEF", 0, 0)) @@ (3 :> Sym("OBJECT", "COMMON", 4, 4))
         @@ (4 :> Sym("SECTION", "rodata", 0, 0)) @@ (5 :> Sym("FUNC", "debug", 0, 0))
         @@ (6 :> Sym("FUNC", "text", 8, 8))
MCFindSym == [s \in 0 .. 6 |-> IF s = 1 THEN 4600 ELSE 0]
MCVarAddr == [s \in 0 .. 6 |-> 5000 + 8 * s]

Rel(sec, off, sym, type) ==
  [sec |-> sec, off |-> off, sym |-> sym, type |-> type, addend |-> 0]

(* What one compiler or the other emits for calls and for addresses.        *)
MCEntries ==
  {Rel("text", 0, 1, "26"), Rel("text", 4, 1, "26"), Rel("text", 0, 6, "26"),
   Rel("text", 12, 1, "26"), Rel("text", 8, 2, "26"), Rel("text", 8, 5, "26"),
   Rel("text", 8, 1, "26+A"), Rel("rodata", 0, 1, "32"), Rel("rodata", 4, 4, "32"),
   Rel("text", 4, 1, "other")}
  \cup {Rel("text", 16, s, h) : s \in {1, 2, 3}, h \in {"HI16", "LO16", "ABS"}}
  \cup {Rel("text", 0, 1, "PC"), Rel("text", 4, 1, "PC"), Rel("text", 0, 6, "PC"),
        Rel("text", 12, 1, "PC"), Rel("text", 8, 2, "PC"), Rel("text", 8, 5, "PC"),
        Rel("rodata", 0, 1, "ABS"), Rel("rodata", 4, 4, "ABS")}

(* The last of the patched sections has not been loaded.                    *)
MCOrder == <<"text", "rodata", "debug">>
===============================================================================
