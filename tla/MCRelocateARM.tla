---------------------------- MODULE MCRelocateARM ----------------------------
(* An ARM object with two code sections, out of reach of each other, and    *)
(* read-only data.  Symbol 0 is the null entry, 1 an external function near *)
(* .text, 2 one that is far from everything, 3 one find_sym does not know.  *)
(* There are 8192 addresses: .init lies before their middle, and its stubs  *)
(* but the first behind it.  One call has a large offset in its word.       *)
EXTENDS Relocate, TLC

MCSections == {"text", "init", "rodata", "bss", "debug"}
MCShType == [s \in MCSections |-> IF s = "bss" THEN "NOBITS" ELSE "PROGBITS"]
MCSecBase == [s \in MCSections |->
  CASE s = "text" -> 400 [] s = "init" -> 4076 [] s = "rodata" -> 3000
    [] s = "bss" -> 3200 [] s = "debug" -> 0]
MCSecSize == [s \in MCSections |-> 16]

Sym(t, sec, v, sz) == [type |-> t, shndx |-> sec, value |-> v, size |-> sz]
MCSymtab == (0 :> Sym("NOTYPE", "UNDEF", 0, 0)) @@ (1 :> Sym("NOTYPE", "UNDEF", 0, 0))
         @@ (2 :> Sym("NOTYPE", "UNDEF", 0, 0)) @@ (3 :> Sym("NOTYPE", "UNDEF", 0, 0))
         @@ (4 :> Sym("OBJECT", "COMMON", 4, 4)) @@ (5 :> Sym("SECTION", "rodata", 0, 0))
         @@ (6 :> Sym("FUNC", "debug", 0, 0))
         @@ (7 :> Sym("FUNC", "text", 8, 8))
MCFindSym == (0 :> 0) @@ (1 :> 464) @@ (2 :> 7000) @@ (3 :> 0) @@ (4 :> 0)
          @@ (5 :> 0) @@ (6 :> 0) @@ (7 :> 0)
MCVarAddr == [s \in 0 .. 7 |-> 5000 + 8 * s]

Rel(sec, off, sym, type) ==
  [sec |-> sec, off |-> off, sym |-> sym, type |-> type, addend |-> 0]
MCEntries == {
  Rel("text", 0, 1, "CALL"), Rel("text", 4, 1, "CALL"), Rel("text", 8, 2, "CALL"),
  Rel("text", 0, 1, "MOVW"), Rel("text", 4, 1, "MOVT"), Rel("text", 12, 4, "MOVW"),
  Rel("text", 0, 3, "CALL"), Rel("text", 4, 3, "MOVT"),
  Rel("init", 0, 1, "CALL"), Rel("init", 4, 2, "CALL"), Rel("init", 8, 2, "MOVT"),
  Rel("init", 12, 7, "CALL"), Rel("init", 4, 4, "CALL"), Rel("init", 0, 6, "ABS32"),
  [Rel("text", 8, 2, "CALL") EXCEPT !.addend = 19],
  Rel("rodata", 0, 1, "ABS32"), Rel("rodata", 4, 2, "ABS32"), Rel("rodata", 8, 5, "other") }
MCOrder == <<"rodata", "text", "init">>
==============================================================================
