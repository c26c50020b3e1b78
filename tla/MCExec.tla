-------------------------------- MODULE MCExec --------------------------------
(* Three symbols, two of them of one name; one name no symbol has.  The     *)
(* kinds are those a client can tell apart.                                 *)
EXTENDS Exec

MCSections == {"text", "bss", "empty"}
MCShType == [s \in MCSections |-> IF s = "bss" THEN "NOBITS" ELSE "PROGBITS"]
MCSecBase == [s \in MCSections |->
  CASE s = "text" -> 1000 [] s = "bss" -> 1200 [] OTHER -> 0]

Sym(t, sec, v, sz) == [type |-> t, shndx |-> sec, value |-> v, size |-> sz]
MCEntries == {
  Sym("OBJECT", "COMMON", 4, 3),
  Sym("OBJECT", "bss", 0, 5),
  Sym("FUNC", "text", 8, 4),
  Sym("FUNC", "empty", 0, 4),
  Sym("NOTYPE", "UNDEF", 0, 0) }
MCBases == {8, 24}
MCNameOf == [s \in 0 .. 2 |-> IF s = 1 THEN "x" ELSE "main"]
===============================================================================
