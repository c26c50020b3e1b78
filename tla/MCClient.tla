------------------------------- MODULE MCClient -------------------------------
(* The files of MCObjectReader, given to the command line client.           *)
EXTENDS Client, TLC

Section(type, name, off, n, target) ==
  [type |-> type, name |-> name, off |-> off, size |-> n, target |-> target,
   flags |-> CASE name = ".text" -> {"SHF_EXECINSTR"}
               [] type = "NOBITS" -> {"SHF_WRITE"} [] OTHER -> {}]

(* Contents, section names, headers, symbols, strings and variables in a    *)
(* NOBITS section; the same with an odd table, without symbols, with        *)
(* sections that are both writable and executable, with code that is not    *)
(* executable, with its code at the end of the file, with a name find_sym   *)
(* does not know, without main, with an offset that leads to before the     *)
(* file, and no ELF at all.                                                 *)
Small ==
  [valid |-> TRUE, shoff |-> 22, shnum |-> 7, shstrndx |-> 3, externs |-> 1,
   asks |-> {"printf"}, main |-> 1,
   secs |-> (0 :> Section("NULL", "", 0, 0, "")) @@
            (1 :> Section("PROGBITS", ".text", 8, 6, "")) @@
            (2 :> Section("REL", ".rel.text", 14, 4, ".text")) @@
            (3 :> Section("STRTAB", ".shstrtab", 18, 4, "")) @@
            (4 :> Section("SYMTAB", ".symtab", 50, 4, "")) @@
            (5 :> Section("STRTAB", ".strtab", 54, 3, "")) @@
            (6 :> Section("NOBITS", ".bss", 57, 2, ""))]

MCObjects == {Small,
              [Small EXCEPT !.secs[2].off = 15],
              [Small EXCEPT !.secs[4].type = "OTHER"],
              [Small EXCEPT !.secs[1].flags = {"SHF_WRITE", "SHF_EXECINSTR"},
                            !.secs[6].flags = {"SHF_WRITE", "SHF_EXECINSTR"}],
              [Small EXCEPT !.secs[1].flags = {}],
              [Small EXCEPT !.secs[1].off = 52],
              [Small EXCEPT !.secs[1].off = 246],
              [Small EXCEPT !.main = 0, !.asks = {"printf", "malloc"}],
              [Small EXCEPT !.main = 0],
              [Small EXCEPT !.valid = FALSE]}
MCProvided == {"printf", "scanf", "__isoc99_scanf", "rand", "time", "srand"}
MCFileSizes == 0 .. 58
===============================================================================
