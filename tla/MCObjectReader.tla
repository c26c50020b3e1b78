---------------------------- MODULE MCObjectReader ----------------------------
(* An object as the compilers lay it out (contents, section names, headers, *)
(* symbols, strings), the same one with an odd offset, without a symbol     *)
(* table, with its contents at the end, or with an offset that leads out of *)
(* the address space, to before the file or to its start; each cut at every *)
(* byte.  Sizes are scaled: a header is 8 bytes, a section header 4, and    *)
(* there are 256 addresses, with the file at 32.                            *)
EXTENDS ObjectReader, TLC

Section(type, name, off, n, target) ==
  [type |-> type, name |-> name, off |-> off, size |-> n, target |-> target]

Compiled ==
  [valid |-> TRUE, shoff |-> 28, shnum |-> 9, shstrndx |-> 5, externs |-> 1,
   secs |-> (0 :> Section("NULL", "", 0, 0, "")) @@
            (1 :> Section("PROGBITS", ".text", 8, 6, "")) @@
            (2 :> Section("REL", ".rel.text", 16, 4, ".text")) @@
            (3 :> Section("PROGBITS", ".data", 14, 0, "")) @@
            (4 :> Section("NOBITS", ".bss", 14, 3, "")) @@
            (5 :> Section("STRTAB", ".shstrtab", 20, 7, "")) @@
            (6 :> Section("SYMTAB", ".symtab", 66, 6, "")) @@
            (7 :> Section("STRTAB", ".strtab", 73, 4, "")) @@
            (8 :> Section("OTHER", ".ARM.attributes", 14, 2, ""))]

ContentsLast == [Compiled EXCEPT !.secs[5].off = 78, !.secs[2].off = 86,
                                 !.secs[1].off = 91, !.secs[3].size = 2,
                                 !.secs[3].off = 98]
OddSymbols == [Compiled EXCEPT !.secs[6].off = 67]
OddHeaders == [Compiled EXCEPT !.shoff = 29]
Stripped   == [Compiled EXCEPT !.secs[6].type = "OTHER"]
NotAnELF   == [Compiled EXCEPT !.valid = FALSE]
DebugLost  == [Compiled EXCEPT !.secs[2].target = ".debug_info"]

TextBefore  == [Compiled EXCEPT !.secs[1].off = 246]
NamesBefore == [Compiled EXCEPT !.secs[5].off = 240]
RelsBefore  == [Compiled EXCEPT !.secs[2].off = 250]
OddBefore   == [Compiled EXCEPT !.secs[6].off = 245]
ShdrsBefore == [Compiled EXCEPT !.shoff = 232]
TextAtNull  == [Compiled EXCEPT !.secs[1].off = 224]
RelsAcross  == [Compiled EXCEPT !.secs[2].off = 222]
ShdrsAcross == [Compiled EXCEPT !.shoff = 221]

MCObjects == {Compiled, ContentsLast, OddSymbols, OddHeaders, Stripped,
              NotAnELF, DebugLost, TextBefore, NamesBefore, RelsBefore,
              OddBefore, ShdrsBefore, TextAtNull, RelsAcross, ShdrsAcross}
MCFileSizes == 0 .. 100
===============================================================================
