------------------------------- MODULE MCFixups -------------------------------
(* Words of 8 bits instead of 32, so that every boundary is in reach: fields *)
(* of 4 bits, halves of 4, the "2 GB" boundary at 128, regions of 64 bytes, *)
(* and 10 bits for x86_64 addresses.                                        *)
EXTENDS Fixups

Shape(types, words, places, targets, externs, addends) ==
  [types |-> types, words |-> words, places |-> places, targets |-> targets,
   externs |-> externs, addends |-> addends]

(* Branches with the addends -2, 0 and 7 near both ends and the middle of   *)
(* the address space, alone or with a word that holds the address.          *)
Functions == {131} \cup {4 * n : n \in 1 .. 63}
CallShapes ==
  {Shape(ty, {238, 224, 231}, {16, 112, 120, 124, 136, 240}, Functions, BOOLEAN, {0}) :
     ty \in {<<"R_ARM_CALL">>, <<"R_ARM_CALL", "R_ARM_CALL">>,
             <<"R_ARM_CALL", "R_ARM_ABS32">>}}

(* An address in two halves, in either order, and a branch behind one.      *)
MovShapes ==
  {Shape(ty, {76, 77, 111, 255}, {64}, 1 .. 255, BOOLEAN, {0}) :
     ty \in {<<"R_ARM_MOVW_ABS_NC", "R_ARM_MOVT_ABS">>,
             <<"R_ARM_MOVT_ABS", "R_ARM_MOVW_ABS_NC">>}}
  \cup {Shape(<<"R_ARM_MOVW_ABS_NC", "R_ARM_CALL">>, {76, 238}, {64}, {0, 40, 200}, {TRUE}, {0})}

X86Shapes ==
  {Shape(ty, {252, 0, 4, 128}, {64, 124, 240}, {1, 60, 127, 128, 130, 254}, BOOLEAN, {0}) :
     ty \in {<<"R_386_PC32", "R_386_32">>, <<"R_386_32", "R_386_PC32">>}}

X64Shapes ==
  {Shape(ty, {0, 200}, {64, 124, 500, 1000},
         {40, 126, 127, 128, 255, 257, 300, 511, 900, 1023}, BOOLEAN, {-4, 0, 5}) :
     ty \in {<<"R_X86_64_PC32", "R_X86_64_32">>, <<"R_X86_64_32S", "R_X86_64_PC32">>,
             <<"R_X86_64_64">>}}
  \cup {Shape(<<"R_X86_64_PC32">>, {0}, {64}, {0, 256}, {TRUE}, {-4})}

MIPSShapes ==
  {Shape(ty, {192, 208, 195}, {64}, 1 .. 255, BOOLEAN, {0}) :
     ty \in {<<"R_MIPS_HI16", "R_MIPS_LO16">>, <<"R_MIPS_LO16", "R_MIPS_HI16">>}}
  \cup {Shape(ty, {48, 50}, {56, 60, 188}, {8, 60, 64, 100, 130, 200}, BOOLEAN, {0}) :
          ty \in {<<"R_MIPS_26", "R_MIPS_32">>, <<"R_MIPS_32", "R_MIPS_26">>}}

MCShapes == CallShapes \cup MovShapes \cup X86Shapes \cup X64Shapes \cup MIPSShapes
===============================================================================
