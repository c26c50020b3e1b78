-------------------------------- MODULE Fixups --------------------------------
(***************************************************************************)
(* The words the relocators of ELFObject (include/impl/ELFObject.hxx)      *)
(* write.  Module Relocate follows the addresses that symbols are bound    *)
(* to; here are the instructions that come out, and what the processor     *)
(* makes of them: where a branch lands, what a pair of halves adds up to.  *)
(*                                                                         *)
(* An object has one or two words in a row, each with a relocation entry   *)
(* against one symbol.  The symbol is one the object defines, or one that  *)
(* find_sym answers for.                                                   *)
(*                                                                         *)
(* The sizes of words and fields are parameters, so that a small instance  *)
(* has every boundary the real one has; the bit operations of the code are *)
(* written as the arithmetic they do.  Inst_t is int32_t: its additions    *)
(* wrap, its shifts to the right are arithmetic.                           *)
(***************************************************************************)
EXTENDS Integers, Sequences

CONSTANTS
  Low,      \* 2^12: values of the lower part of a MOVW/MOVT immediate
  Nibble,   \* 2^4:  values of its upper part
  Field,    \* 2^24: values of the offset of an ARM branch
  OpSize,   \* 2^8:  values of the rest of the branch
  Jump,     \* 2^26: values of the target of a MIPS jump
  Regions,  \* 2^4:  regions of the address space such a jump stays in
  Spaces,   \* 2^32: times a word's range fits into x86_64 addresses
  Shapes    \* the objects to relocate: sets of places, targets, words, addends

Half      == Nibble * Low     \* 2^16
WordSize  == Field * OpSize   \* 2^32
MaxInt    == WordSize \div 2
Word      == 0 .. WordSize - 1

ARMTypes  == {"R_ARM_ABS32", "R_ARM_CALL", "R_ARM_MOVW_ABS_NC", "R_ARM_MOVT_ABS"}
X86Types  == {"R_386_32", "R_386_PC32"}
X64Types  == {"R_X86_64_64", "R_X86_64_PC32", "R_X86_64_32", "R_X86_64_32S"}
MIPSTypes == {"R_MIPS_HI16", "R_MIPS_LO16", "R_MIPS_26", "R_MIPS_32"}

(* The values 1, 2, 4, ... of the bits of a half.                          *)
Power[n \in 0 .. 16] == IF n = 0 THEN 1 ELSE 2 * Power[n - 1]

(* The objects of a shape: where the words are, where the symbol is, and   *)
(* whether find_sym has to say so; the entries' types, the words before    *)
(* relocation and the addends of the entries.                              *)
Objects(shape) ==
  [place : shape.places, target : shape.targets, extern : shape.externs,
   types : {shape.types}, inst : [DOMAIN shape.types -> shape.words],
   addend : shape.addends]

(* Addresses have the width of a word, or on x86_64 twice that.            *)
Addresses(type) ==
  IF type \in X64Types THEN 0 .. WordSize * Spaces - 1 ELSE Word

ASSUME FixupsAssumption ==
  /\ Low \in Nat \ {0} /\ Nibble \in Nat \ {0}
  /\ Field \in Nat \ {0} /\ OpSize \in Nat \ {0}
  /\ Jump \in Nat \ {0} /\ Regions \in Nat \ {0} /\ Spaces \in Nat \ {0}
  /\ Field % 2 = 0 /\ Half % 2 = 0 /\ OpSize % 8 = 0
  /\ \E n \in 0 .. 16 : Half = Power[n]
  /\ Half * Half = WordSize /\ 4 * Jump * Regions = WordSize
  /\ \A s \in Shapes :
       /\ \E machine \in {ARMTypes, X86Types, X64Types, MIPSTypes} : s.types \in Seq(machine)
       /\ Len(s.types) \in 1 .. 2
       /\ s.externs \subseteq BOOLEAN
       /\ s.words \subseteq Word /\ s.addends \subseteq Int
       /\ \A k \in DOMAIN s.types :
            /\ \A p \in s.places : p % 4 = 0 /\ {p, p + 15} \subseteq Addresses(s.types[k])
            /\ \A t \in s.targets :
                 /\ t \in Addresses(s.types[k])
                 /\ t % WordSize # 0 \/ s.externs = {TRUE}

VARIABLES
  obj,      \* the object: place, target, extern, types, and the words before
  pc,       \* "relocate", or "aborted"
  i,        \* the entry the loop has come to
  inst,     \* the words
  my_addr,  \* cached address of the symbol, 0 if not known
  stub      \* memory of the stub table: address -> instruction or word

vars == <<obj, pc, i, inst, my_addr, stub>>

(* P, the address of the k-th word.                                        *)
Place(k) == obj.place + 4 * (k - 1)

(* The stub table lies behind the two words of the section.  The code does *)
(* not align it: in a section of an odd size the stubs are at odd places,  *)
(* which is left out.                                                      *)
StubTable == obj.place + 8

Init ==
  /\ \E s \in Shapes : obj \in Objects(s)
  /\ pc = "relocate" /\ i = 1
  /\ inst = obj.inst
  /\ my_addr = IF obj.extern THEN 0 ELSE obj.target
  /\ stub = <<>>

-----------------------------------------------------------------------------
(* (Inst_t)x and (uint32_t)x *)
Inst_t(x)   == IF x % WordSize < MaxInt THEN x % WordSize ELSE (x % WordSize) - WordSize
uint32_t(x) == x % WordSize

(* SIGN_EXTEND(x, 24): the exclusive-or with 1 << 23, and the subtraction. *)
(* (Next to it, as to others below, a wrong version of the operator for    *)
(* the sensitivity runs.)                                                  *)
ZeroExtend(x) == x
SignExtend(x) ==
  (IF x < Field \div 2 THEN x + Field \div 2 ELSE x - Field \div 2) - Field \div 2

(* The offset of an R_ARM_CALL, in words, its range test, and the word:    *)
(* the lower 24 bits of result with the upper 8 of the instruction.        *)
CallResult(S, P, A) == uint32_t((S \div 4) - (P \div 4) + A)
TooFarByOne(result) == result > Field \div 2 /\ result < WordSize - Field \div 2
TooFar(result) == result > Field \div 2 - 1 /\ result < WordSize - Field \div 2
CallWordUncut(w, result) == result + (w \div Field) * Field
CallWord(w, result) == (result % Field) + (w \div Field) * Field

(* The immediate of MOVW and MOVT, imm4:imm12, and the word with another   *)
(* one in its place (wrong: imm4 next to imm12, where Rd is).              *)
MovField(w) == ((w \div Half) % Nibble) * Low + (w % Low)
MovKept(w)  == (w \div (Half * Nibble)) * (Half * Nibble) + ((w \div Low) % Nibble) * Low
MovWordShifted(w, result) == (result % Half) + (w \div Half) * Half
MovWord(w, result) == ((result \div Low) % Nibble) * Half + (result % Low) + MovKept(w)

(* S >>= 16 for the upper half.                                            *)
WholeAddress(type, S) == S
MovValue(type, S) == IF type = "R_ARM_MOVT_ABS" THEN S \div Half ELSE S

(* a | b, where both have bits: those of the two, up to 16 of them.        *)
Bit(x, n) == (x \div Power[n]) % 2 = 1
Merged(a, b) ==
  LET bits[n \in 0 .. 16] ==
        IF n = 0 THEN 0
        ELSE bits[n - 1] + (IF Bit(a, n - 1) \/ Bit(b, n - 1) THEN Power[n - 1] ELSE 0)
  IN bits[16]
Or(a, b) == IF a = 0 THEN b ELSE IF b = 0 THEN a ELSE Merged(a, b)

(* *inst |= value, for a value that lies in the lower n of the word.       *)
OrInto(w, n, value) == (w \div n) * n + Or(w % n, value)

(* R_MIPS_HI16 rounds, since the lower half is added with its sign.        *)
HiTruncated(S, A) == ((S + A) \div Half) % Half
Hi(S, A) == ((S + A + Half \div 2) \div Half) % Half

-----------------------------------------------------------------------------
(* The loop has come to an entry of one of these types.                    *)
Due(types) ==
  /\ pc = "relocate" /\ i \in DOMAIN obj.types /\ obj.types[i] \in types
  /\ UNCHANGED obj

Write(w) == inst' = [inst EXCEPT ![i] = w] /\ i' = i + 1 /\ UNCHANGED pc

NoStub == UNCHANGED stub

Stop == pc' = "aborted" /\ UNCHANGED <<i, inst>>

(* S as an undefined symbol has it after find_sym has been asked; what the *)
(* x86 and MIPS relocators give to setAddress is S itself, an Inst_t.      *)
NeverResolved(S) == S
Resolved(S) == IF S = 0 /\ obj.extern THEN obj.target ELSE S

(* The address a pointer made of an Inst_t is.                             *)
Pointer(S, type) == S % (IF type \in X64Types THEN WordSize * Spaces ELSE WordSize)

ARM_ABS32 ==
  /\ Due({"R_ARM_ABS32"})
  /\ Write(uint32_t(my_addr + inst[i]))
  /\ UNCHANGED my_addr /\ NoStub

(* The test "Stub is still too far", and the branch.                       *)
BranchTo(a) ==
  LET result == CallResult(Inst_t(a), Inst_t(Place(i)), SignExtend(inst[i] % Field))
  IN \/ TooFar(result) /\ Stop
     \/ ~TooFar(result) /\ Write(CallWord(inst[i], result))

(* StubLayout::setStubAddress: "ldr pc, [pc, #-4]" and the address.        *)
LdrPc(offset) == [op |-> "ldr pc, [pc, #offset]", offset |-> offset]
StubWords(at, addr) ==
  [a \in {at, at + 4} |-> IF a = at THEN LdrPc(-4) ELSE addr]

(* R_ARM_CALL of a function with an address, or of an external function    *)
(* that is given a stub.  (Functions of the object are not at address 0.)  *)
ARM_CALL ==
  /\ Due({"R_ARM_CALL"})
  /\ \/ my_addr # 0 /\ BranchTo(my_addr) /\ UNCHANGED my_addr /\ NoStub
     \/ /\ my_addr = 0
        /\ stub' = StubWords(StubTable, obj.target)
        /\ my_addr' = StubTable
        /\ BranchTo(StubTable)

ARM_MOV ==
  /\ Due({"R_ARM_MOVW_ABS_NC", "R_ARM_MOVT_ABS"})
  /\ my_addr' = Resolved(my_addr)
  /\ Write(MovWord(inst[i],
                   uint32_t(MovValue(obj.types[i], Inst_t(my_addr')) + MovField(inst[i]))))
  /\ NoStub

(* S of the x86 and MIPS relocators: the address, cut to an Inst_t.        *)
S_of == Inst_t(Resolved(Inst_t(my_addr)))

(* The addend: the word itself, or on x86_64 that of the entry.            *)
A_of == IF obj.types[i] \in X64Types THEN Inst_t(obj.addend) ELSE Inst_t(inst[i])

(* setAddress is called only if the symbol had none.                       *)
Settle == my_addr' = IF Inst_t(my_addr) = 0 THEN Pointer(S_of, obj.types[i]) ELSE my_addr

(* R_386_32, R_MIPS_32 and their like on x86_64: all 32 bit wide.          *)
Absolute ==
  /\ Due({"R_386_32", "R_MIPS_32", "R_X86_64_64", "R_X86_64_32", "R_X86_64_32S"})
  /\ Settle /\ Write(uint32_t(S_of + A_of)) /\ NoStub

(* The word of a PC-relative entry.                                        *)
PcWordNoAddend(S, A, P) == uint32_t(S - P)
PcWord(S, A, P) == uint32_t(S + A - P)

PcRelative ==
  /\ Due({"R_386_PC32", "R_X86_64_PC32"})
  /\ Settle /\ Write(PcWord(S_of, A_of, Inst_t(Place(i)))) /\ NoStub

MIPS_HI16 ==
  /\ Due({"R_MIPS_HI16"})
  /\ Settle /\ Write(OrInto(inst[i], Half, Hi(S_of, inst[i] % Half))) /\ NoStub

MIPS_LO16 ==
  /\ Due({"R_MIPS_LO16"})
  /\ Settle /\ Write(OrInto(inst[i], Half, (S_of + (inst[i] % Half)) % Half)) /\ NoStub

(* R_MIPS_26: an addend stops the relocator before the word is patched,    *)
(* the comparison of the regions, which is the wrong way round, after.     *)
MIPS_26 ==
  /\ Due({"R_MIPS_26"}) /\ Settle /\ NoStub
  /\ \/ inst[i] % Jump # 0 /\ Stop
     \/ /\ inst[i] % Jump = 0
        /\ inst' = [inst EXCEPT ![i] = OrInto(@, Jump, (S_of \div 4) % Jump)]
        /\ IF Inst_t(Place(i) + 4) \div (4 * Jump) # S_of \div (4 * Jump)
           THEN i' = i + 1 /\ UNCHANGED pc
           ELSE pc' = "aborted" /\ UNCHANGED i

Next ==
  \/ ARM_ABS32 \/ ARM_CALL \/ ARM_MOV
  \/ Absolute \/ PcRelative
  \/ MIPS_HI16 \/ MIPS_LO16 \/ MIPS_26

Spec == Init /\ [][Next]_vars

-----------------------------------------------------------------------------
(* What the processors make of the words. *)

(* The entries that have been patched.                                     *)
Patched(k) == k \in DOMAIN obj.types /\ k < i

OffsetOf(w) == IF w % Field < Field \div 2 THEN w % Field ELSE (w % Field) - Field

(* bl at p: the program counter reads two instructions ahead.              *)
Branch(p, w) == (p + 8 + 4 * OffsetOf(w)) % WordSize

(* Where control comes to that goes to a: on from a stub, whose load also  *)
(* reads the program counter two instructions ahead.                       *)
Arrives(a) ==
  IF a \in DOMAIN stub /\ a = StubTable THEN stub[a + 8 + stub[a].offset] ELSE a

(* The immediates of a movw/movt pair, as they were or are.                *)
MovPair(words, w, t) == MovField(words[t]) * Half + MovField(words[w])

(* lui and addiu, which takes the lower half with its sign.                *)
LowerHalf(w) == IF w % Half < Half \div 2 THEN w % Half ELSE (w % Half) - Half
HiLoPair(h, l) == ((inst[h] % Half) * Half + LowerHalf(inst[l])) % WordSize

-----------------------------------------------------------------------------
(* Words stay words: no field overflows into its neighbours.               *)
TypeOK ==
  /\ \E s \in Shapes : obj \in Objects(s)
  /\ pc \in {"relocate", "aborted"}
  /\ i \in 1 .. Len(obj.types) + 1
  /\ DOMAIN inst = DOMAIN obj.inst
  /\ \A k \in DOMAIN obj.types : inst[k] \in Word
  /\ my_addr \in Nat

(* A patched call arrives where its addend says, counted from the function *)
(* and the processor's pipeline: through the stub with the addend -2 of a  *)
(* plain call, and directly, to a function at a whole word, with any       *)
(* (ELFObject.hxx:159-219 with StubLayout.cpp:60-71).                      *)
BranchArrives ==
  \A k \in DOMAIN obj.types :
    LET A == OffsetOf(obj.inst[k]) IN
    /\ Patched(k) /\ obj.types[k] = "R_ARM_CALL"
    /\ IF my_addr = obj.target THEN obj.target % 4 = 0 ELSE A = -2
    => Arrives(Branch(Place(k), inst[k])) = (obj.target + 4 * (A + 2)) % WordSize

(* The abort "Stub is still too far" (ELFObject.hxx:213-216) means that no *)
(* branch at this place goes where it should, if both lie on one side of   *)
(* the 2 GB boundary, on which the shifts of an Inst_t change their sign.  *)
FarOnlyIfFar ==
  pc = "aborted" /\ obj.types[i] = "R_ARM_CALL" /\ my_addr # 0 /\ my_addr % 4 = 0 =>
    \/ Inst_t(my_addr) < 0 /\ Inst_t(Place(i)) >= 0
    \/ Inst_t(my_addr) >= 0 /\ Inst_t(Place(i)) < 0
    \/ \A w \in 0 .. Field - 1 :
         Branch(Place(i), w) # (my_addr + 4 * (OffsetOf(obj.inst[i]) + 2)) % WordSize

(* A movw/movt pair gives the symbol plus the addend its immediates held,  *)
(* and 2^16 less when the lower halves carry: S is shifted before the      *)
(* addend is added (ELFObject.hxx:230-239).                                *)
MovPairGives ==
  \A w, t \in DOMAIN obj.types :
    /\ Patched(w) /\ obj.types[w] = "R_ARM_MOVW_ABS_NC"
    /\ Patched(t) /\ obj.types[t] = "R_ARM_MOVT_ABS"
    => LET carries == (my_addr % Half) + MovField(obj.inst[w]) >= Half
       IN MovPair(inst, w, t) =
            (my_addr + MovPair(obj.inst, w, t) - (IF carries THEN Half ELSE 0)) % WordSize

(* A lui/addiu pair whose immediates were empty gives the symbol, although *)
(* its lower half is added with a sign (ELFObject.hxx:380-388).            *)
HiLoPairGives ==
  \A h, l \in DOMAIN obj.types :
    /\ Patched(h) /\ obj.types[h] = "R_MIPS_HI16" /\ obj.inst[h] % Half = 0
    /\ Patched(l) /\ obj.types[l] = "R_MIPS_LO16" /\ obj.inst[l] % Half = 0
    => HiLoPair(h, l) = my_addr

(* A PC-relative word leads from its place to the symbol plus the addend:  *)
(* everywhere in a 32 bit address space, and on x86_64, where all of it is *)
(* computed in 32 bits, whenever the distance fits into the word           *)
(* (ELFObject.hxx:290-292, 336-338).                                       *)
PcLeads ==
  \A k \in DOMAIN obj.types :
    /\ Patched(k) /\ obj.types[k] = "R_386_PC32"
       => (Place(k) + inst[k]) % WordSize = (obj.target + obj.inst[k]) % WordSize
    /\ /\ Patched(k) /\ obj.types[k] = "R_X86_64_PC32"
       /\ obj.target + obj.addend - Place(k) \in -MaxInt .. MaxInt - 1
       => Place(k) + Inst_t(inst[k]) = obj.target + obj.addend

(* On x86_64 the symbol of a patched word keeps its whole address, and an  *)
(* absolute word holds it, if it is in the lower 2 GB, which MAP_32BIT is  *)
(* for (MemChunk.cpp:54-57): the cut to 32 bits loses nothing there        *)
(* (ELFObject.hxx:269-278, 285-297).                                       *)
LowAddressExact ==
  \A k \in DOMAIN obj.types :
    /\ Patched(k) /\ obj.types[k] \in X64Types /\ obj.target < MaxInt
    => /\ my_addr = obj.target
       /\ /\ obj.types[k] # "R_X86_64_PC32"
          /\ obj.target + obj.addend \in 0 .. MaxInt - 1
          => inst[k] = obj.target + obj.addend

(* Patching changes the field and nothing else: the operation, condition   *)
(* and registers of an instruction are what the compiler has written       *)
(* (ELFObject.hxx:218, 237-239, 382, 387, 394).                            *)
OtherBitsKept ==
  \A k \in DOMAIN obj.types :
    /\ obj.types[k] = "R_ARM_CALL" => inst[k] \div Field = obj.inst[k] \div Field
    /\ obj.types[k] \in {"R_ARM_MOVW_ABS_NC", "R_ARM_MOVT_ABS"} =>
         /\ inst[k] \div (Half * Nibble) = obj.inst[k] \div (Half * Nibble)
         /\ (inst[k] \div Low) % Nibble = (obj.inst[k] \div Low) % Nibble
    /\ obj.types[k] \in {"R_MIPS_HI16", "R_MIPS_LO16"} =>
         inst[k] \div Half = obj.inst[k] \div Half
    /\ obj.types[k] = "R_MIPS_26" => inst[k] \div Jump = obj.inst[k] \div Jump
===============================================================================
