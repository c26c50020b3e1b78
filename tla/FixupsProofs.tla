----------------------------- MODULE FixupsProofs -----------------------------
(***************************************************************************)
(* The relocated words mean what they should, for every width of words and *)
(* fields and for every object of one or two entries: where a call or a    *)
(* PC-relative word leads, what a pair of halves adds up to, and that a    *)
(* call given up as too far is too far.                                    *)
(***************************************************************************)
EXTENDS Fixups, NumberFacts

-----------------------------------------------------------------------------
(* The sizes. *)

LEMMA Words ==
  /\ WordSize \in Nat \ {0} /\ MaxInt \in Nat \ {0} /\ WordSize = 2 * MaxInt
  /\ WordSize % 4 = 0
<1>1. WordSize \in Nat \ {0}
  BY FixupsAssumption DEF WordSize
<1>2. WordSize % 4 = 0
  <2>1. PICK j \in Nat : j = Jump * Regions
    BY FixupsAssumption
  <2>2. (4 * Jump) * Regions = 4 * j
    BY <2>1, FixupsAssumption
  <2>3. WordSize = 4 * j
    BY <2>2, FixupsAssumption
  <2> QED BY <2>3
<1>3. WordSize = 2 * MaxInt /\ MaxInt \in Nat \ {0}
  BY <1>1, <1>2 DEF MaxInt
<1> QED BY <1>1, <1>2, <1>3

LEMMA Halves ==
  /\ Half \in Nat \ {0} /\ Half \div 2 \in Nat /\ Half = 2 * (Half \div 2)
  /\ Nibble \in Nat \ {0} /\ Low \in Nat \ {0}
<1>1. Half \in Nat \ {0}
  BY FixupsAssumption DEF Half
<1> QED BY <1>1, FixupsAssumption

LEMMA Fields ==
  /\ Field \in Nat \ {0} /\ Field \div 2 \in Nat /\ Field = 2 * (Field \div 2)
  /\ OpSize \in Nat /\ OpSize >= 8
BY FixupsAssumption

LEMMA Products ==
  /\ WordSize = Half * Half /\ WordSize = Field * OpSize /\ Half = Low * Nibble
  /\ WordSize >= 8 * Field
<1>1. Field * OpSize >= 8 * Field
  <2>1. PICK j \in Nat : OpSize = 8 + j
    BY Fields
  <2>2. Field * OpSize = Field * 8 + Field * j /\ Field * j \in Nat
    BY <2>1, Fields
  <2> QED BY <2>2, Fields
<1> QED BY <1>1, FixupsAssumption DEF WordSize, Half

(* A cast keeps what matters modulo the size of a word.                    *)
LEMMA Cast ==
  ASSUME NEW x \in Int
  PROVE  /\ uint32_t(x) \in Word /\ Same(WordSize, uint32_t(x), x)
         /\ Inst_t(x) \in -MaxInt .. MaxInt - 1 /\ Same(WordSize, Inst_t(x), x)
         /\ x \in 0 .. MaxInt - 1 => Inst_t(x) = x
<1>1. PICK r, q : r = x % WordSize /\ q = x \div WordSize
  OBVIOUS
<1>2. r \in 0 .. WordSize - 1 /\ q \in Int /\ x = WordSize * q + r
  BY <1>1, Words, DivMod
<1>3. Same(WordSize, r, x)
  <2>1. PICK j \in Int : j = -q
    BY <1>2
  <2>2. WordSize * j = -(WordSize * q) /\ WordSize * q \in Int
    BY <1>2, <2>1, Words
  <2>3. r = x + WordSize * j
    BY <1>2, <2>2
  <2> QED BY <2>3 DEF Same
<1>4. Same(WordSize, r - WordSize, x)
  <2>1. PICK j \in Int : j = -1 - q
    BY <1>2
  <2>2. WordSize * j = -WordSize - WordSize * q /\ WordSize * q \in Int
    BY <1>2, <2>1, Words
  <2>3. r - WordSize = x + WordSize * j
    BY <1>2, <2>2, Words
  <2> QED BY <2>3 DEF Same
<1>5. x \in 0 .. MaxInt - 1 => x % WordSize = x
  BY Words
<1> QED BY <1>1, <1>2, <1>3, <1>4, <1>5, Words DEF uint32_t, Inst_t, Word

(* Congruent numbers are cast to the same.                                 *)
LEMMA CastSame ==
  ASSUME NEW x \in Int, NEW y \in Int, Same(WordSize, x, y)
  PROVE  Inst_t(x) = Inst_t(y) /\ uint32_t(x) = uint32_t(y)
<1>1. WordSize \in Nat \ {0}
  BY Words
<1>2. x % WordSize = y % WordSize
  BY <1>1, SameThenRest
<1> QED BY <1>2 DEF Inst_t, uint32_t

-----------------------------------------------------------------------------
(* The objects. *)

Of(machine) == \A k \in DOMAIN obj.types : obj.types[k] \in machine

(* What every object is, from the assumption on the shapes.                *)
GoodObject ==
  /\ Of(ARMTypes) \/ Of(X86Types) \/ Of(X64Types) \/ Of(MIPSTypes)
  /\ Len(obj.types) \in 1 .. 2 /\ DOMAIN obj.types = 1 .. Len(obj.types)
  /\ obj.inst \in [DOMAIN obj.types -> Word]
  /\ obj.addend \in Int /\ obj.extern \in BOOLEAN
  /\ obj.place \in Nat /\ obj.place % 4 = 0 /\ obj.target \in Nat
  /\ obj.target % WordSize # 0 \/ obj.extern
  /\ Of(X64Types) => obj.target < WordSize * Spaces
  /\ ~Of(X64Types) => obj.target \in Word /\ obj.place + 15 \in Word

LEMMA Objects_Good ==
  ASSUME NEW s \in Shapes, obj \in Objects(s)
  PROVE  GoodObject
<1>1. /\ obj.place \in s.places /\ obj.target \in s.targets /\ obj.extern \in s.externs
      /\ obj.types = s.types /\ obj.inst \in [DOMAIN s.types -> s.words]
      /\ obj.addend \in s.addends
  BY DEF Objects
<1>2. PICK machine \in {ARMTypes, X86Types, X64Types, MIPSTypes} : s.types \in Seq(machine)
  BY FixupsAssumption
<1>3. /\ Len(s.types) \in 1 .. 2 /\ DOMAIN s.types = 1 .. Len(s.types)
      /\ \A k \in DOMAIN s.types : s.types[k] \in machine
  <2>1. Len(s.types) \in 1 .. 2
    BY FixupsAssumption
  <2>2. PICK q \in Seq(machine) : q = s.types
    BY <1>2
  <2>3. DOMAIN q = 1 .. Len(q) /\ \A k \in DOMAIN q : q[k] \in machine
    OBVIOUS
  <2> QED BY <2>1, <2>2, <2>3
<1>4. 1 \in DOMAIN s.types
  BY <1>3
<1>5. /\ obj.inst \in [DOMAIN obj.types -> Word] /\ obj.addend \in Int
      /\ obj.extern \in BOOLEAN
  BY <1>1, FixupsAssumption
<1>6. /\ obj.place % 4 = 0 /\ {obj.place, obj.place + 15} \subseteq Addresses(s.types[1])
      /\ obj.target \in Addresses(s.types[1])
      /\ obj.target % WordSize # 0 \/ obj.extern
  <2>1. s.externs = {TRUE} => obj.extern
    <3>1. obj.extern \in s.externs
      BY <1>1
    <3>2. s.externs = {TRUE} => obj.extern = TRUE
      BY <3>1
    <3> QED BY <3>2, Zenon
  <2> QED BY <1>1, <1>4, <2>1, FixupsAssumption
<1>7. obj.place \in Nat /\ obj.target \in Nat
  BY <1>6, Words, FixupsAssumption DEF Addresses, Word
<1>8. Of(machine)
  BY <1>1, <1>3 DEF Of
<1>9. Of(X64Types) => obj.target < WordSize * Spaces
  BY <1>1, <1>4, <1>6, <1>7, Words, FixupsAssumption DEF Of, Addresses
<1>10. ~Of(X64Types) => obj.target \in Word /\ obj.place + 15 \in Word
  <2>1. ASSUME ~Of(X64Types) PROVE s.types[1] \notin X64Types
    BY <1>2, <1>3, <1>4, <1>8, <2>1 DEF ARMTypes, X86Types, X64Types, MIPSTypes
  <2> QED BY <1>6, <2>1 DEF Addresses
<1>11. Of(ARMTypes) \/ Of(X86Types) \/ Of(X64Types) \/ Of(MIPSTypes)
  BY <1>2, <1>8
<1> QED BY <1>1, <1>3, <1>5, <1>6, <1>7, <1>9, <1>10, <1>11 DEF GoodObject

(* The type of any entry tells the machine.                                *)
LEMMA Machines ==
  ASSUME GoodObject, NEW k \in DOMAIN obj.types
  PROVE  /\ obj.types[k] \in ARMTypes <=> Of(ARMTypes)
         /\ obj.types[k] \in X86Types <=> Of(X86Types)
         /\ obj.types[k] \in X64Types <=> Of(X64Types)
         /\ obj.types[k] \in MIPSTypes <=> Of(MIPSTypes)
BY DEF GoodObject, Of, ARMTypes, X86Types, X64Types, MIPSTypes

-----------------------------------------------------------------------------
(* x86, x86_64 and MIPS: the symbol. *)

(* The loop has not come to the word yet.                                  *)
Waiting(k) == k \in DOMAIN obj.types /\ (k > i \/ (k = i /\ pc = "relocate"))

Common ==
  /\ GoodObject /\ i \in Nat \ {0} /\ DOMAIN inst = DOMAIN obj.types
  /\ \A k \in DOMAIN obj.types : Waiting(k) => inst[k] = obj.inst[k]
  /\ pc = "aborted" => i \in DOMAIN obj.types

(* What is in reach of a word without loss.                                *)
Small == ~Of(X64Types) \/ obj.target < MaxInt

(* The cached address: none yet, or that of the symbol but for the part    *)
(* that does not fit into a word.                                          *)
Bound ==
  /\ my_addr \in Nat
  /\ Same(WordSize, my_addr, obj.target) \/ (my_addr = 0 /\ obj.extern)
  /\ Small => my_addr = obj.target \/ (my_addr = 0 /\ obj.extern /\ i = 1)

LEMMA Symbol ==
  ASSUME Common, Bound
  PROVE  S_of = Inst_t(obj.target)
<1>1. my_addr \in Int /\ obj.target \in Int /\ 0 \in Int /\ WordSize \in Nat \ {0}
  BY Words DEF Common, GoodObject, Bound
<1>2. Inst_t(0) = 0
  BY Cast, Words
<1>3. PICK c \in -MaxInt .. MaxInt - 1 : c = Inst_t(my_addr) /\ Same(WordSize, c, my_addr)
  BY <1>1, Cast
<1>4. CASE c = 0 /\ obj.extern
  BY <1>3, <1>4 DEF S_of, Resolved
<1>5. CASE c = 0 /\ ~obj.extern
  <2>1. Same(WordSize, my_addr, obj.target)
    BY <1>5 DEF Bound
  <2>2. Same(WordSize, 0, obj.target)
    BY <1>1, <1>3, <1>5, <2>1, SameChain
  <2>3. 0 % WordSize = obj.target % WordSize
    BY <1>1, <2>2, SameThenRest
  <2> QED BY <1>1, <1>5, <2>3 DEF Common, GoodObject
<1>6. CASE c # 0
  <2>1. my_addr # 0
    BY <1>2, <1>3, <1>6
  <2>2. Same(WordSize, my_addr, obj.target)
    BY <2>1 DEF Bound
  <2>3. S_of = Inst_t(c) /\ c \in Int
    BY <1>3, <1>6 DEF S_of, Resolved
  <2>4. Same(WordSize, c, obj.target)
    BY <1>1, <1>3, <2>2, <2>3, SameChain
  <2>5. Inst_t(c) = Inst_t(obj.target)
    BY <1>1, <2>3, <2>4, CastSame
  <2> QED BY <2>3, <2>5
<1> QED BY <1>4, <1>5, <1>6

(* setAddress is given a congruent address, and all of one in reach.       *)
LEMMA Settled ==
  ASSUME Common, Bound, i \in DOMAIN obj.types, Settle
  PROVE  /\ my_addr' \in Nat /\ Same(WordSize, my_addr', obj.target)
         /\ Small => my_addr' = obj.target
<1>1. /\ my_addr \in Nat /\ obj.target \in Int /\ obj.target \in Nat
      /\ WordSize \in Nat \ {0} /\ Spaces \in Nat \ {0}
  BY Words, FixupsAssumption DEF Common, GoodObject, Bound
<1>2. PICK a \in -MaxInt .. MaxInt - 1 : a = Inst_t(obj.target) /\ Same(WordSize, a, obj.target)
  BY <1>1, Cast
<1>3. CASE Inst_t(my_addr) # 0
  <2>1. my_addr # 0
    BY <1>3, Cast, Words
  <2>2. my_addr' = my_addr
    BY <1>3 DEF Settle
  <2> QED BY <1>1, <2>1, <2>2 DEF Bound
<1>4. CASE Inst_t(my_addr) = 0 /\ Of(X64Types)
  <2>1. PICK m \in Nat \ {0} : m = WordSize * Spaces
    BY <1>1
  <2>2. my_addr' = a % m
    BY <1>2, <1>4, <2>1, Symbol, Machines DEF Settle, Pointer, Common
  <2>3. my_addr' \in Nat /\ a \in Int
    BY <2>2, DivMod
  <2>4. (a % m) % m = a % m
    BY <2>1, <2>3
  <2>5. Same(m, my_addr', a)
    BY <2>2, <2>3, <2>4, RestThenSame
  <2>6. Same(WordSize, my_addr', a)
    BY <1>1, <2>1, <2>3, <2>5, Coarser
  <2>7. Same(WordSize, my_addr', obj.target)
    BY <1>1, <1>2, <2>3, <2>6, SameChain
  <2>8. ASSUME Small PROVE my_addr' = obj.target
    <3>1. obj.target < MaxInt /\ obj.target < m
      BY <1>4, <2>1, <2>8 DEF Small, Common, GoodObject
    <3>2. a = obj.target
      BY <1>1, <1>2, <3>1, Cast, Words
    <3> QED BY <1>1, <2>2, <3>1, <3>2
  <2> QED BY <2>3, <2>7, <2>8
<1>5. CASE Inst_t(my_addr) = 0 /\ ~Of(X64Types)
  <2>1. my_addr' = a % WordSize
    BY <1>2, <1>5, Symbol, Machines DEF Settle, Pointer, Common
  <2>2. obj.target \in 0 .. WordSize - 1
    BY <1>5 DEF Common, GoodObject, Word
  <2>3. a \in Int
    BY Words
  <2>4. a % WordSize = obj.target
    BY <1>1, <1>2, <2>2, <2>3, Rest
  <2>5. Same(WordSize, obj.target, obj.target)
    BY <1>1, SameSelf
  <2> QED BY <1>1, <2>1, <2>4, <2>5
<1> QED BY <1>3, <1>4, <1>5

(* The word an entry of these machines is given.                           *)
Value(k) ==
  LET S == Inst_t(obj.target)
      w == obj.inst[k]
      A == IF obj.types[k] \in X64Types THEN Inst_t(obj.addend) ELSE Inst_t(w)
  IN CASE obj.types[k] \in {"R_386_PC32", "R_X86_64_PC32"} -> PcWord(S, A, Inst_t(Place(k)))
       [] obj.types[k] = "R_MIPS_HI16" -> OrInto(w, Half, Hi(S, w % Half))
       [] obj.types[k] = "R_MIPS_LO16" -> OrInto(w, Half, (S + (w % Half)) % Half)
       [] obj.types[k] = "R_MIPS_26" -> OrInto(w, Jump, (S \div 4) % Jump)
       [] OTHER -> uint32_t(S + A)

Done == \A k \in DOMAIN obj.types : Patched(k) => inst[k] = Value(k)

(* The loop writes a word and goes on, or stops.                           *)
Writes(w) ==
  /\ obj' = obj /\ i \in DOMAIN obj.types /\ pc = "relocate"
  /\ \/ /\ inst' = [inst EXCEPT ![i] = w]
        /\ (i' = i + 1 /\ pc' = pc) \/ (i' = i /\ pc' = "aborted")
     \/ inst' = inst /\ i' = i /\ pc' = "aborted"

LEMMA Written ==
  ASSUME Common, NEW w, Writes(w)
  PROVE  /\ Common' /\ i' >= i
         /\ \A k \in DOMAIN obj.types : Patched(k)' =>
              IF k = i THEN inst'[k] = w ELSE Patched(k) /\ inst'[k] = inst[k]
<1>1. GoodObject' <=> GoodObject
  BY DEF Writes, GoodObject, Of
<1>2. i \in 1 .. 2 /\ DOMAIN obj.types = 1 .. Len(obj.types) /\ Len(obj.types) \in 1 .. 2
  <2>1. DOMAIN obj.types = 1 .. Len(obj.types) /\ Len(obj.types) \in 1 .. 2
    BY DEF Common, GoodObject
  <2>2. PICK n \in 1 .. 2 : n = Len(obj.types)
    BY <2>1
  <2>3. i \in 1 .. n
    BY <2>1, <2>2 DEF Writes
  <2>4. i \in 1 .. 2
    BY <2>3
  <2> QED BY <2>1, <2>4
<1>3. DOMAIN inst' = DOMAIN inst
  BY DEF Writes
<1>4. i' \in Nat \ {0} /\ i' >= i
  BY <1>2 DEF Writes
<1>5. ASSUME NEW k \in DOMAIN obj.types, Waiting(k)'
      PROVE  Waiting(k) /\ k # i
  <2>1. obj' = obj /\ pc = "relocate" /\ (i' = i + 1 \/ (i' = i /\ pc' = "aborted"))
    BY DEF Writes
  <2>2. k > i' \/ (k = i' /\ pc' = "relocate")
    BY <1>5 DEF Waiting
  <2>3. k > i /\ k \in Int
    BY <1>2, <2>1, <2>2
  <2> QED BY <1>2, <2>3 DEF Waiting
<1>6. \A k \in DOMAIN obj.types : k # i => inst'[k] = inst[k]
  BY DEF Writes, Common
<1>7. Common'
  <2>1. pc' = "aborted" => i' \in DOMAIN obj.types
    BY DEF Writes
  <2> QED BY <1>1, <1>3, <1>4, <1>5, <1>6, <2>1 DEF Common, Writes
<1>8. ASSUME NEW k \in DOMAIN obj.types, Patched(k)'
      PROVE  IF k = i THEN inst'[k] = w ELSE Patched(k) /\ inst'[k] = inst[k]
  BY <1>2, <1>6, <1>8 DEF Writes, Patched, Common
<1> QED BY <1>4, <1>7, <1>8

(* Every step of these machines settles the symbol, and writes the word or *)
(* stops.                                                                  *)
LEMMA OthersWrite ==
  ASSUME Common, Bound, ~Of(ARMTypes), Next
  PROVE  Settle /\ Writes(Value(i))
<1>1. /\ i \in DOMAIN obj.types /\ obj' = obj /\ pc = "relocate"
      /\ obj.types[i] \notin ARMTypes
  <2>1. i \in DOMAIN obj.types /\ obj' = obj /\ pc = "relocate"
    BY DEF Next, ARM_ABS32, ARM_CALL, ARM_MOV, Absolute, PcRelative, MIPS_HI16, MIPS_LO16,
           MIPS_26, Due
  <2> QED BY <2>1, Machines DEF Common
<1>2. S_of = Inst_t(obj.target) /\ inst[i] = obj.inst[i]
  BY <1>1, Symbol DEF Common, Waiting
<1>3. ~ARM_ABS32 /\ ~ARM_CALL /\ ~ARM_MOV
  BY <1>1 DEF ARM_ABS32, ARM_CALL, ARM_MOV, Due, ARMTypes
<1>4. CASE Absolute
  <2>1. obj.types[i] \in {"R_386_32", "R_MIPS_32", "R_X86_64_64", "R_X86_64_32", "R_X86_64_32S"}
    BY <1>4 DEF Absolute, Due
  <2>2. Value(i) = uint32_t(S_of + A_of)
    BY <1>2, <2>1 DEF Value, A_of
  <2> QED BY <1>1, <1>4, <2>2 DEF Absolute, Write, Writes
<1>5. CASE PcRelative
  <2>1. obj.types[i] \in {"R_386_PC32", "R_X86_64_PC32"}
    BY <1>5 DEF PcRelative, Due
  <2>2. Value(i) = PcWord(S_of, A_of, Inst_t(Place(i)))
    BY <1>2, <2>1 DEF Value, A_of
  <2> QED BY <1>1, <1>5, <2>2 DEF PcRelative, Write, Writes
<1>6. CASE MIPS_HI16
  <2>1. obj.types[i] = "R_MIPS_HI16"
    BY <1>6 DEF MIPS_HI16, Due
  <2>2. Value(i) = OrInto(inst[i], Half, Hi(S_of, inst[i] % Half))
    BY <1>2, <2>1 DEF Value
  <2> QED BY <1>1, <1>6, <2>2 DEF MIPS_HI16, Write, Writes
<1>7. CASE MIPS_LO16
  <2>1. obj.types[i] = "R_MIPS_LO16"
    BY <1>7 DEF MIPS_LO16, Due
  <2>2. Value(i) = OrInto(inst[i], Half, (S_of + (inst[i] % Half)) % Half)
    BY <1>2, <2>1 DEF Value
  <2> QED BY <1>1, <1>7, <2>2 DEF MIPS_LO16, Write, Writes
<1>8. CASE MIPS_26
  <2>1. obj.types[i] = "R_MIPS_26"
    BY <1>8 DEF MIPS_26, Due
  <2>2. Value(i) = OrInto(inst[i], Jump, (S_of \div 4) % Jump)
    BY <1>2, <2>1 DEF Value
  <2>3. i \in DOMAIN inst
    BY <1>1 DEF Common
  <2> QED BY <1>1, <1>8, <2>2, <2>3 DEF MIPS_26, Stop, Writes
<1> QED BY <1>3, <1>4, <1>5, <1>6, <1>7, <1>8 DEF Next

LEMMA OthersStep ==
  ASSUME Common, ~Of(ARMTypes), Bound, Done, Next
  PROVE  Common' /\ Bound' /\ Done'
<1>1. PICK w : w = Value(i)
  OBVIOUS
<1>2. Settle /\ Writes(w) /\ obj' = obj /\ i \in DOMAIN obj.types
  BY <1>1, OthersWrite DEF Writes
<1>3. /\ Common' /\ i' >= i
      /\ \A k \in DOMAIN obj.types : Patched(k)' =>
           IF k = i THEN inst'[k] = w ELSE Patched(k) /\ inst'[k] = inst[k]
  BY <1>2, Written
<1>4. Bound'
  <2>1. /\ my_addr' \in Nat /\ Same(WordSize, my_addr', obj.target)
        /\ Small => my_addr' = obj.target
    BY <1>2, Settled
  <2>2. Small' <=> Small
    BY <1>2 DEF Small, Of
  <2> QED BY <1>2, <2>1, <2>2 DEF Bound
<1>5. \A k \in DOMAIN obj.types : Value(k)' = Value(k)
  BY <1>2 DEF Value, Place
<1>6. Done'
  BY <1>1, <1>2, <1>3, <1>5 DEF Done
<1> QED BY <1>3, <1>4, <1>6

-----------------------------------------------------------------------------
(* x86, x86_64 and MIPS: what the words mean. *)

LEMMA Congruences ==
  ASSUME NEW x \in Int, NEW y \in Int, NEW z \in Int
  PROVE  /\ Same(WordSize, uint32_t(Inst_t(x) + Inst_t(y)), x + y)
         /\ uint32_t(Inst_t(x) + Inst_t(y)) \in Word
         /\ Same(WordSize, PcWord(Inst_t(x), Inst_t(y), Inst_t(z)), x + y - z)
         /\ PcWord(Inst_t(x), Inst_t(y), Inst_t(z)) \in Word
<1>1. PICK m \in Nat \ {0} : m = WordSize
  BY Words
<1>2. PICK a \in Int, b \in Int, c \in Int :
        /\ a = Inst_t(x) /\ b = Inst_t(y) /\ c = Inst_t(z)
        /\ Same(m, a, x) /\ Same(m, b, y) /\ Same(m, c, z)
  <2>1. /\ Inst_t(x) \in Int /\ Inst_t(y) \in Int /\ Inst_t(z) \in Int
        /\ Same(WordSize, Inst_t(x), x) /\ Same(WordSize, Inst_t(y), y)
        /\ Same(WordSize, Inst_t(z), z)
    BY Cast, Words
  <2> QED BY <1>1, <2>1
<1>3. PICK d \in Int, u \in Int : d = a + b /\ u = x + y
  OBVIOUS
<1>4. PICK e \in Int, v \in Int : e = d - c /\ v = u - z
  OBVIOUS
<1>5. Same(m, d, u)
  BY <1>2, <1>3, SameSum
<1>6. Same(m, e, v)
  BY <1>2, <1>4, <1>5, SameDifference
<1>7. /\ Same(m, uint32_t(d), d) /\ Same(m, uint32_t(e), e)
      /\ uint32_t(d) \in Word /\ uint32_t(e) \in Word
  BY <1>1, Cast
<1>8. uint32_t(d) \in Int /\ uint32_t(e) \in Int
  BY <1>7, Words DEF Word
<1>9. Same(m, uint32_t(d), u) /\ Same(m, uint32_t(e), v)
  BY <1>5, <1>6, <1>7, <1>8, SameChain
<1>10. PcWord(a, b, c) = uint32_t(e)
  BY <1>3, <1>4 DEF PcWord
<1> QED BY <1>1, <1>2, <1>3, <1>4, <1>7, <1>9, <1>10

LEMMA PcLeadsThere ==
  ASSUME Common, Done
  PROVE  PcLeads
<1>1. /\ WordSize \in Nat \ {0} /\ obj.target \in Int /\ obj.addend \in Int
      /\ \A k \in DOMAIN obj.types : obj.inst[k] \in Int /\ Place(k) \in Int
  BY Words DEF Common, GoodObject, Word, Place
<1>2. ASSUME NEW k \in DOMAIN obj.types, Patched(k), obj.types[k] = "R_386_PC32"
      PROVE  (Place(k) + inst[k]) % WordSize = (obj.target + obj.inst[k]) % WordSize
  <2>1. PICK t \in Int, a \in Int, p \in Int, w \in Int :
          t = obj.target /\ a = obj.inst[k] /\ p = Place(k)
          /\ w = inst[k] /\ Same(WordSize, w, t + a - p)
    <3>1. Value(k) = PcWord(Inst_t(obj.target), Inst_t(obj.inst[k]), Inst_t(Place(k)))
      BY <1>2 DEF Value, X64Types
    <3>2. inst[k] \in Word /\ Same(WordSize, inst[k], obj.target + obj.inst[k] - Place(k))
      BY <1>1, <1>2, <3>1, Congruences DEF Done
    <3>3. /\ inst[k] \in Int /\ obj.target \in Int /\ obj.inst[k] \in Int
          /\ Place(k) \in Int
      BY <1>1, <3>2, Words DEF Word
    <3> QED BY <3>2, <3>3, Zenon
  <2>2. PICK d \in Int : d = t + a - p
    OBVIOUS
  <2>3. Same(WordSize, p + w, p + d)
    BY <1>1, <2>1, <2>2, SameSelf, SameSum
  <2>4. p + d = t + a
    BY <2>2
  <2>5. PICK x \in Int, y \in Int : x = p + w /\ y = t + a
    OBVIOUS
  <2>6. x % WordSize = y % WordSize
    BY <1>1, <2>3, <2>4, <2>5, SameThenRest
  <2> QED BY <2>1, <2>5, <2>6
<1>3. ASSUME NEW k \in DOMAIN obj.types, Patched(k), obj.types[k] = "R_X86_64_PC32",
             obj.target + obj.addend - Place(k) \in -MaxInt .. MaxInt - 1
      PROVE  Place(k) + Inst_t(inst[k]) = obj.target + obj.addend
  <2>1. PICK d \in -MaxInt .. MaxInt - 1 : d = obj.target + obj.addend - Place(k)
    BY <1>3
  <2>2. inst[k] \in Word /\ Same(WordSize, inst[k], d)
    <3>1. Value(k) = PcWord(Inst_t(obj.target), Inst_t(obj.addend), Inst_t(Place(k)))
      BY <1>3 DEF Value, X64Types
    <3> QED BY <1>1, <1>3, <2>1, <3>1, Congruences DEF Done
  <2>3. inst[k] \in Int /\ d \in Int
    BY <2>2, Words DEF Word
  <2>4. PICK v \in -MaxInt .. MaxInt - 1 : v = Inst_t(inst[k]) /\ Same(WordSize, v, inst[k])
    BY <2>3, Cast
  <2>5. v \in Int
    BY Words
  <2>6. Same(WordSize, v, d)
    BY <1>1, <2>2, <2>3, <2>4, <2>5, SameChain
  <2>7. v - d < WordSize /\ d - v < WordSize
    BY Words
  <2>8. v = d
    BY <1>1, <2>3, <2>5, <2>6, <2>7, Close
  <2> QED BY <1>1, <2>1, <2>4, <2>8
<1> QED BY <1>2, <1>3 DEF PcLeads

LEMMA LowAddressKept ==
  ASSUME Common, Bound, Done
  PROVE  LowAddressExact
<1> SUFFICES ASSUME NEW k \in DOMAIN obj.types, Patched(k), obj.types[k] \in X64Types,
                    obj.target < MaxInt
             PROVE  /\ my_addr = obj.target
                    /\ /\ obj.types[k] # "R_X86_64_PC32"
                       /\ obj.target + obj.addend \in 0 .. MaxInt - 1
                       => inst[k] = obj.target + obj.addend
  BY DEF LowAddressExact
<1>1. WordSize \in Nat \ {0} /\ obj.target \in Int /\ obj.addend \in Int /\ i > 1
  <2>1. k \in Nat \ {0} /\ i \in Nat /\ k < i
    BY DEF Common, GoodObject, Patched
  <2>2. i > 1
    BY <2>1
  <2> QED BY <2>2, Words DEF Common, GoodObject
<1>2. my_addr = obj.target
  BY <1>1 DEF Bound, Small
<1>3. ASSUME obj.types[k] # "R_X86_64_PC32", obj.target + obj.addend \in 0 .. MaxInt - 1
      PROVE  inst[k] = obj.target + obj.addend
  <2>1. PICK v \in 0 .. MaxInt - 1 : v = obj.target + obj.addend
    BY <1>3
  <2>2. Value(k) = uint32_t(Inst_t(obj.target) + Inst_t(obj.addend))
    BY <1>3 DEF Value, X64Types
  <2>3. inst[k] \in Word /\ Same(WordSize, inst[k], v)
    BY <1>1, <2>1, <2>2, Congruences DEF Done
  <2>4. /\ inst[k] \in Int /\ v \in Int
        /\ inst[k] - v < WordSize /\ v - inst[k] < WordSize
    BY <2>3, Words DEF Word
  <2>5. inst[k] = v
    BY <1>1, <2>3, <2>4, Close
  <2> QED BY <2>1, <2>5
<1> QED BY <1>2, <1>3

(* The two halves of a number, the upper one rounded.                      *)
LEMMA HiAndLo ==
  ASSUME NEW S \in Int, NEW h, NEW l, h = Hi(S, 0), l = S % Half
  PROVE  /\ h \in 0 .. Half - 1 /\ l \in 0 .. Half - 1
         /\ Same(WordSize, h * Half + (IF l < Half \div 2 THEN l ELSE l - Half), S)
<1>1. PICK m \in Nat \ {0}, c \in Nat : m = Half /\ c = Half \div 2 /\ m = 2 * c
  BY Halves
<1>2. PICK q \in Int, r \in 0 .. m - 1 : q = S \div m /\ r = S % m /\ S = m * q + r
  BY DivMod
<1>3. PICK T \in Int : T = S + 0 + c
  OBVIOUS
<1>4. PICK p \in Int, s \in 0 .. m - 1 :
        /\ T = m * p + s
        /\ IF r < c THEN p = q ELSE p = q + 1
  <2>1. CASE r < c
    <3>1. T = m * q + (r + c) /\ r + c \in 0 .. m - 1
      BY <1>1, <1>2, <1>3, <2>1
    <3> QED BY <2>1, <3>1
  <2>2. CASE r >= c
    <3>1. m * (q + 1) = m * q + m /\ m * q \in Int
      BY <1>2
    <3>2. T = m * (q + 1) + (r - c) /\ r - c \in 0 .. m - 1 /\ q + 1 \in Int
      BY <1>1, <1>2, <1>3, <2>2, <3>1
    <3>3. ~(r < c)
      BY <2>2
    <3> QED BY <3>2, <3>3
  <2> QED BY <2>1, <2>2
<1>5. T \div m = p
  BY <1>4, Unique
<1>6. PICK n \in Int, u \in 0 .. m - 1 : n = p \div m /\ u = p % m /\ p = m * n + u
  BY DivMod
<1>7. h = u /\ l = r
  BY <1>1, <1>2, <1>3, <1>5, <1>6 DEF Hi
<1>8. m * p = m * (m * n) + m * u
  BY <1>6
<1>9. m * (m * n) = (m * m) * n /\ m * u \in Int /\ m * m \in Int
  OBVIOUS
<1>10. PICK e \in Int : e = IF r < c THEN r ELSE r - m
  OBVIOUS
<1>11. S = m * p + e
  <2>1. CASE r < c
    BY <1>2, <1>4, <1>10, <2>1
  <2>2. CASE ~(r < c)
    <3>1. m * p = m * q + m /\ m * q \in Int
      BY <1>4, <2>2
    <3> QED BY <1>2, <1>10, <2>2, <3>1
  <2> QED BY <2>1, <2>2
<1>12. PICK W \in Int : W = m * m
  BY <1>9
<1>13. PICK j \in Int : j = -n
  OBVIOUS
<1>14. (u * m + e) = S + W * j
  <2>1. W * j = -(W * n) /\ W * n \in Int
    BY <1>12, <1>13
  <2>2. S = W * n + m * u + e
    BY <1>8, <1>9, <1>11, <1>12
  <2>3. u * m = m * u
    OBVIOUS
  <2> QED BY <1>9, <2>1, <2>2, <2>3
<1>15. W = WordSize
  BY <1>1, <1>12, Products
<1>16. Same(WordSize, u * m + e, S)
  BY <1>14, <1>15 DEF Same
<1> QED BY <1>1, <1>2, <1>6, <1>7, <1>10, <1>16

(* A value put into an empty lower half.                                   *)
LEMMA LowerHalfSet ==
  ASSUME NEW w \in Int, NEW v \in 0 .. Half - 1, w % Half = 0
  PROVE  OrInto(w, Half, v) % Half = v
<1>1. PICK m \in Nat \ {0}, q \in Int : m = Half /\ q = w \div m
  BY Halves, DivMod
<1>2. OrInto(w, m, v) = q * m + v
  BY <1>1 DEF OrInto, Or
<1>3. PICK x \in Int : x = q * m + v
  OBVIOUS
<1>4. x = v + m * q
  BY <1>3
<1>5. Same(m, x, v)
  BY <1>4 DEF Same
<1>6. x % m = v
  BY <1>1, <1>5, Rest
<1> QED BY <1>1, <1>2, <1>3, <1>6

LEMMA HiLoPairSum ==
  ASSUME Common, Bound, Done
  PROVE  HiLoPairGives
<1> SUFFICES ASSUME NEW h \in DOMAIN obj.types, NEW l \in DOMAIN obj.types,
                    Patched(h), obj.types[h] = "R_MIPS_HI16", obj.inst[h] % Half = 0,
                    Patched(l), obj.types[l] = "R_MIPS_LO16", obj.inst[l] % Half = 0
             PROVE  HiLoPair(h, l) = my_addr
  BY DEF HiLoPairGives
<1>1. /\ WordSize \in Nat \ {0} /\ Half \in Nat \ {0} /\ obj.target \in 0 .. WordSize - 1
      /\ my_addr = obj.target /\ obj.inst[h] \in Int /\ obj.inst[l] \in Int
  <2>1. ~Of(X64Types)
    BY DEF Of, X64Types
  <2>2. h \in Nat \ {0} /\ i \in Nat /\ h < i
    BY DEF Common, GoodObject, Patched
  <2>3. i # 1
    BY <2>2
  <2> QED BY <2>1, <2>3, Words, Halves DEF Common, GoodObject, Bound, Small, Word
<1>2. PICK S \in Int : S = Inst_t(obj.target) /\ Same(WordSize, S, obj.target)
  BY <1>1, Cast, Words
<1>3. PICK a, b : a = Hi(S, 0) /\ b = S % Half
  OBVIOUS
<1>4. PICK e \in Int : e = IF b < Half \div 2 THEN b ELSE b - Half
  BY <1>3, Halves
<1>5. a \in 0 .. Half - 1 /\ b \in 0 .. Half - 1 /\ Same(WordSize, a * Half + e, S)
  BY <1>3, <1>4, HiAndLo
<1>6. Value(h) = OrInto(obj.inst[h], Half, a)
  BY <1>2, <1>3 DEF Value
<1>7. Value(l) = OrInto(obj.inst[l], Half, b)
  <2>1. (S + 0) % Half = b
    BY <1>3
  <2> QED BY <1>2, <2>1 DEF Value
<1>8. inst[h] % Half = a
  BY <1>1, <1>5, <1>6, LowerHalfSet DEF Done
<1>9. inst[l] % Half = b
  BY <1>1, <1>5, <1>7, LowerHalfSet DEF Done
<1>10. PICK x \in Int : x = a * Half + e
  BY <1>1, <1>5
<1>11. Same(WordSize, x, obj.target)
  BY <1>1, <1>2, <1>5, <1>10, SameChain
<1>12. x % WordSize = obj.target
  BY <1>1, <1>11, Rest
<1>13. HiLoPair(h, l) = x % WordSize
  BY <1>4, <1>8, <1>9, <1>10 DEF HiLoPair, LowerHalf
<1> QED BY <1>1, <1>12, <1>13

-----------------------------------------------------------------------------
(* ARM: the symbol, its stub, and the words. *)

(* No address and no stub yet, the address of the symbol, or the stub's.   *)
Stubbed ==
  \/ stub = <<>> /\ (my_addr = obj.target \/ (my_addr = 0 /\ obj.extern))
  \/ stub = StubWords(StubTable, obj.target) /\ my_addr = StubTable

Reach(k) ==
  CallResult(Inst_t(my_addr), Inst_t(Place(k)), SignExtend(obj.inst[k] % Field))

Calls ==
  /\ \A k \in DOMAIN obj.types : Patched(k) /\ obj.types[k] = "R_ARM_CALL" =>
       /\ my_addr # 0 /\ ~TooFar(Reach(k))
       /\ inst[k] = CallWord(obj.inst[k], Reach(k))
  /\ pc = "aborted" => my_addr # 0 /\ TooFar(Reach(i))

(* If no entry is a call, every half is taken from the address itself.     *)
MovTypes == {"R_ARM_MOVW_ABS_NC", "R_ARM_MOVT_ABS"}

Moved(k) ==
  MovWord(obj.inst[k],
          uint32_t(MovValue(obj.types[k], Inst_t(obj.target)) + MovField(obj.inst[k])))

Moves ==
  Of(MovTypes) =>
    /\ stub = <<>>
    /\ my_addr = obj.target \/ (my_addr = 0 /\ obj.extern /\ i = 1)
    /\ \A k \in DOMAIN obj.types : Patched(k) => inst[k] = Moved(k)

LEMMA ARMDue ==
  ASSUME Common, Of(ARMTypes), Next
  PROVE  /\ i \in DOMAIN obj.types /\ obj' = obj /\ pc = "relocate" /\ inst[i] = obj.inst[i]
         /\ i \in DOMAIN inst
         /\ ARM_ABS32 \/ ARM_CALL \/ ARM_MOV
<1>1. i \in DOMAIN obj.types /\ obj' = obj /\ pc = "relocate"
  BY DEF Next, ARM_ABS32, ARM_CALL, ARM_MOV, Absolute, PcRelative, MIPS_HI16, MIPS_LO16,
         MIPS_26, Due
<1>2. obj.types[i] \in ARMTypes
  BY <1>1 DEF Of
<1>3. ~Absolute /\ ~PcRelative /\ ~MIPS_HI16 /\ ~MIPS_LO16 /\ ~MIPS_26
  BY <1>2 DEF Absolute, PcRelative, MIPS_HI16, MIPS_LO16, MIPS_26, Due, ARMTypes
<1> QED BY <1>1, <1>3 DEF Common, Waiting, Next

(* A word that is no call.                                                 *)
LEMMA OtherThanCall ==
  ASSUME Common, Calls, NEW w, Writes(w), i' = i + 1, pc' = pc,
         obj.types[i] # "R_ARM_CALL", my_addr # 0 => my_addr' = my_addr
  PROVE  Common' /\ Calls'
<1>1. /\ Common' /\ obj' = obj /\ pc = "relocate"
      /\ \A k \in DOMAIN obj.types : Patched(k)' /\ k # i => Patched(k) /\ inst'[k] = inst[k]
  BY Written DEF Writes
<1>2. \A k \in DOMAIN obj.types : my_addr # 0 => Reach(k)' = Reach(k)
  BY <1>1 DEF Reach, Place
<1>3. ASSUME NEW k \in DOMAIN obj.types, Patched(k)', obj.types[k] = "R_ARM_CALL"
      PROVE  /\ my_addr' # 0 /\ ~TooFar(Reach(k)')
             /\ inst'[k] = CallWord(obj.inst[k], Reach(k)')
  <2>1. Patched(k) /\ inst'[k] = inst[k]
    BY <1>1, <1>3
  <2>2. my_addr # 0 /\ ~TooFar(Reach(k)) /\ inst[k] = CallWord(obj.inst[k], Reach(k))
    BY <1>3, <2>1 DEF Calls
  <2> QED BY <1>2, <2>1, <2>2
<1>4. \A k \in DOMAIN obj.types : TooFar(Reach(k))' <=> TooFar(Reach(k)')
  BY DEF TooFar
<1>5. \A k \in DOMAIN obj.types :
        CallWord(obj.inst[k], Reach(k))' = CallWord(obj.inst[k], Reach(k)')
  BY <1>1 DEF CallWord
<1> QED BY <1>1, <1>3, <1>4, <1>5 DEF Calls

ARMInv == Of(ARMTypes) => my_addr \in Nat /\ Stubbed /\ Calls /\ Moves

(* obj, and what depends on it alone, stays.                               *)
LEMMA SameObject ==
  ASSUME obj' = obj
  PROVE  /\ StubTable' = StubTable /\ Of(ARMTypes)' = Of(ARMTypes)
         /\ Of(MovTypes)' = Of(MovTypes) /\ \A k \in DOMAIN obj.types : Moved(k)' = Moved(k)
BY DEF StubTable, Of, Moved

LEMMA ABS32Step ==
  ASSUME Common, Of(ARMTypes), ARMInv, Next, ARM_ABS32
  PROVE  Common' /\ ARMInv'
<1>1. PICK w : w = uint32_t(my_addr + inst[i])
  OBVIOUS
<1>2. /\ Writes(w) /\ i' = i + 1 /\ pc' = pc /\ obj' = obj /\ i \in DOMAIN obj.types
      /\ my_addr' = my_addr /\ stub' = stub /\ obj.types[i] = "R_ARM_ABS32"
  BY <1>1, ARMDue DEF ARM_ABS32, Write, Writes, NoStub, Due
<1>3. Common' /\ Calls'
  BY <1>2, OtherThanCall DEF ARMInv
<1>4. Stubbed'
  BY <1>2, SameObject DEF ARMInv, Stubbed, StubWords
<1>5. Moves'
  BY <1>2, SameObject DEF Moves, Of, MovTypes
<1> QED BY <1>2, <1>3, <1>4, <1>5 DEF ARMInv

LEMMA MovStep ==
  ASSUME Common, Of(ARMTypes), ARMInv, Next, ARM_MOV
  PROVE  Common' /\ ARMInv'
<1>1. PICK w : w = MovWord(inst[i],
                     uint32_t(MovValue(obj.types[i], Inst_t(my_addr')) + MovField(inst[i])))
  OBVIOUS
<1>2. /\ Writes(w) /\ i' = i + 1 /\ pc' = pc /\ obj' = obj /\ i \in DOMAIN obj.types
      /\ stub' = stub /\ obj.types[i] \in MovTypes /\ obj.types[i] # "R_ARM_CALL"
      /\ my_addr' = Resolved(my_addr) /\ inst[i] = obj.inst[i]
  BY <1>1, ARMDue DEF ARM_MOV, Write, Writes, NoStub, Due, MovTypes
<1>3. my_addr # 0 => my_addr' = my_addr
  BY <1>2 DEF Resolved
<1>4. my_addr = 0 => my_addr' = obj.target
  <2>1. StubTable # 0
    BY DEF StubTable, Common, GoodObject
  <2> QED BY <1>2, <2>1 DEF Resolved, ARMInv, Stubbed
<1>5. Common' /\ Calls'
  BY <1>2, <1>3, OtherThanCall DEF ARMInv
<1>6. my_addr' \in Nat
  BY <1>3, <1>4 DEF ARMInv, Common, GoodObject
<1>7. Stubbed'
  <2>1. CASE my_addr = 0
    <3>1. StubTable # 0
      BY DEF StubTable, Common, GoodObject
    <3>2. stub = <<>>
      BY <2>1, <3>1 DEF ARMInv, Stubbed
    <3> QED BY <1>2, <1>4, <2>1, <3>2 DEF Stubbed
  <2>2. CASE my_addr # 0
    BY <1>2, <1>3, <2>2, SameObject DEF ARMInv, Stubbed, StubWords
  <2> QED BY <2>1, <2>2
<1>8. ASSUME Of(MovTypes)
      PROVE  /\ stub' = <<>> /\ my_addr' = obj.target
             /\ \A k \in DOMAIN obj.types : Patched(k)' => inst'[k] = Moved(k)
  <2>1. stub' = <<>> /\ my_addr' = obj.target
    BY <1>2, <1>3, <1>4, <1>8 DEF ARMInv, Moves
  <2>2. w = Moved(i)
    BY <1>1, <1>2, <2>1 DEF Moved
  <2>3. \A k \in DOMAIN obj.types : Patched(k)' =>
          IF k = i THEN inst'[k] = w ELSE Patched(k) /\ inst'[k] = inst[k]
    BY <1>2, Written
  <2> QED BY <1>8, <2>1, <2>2, <2>3 DEF ARMInv, Moves
<1>9. Moves'
  BY <1>2, <1>8, SameObject DEF Moves
<1> QED BY <1>5, <1>6, <1>7, <1>9 DEF ARMInv

LEMMA CallStep ==
  ASSUME Common, Of(ARMTypes), ARMInv, Next, ARM_CALL
  PROVE  Common' /\ ARMInv'
<1>1. /\ obj' = obj /\ pc = "relocate" /\ i \in DOMAIN obj.types /\ i \in DOMAIN inst
      /\ inst[i] = obj.inst[i] /\ obj.types[i] = "R_ARM_CALL"
  BY ARMDue DEF ARM_CALL, Due
<1>2. StubTable \in Nat \ {0}
  BY DEF StubTable, Common, GoodObject
<1>3. /\ my_addr' \in Nat \ {0} /\ (my_addr # 0 => my_addr' = my_addr)
      /\ Stubbed'
      /\ BranchTo(my_addr')
  <2>1. CASE my_addr # 0 /\ BranchTo(my_addr) /\ UNCHANGED my_addr /\ NoStub
    <3>1. Stubbed'
      BY <1>1, <2>1, SameObject DEF ARMInv, Stubbed, StubWords, NoStub
    <3>2. my_addr' = my_addr /\ my_addr \in Nat
      BY <2>1 DEF ARMInv
    <3> QED BY <2>1, <3>1, <3>2
  <2>2. CASE /\ my_addr = 0 /\ stub' = StubWords(StubTable, obj.target)
             /\ my_addr' = StubTable /\ BranchTo(StubTable)
    <3>1. Stubbed'
      BY <1>1, <2>2, SameObject DEF Stubbed, StubWords
    <3> QED BY <1>2, <2>2, <3>1
  <2> QED BY <2>1, <2>2 DEF ARM_CALL
<1>4. PICK n : n = i
  OBVIOUS
<1>5. Reach(n)' = CallResult(Inst_t(my_addr'), Inst_t(Place(i)), SignExtend(inst[i] % Field))
  BY <1>1, <1>4 DEF Reach, Place
<1>6. PICK r : r = Reach(n)'
  OBVIOUS
<1>7. \/ TooFar(r) /\ Stop
      \/ ~TooFar(r) /\ Write(CallWord(inst[i], r))
  BY <1>3, <1>5, <1>6 DEF BranchTo
<1>8. PICK w : w = CallWord(inst[i], r)
  OBVIOUS
<1>9. Writes(w)
  BY <1>1, <1>7, <1>8 DEF Writes, Write, Stop
<1>10. /\ Common' /\ i' >= i
       /\ \A k \in DOMAIN obj.types : Patched(k)' =>
            IF k = i THEN inst'[k] = w ELSE Patched(k) /\ inst'[k] = inst[k]
  BY <1>9, Written
<1>11. ASSUME NEW k \in DOMAIN obj.types, Patched(k)', obj.types[k] = "R_ARM_CALL"
       PROVE  ~TooFar(Reach(k)') /\ inst'[k] = CallWord(obj.inst[k], Reach(k)')
  <2>1. CASE k = n
    <3>1. i' # i
      BY <1>1, <1>4, <1>11, <2>1 DEF Patched, Common
    <3>2. ~TooFar(r)
      BY <1>7, <3>1 DEF Stop
    <3> QED BY <1>1, <1>4, <1>6, <1>8, <1>10, <1>11, <2>1, <3>2
  <2>2. CASE k # n
    <3>1. Patched(k) /\ inst'[k] = inst[k]
      BY <1>4, <1>10, <1>11, <2>2
    <3>2. my_addr # 0 /\ ~TooFar(Reach(k)) /\ inst[k] = CallWord(obj.inst[k], Reach(k))
      BY <1>11, <3>1 DEF ARMInv, Calls
    <3>3. Reach(k)' = Reach(k)
      BY <1>1, <1>3, <3>2 DEF Reach, Place
    <3> QED BY <3>1, <3>2, <3>3
  <2> QED BY <2>1, <2>2
<1>12. Calls'
  <2>1. i' = i \/ pc' # "aborted"
    BY <1>1, <1>7 DEF Stop, Write
  <2>2. ASSUME pc' = "aborted" PROVE TooFar(Reach(i))'
    <3>1. i' = i
      BY <2>1, <2>2
    <3>2. Reach(i)' = CallResult(Inst_t(my_addr'), Inst_t(Place(i)), SignExtend(inst[i] % Field))
      BY <1>1, <3>1 DEF Reach, Place
    <3>3. Reach(i)' = r
      BY <1>5, <1>6, <3>2
    <3>4. TooFar(r)
      BY <1>1, <1>7, <2>2 DEF Write
    <3> QED BY <3>3, <3>4 DEF TooFar
  <2>3. \A k \in DOMAIN obj.types : TooFar(Reach(k))' <=> TooFar(Reach(k)')
    BY DEF TooFar
  <2>4. \A k \in DOMAIN obj.types :
          CallWord(obj.inst[k], Reach(k))' = CallWord(obj.inst[k], Reach(k)')
    BY <1>1 DEF CallWord
  <2> QED BY <1>1, <1>3, <1>11, <2>2, <2>3, <2>4 DEF Calls
<1>13. Moves'
  BY <1>1, SameObject DEF Moves, Of, MovTypes
<1> QED BY <1>3, <1>10, <1>12, <1>13 DEF ARMInv

-----------------------------------------------------------------------------
(* ARM: what the words mean. *)

LEMMA Offsets ==
  ASSUME NEW w \in Int
  PROVE  /\ SignExtend(w % Field) = OffsetOf(w)
         /\ OffsetOf(w) \in -(Field \div 2) .. (Field \div 2) - 1
<1>1. PICK c \in Nat, x \in 0 .. Field - 1 :
        c = Field \div 2 /\ Field = 2 * c /\ x = w % Field
  BY Fields, DivMod
<1> QED BY <1>1 DEF SignExtend, OffsetOf

(* 4 * (x \div 4), where x is an address at a whole word that has been cast. *)
LEMMA WholeWord ==
  ASSUME NEW x \in Int, x % 4 = 0
  PROVE  /\ Inst_t(x) \div 4 \in Int /\ 4 * (Inst_t(x) \div 4) = Inst_t(x)
<1>1. Inst_t(x) \in Int /\ Same(WordSize, Inst_t(x), x)
  BY Cast, Words
<1>2. PICK k \in Int : Inst_t(x) = x + WordSize * k
  BY <1>1 DEF Same
<1>3. PICK v \in Int, m \in Int : v = x \div 4 /\ m = WordSize \div 4 /\ WordSize = 4 * m
  BY Words
<1>4. x = 4 * v
  BY <1>3
<1>5. WordSize * k = 4 * (m * k) /\ m * k \in Int
  BY <1>3
<1>6. PICK n \in Int : n = m * k
  BY <1>5
<1>7. Inst_t(x) = 4 * (v + n)
  BY <1>2, <1>4, <1>5, <1>6
<1> QED BY <1>7

(* The distance a call is given, in words, is the distance in bytes by 4.  *)
LEMMA Distance ==
  ASSUME NEW a \in Int, NEW p \in Int, NEW A \in Int, a % 4 = 0, p % 4 = 0
  PROVE  /\ CallResult(Inst_t(a), Inst_t(p), A) \in Word
         /\ Same(WordSize, 4 * CallResult(Inst_t(a), Inst_t(p), A), a - p + 4 * A)
<1>1. PICK m \in Nat \ {0} : m = WordSize
  BY Words
<1>2. PICK b \in Int, q \in Int : b = Inst_t(a) /\ q = Inst_t(p) /\ Same(m, b, a) /\ Same(m, q, p)
  <2>1. /\ Inst_t(a) \in Int /\ Inst_t(p) \in Int
        /\ Same(WordSize, Inst_t(a), a) /\ Same(WordSize, Inst_t(p), p)
    BY Cast, Words
  <2> QED BY <1>1, <2>1
<1>3. PICK c \in Int, r \in Int : c = b \div 4 /\ r = q \div 4 /\ b = 4 * c /\ q = 4 * r
  BY <1>2, WholeWord
<1>4. PICK d \in Int : d = c - r + A
  OBVIOUS
<1>5. PICK x \in Word : x = CallResult(Inst_t(a), Inst_t(p), A) /\ Same(m, x, d)
  <2>1. CallResult(Inst_t(a), Inst_t(p), A) = uint32_t(d)
    BY <1>2, <1>3, <1>4 DEF CallResult
  <2> QED BY <1>1, <2>1, Cast
<1>6. x \in Int
  BY <1>5, Words DEF Word
<1>7. PICK k \in Int : x = d + m * k
  BY <1>5 DEF Same
<1>8. PICK j \in Int : j = 4 * k
  OBVIOUS
<1>9. 4 * (m * k) = m * j /\ m * k \in Int
  BY <1>8
<1>10. 4 * x = 4 * d + m * j
  BY <1>6, <1>7, <1>9
<1>11. PICK y \in Int, e \in Int, u \in Int : y = 4 * x /\ e = (b - q) + 4 * A /\ u = (a - p) + 4 * A
  BY <1>6
<1>12. e = 4 * d
  BY <1>3, <1>4, <1>11
<1>13. Same(m, y, e)
  BY <1>10, <1>11, <1>12 DEF Same
<1>14. PICK f \in Int, g \in Int, z \in Int : f = b - q /\ g = a - p /\ z = 4 * A
  OBVIOUS
<1>15. Same(m, f, g)
  BY <1>2, <1>14, SameDifference
<1>16. Same(m, f + z, g + z)
  BY <1>14, <1>15, SameSelf, SameSum
<1>17. Same(m, e, u)
  BY <1>11, <1>14, <1>16
<1>18. Same(m, y, u)
  BY <1>13, <1>17, SameChain
<1> QED BY <1>1, <1>5, <1>11, <1>18

(* A distance within reach is read from the word as it was meant.          *)
LEMMA Readback ==
  ASSUME NEW w \in Int, NEW r \in Word, ~TooFar(r)
  PROVE  Same(WordSize, 4 * OffsetOf(CallWord(w, r)), 4 * r)
<1>1. PICK f \in Nat \ {0}, c \in Nat, o \in Nat : f = Field /\ c = f \div 2 /\ f = 2 * c /\ o = OpSize
  BY Fields
<1>2. PICK q \in Int : q = w \div f
  BY <1>1, DivMod
<1>3. PICK m \in Nat \ {0} : m = WordSize /\ m >= 8 * f /\ m = f * o
  BY <1>1, Words, Products
<1>4. r \in 0 .. m - 1 /\ (r <= c - 1 \/ r >= m - c)
  BY <1>1, <1>3 DEF TooFar, Word
<1>5. PICK e \in 0 .. f - 1, v \in Int :
        r = f * v + e /\ IF r <= c - 1 THEN e = r ELSE e = f - (m - r)
  <2>1. CASE r <= c - 1
    <3>1. r \in 0 .. f - 1
      BY <1>1, <1>4, <2>1
    <3>2. PICK z \in Int : z = 0
      OBVIOUS
    <3>3. r = f * z + r
      BY <3>1, <3>2
    <3> QED BY <2>1, <3>1, <3>3
  <2>2. CASE ~(r <= c - 1)
    <3>1. f * (o - 1) = f * o - f /\ f * o \in Int
      OBVIOUS
    <3>2. r = f * (o - 1) + (f - (m - r)) /\ f - (m - r) \in 0 .. f - 1 /\ o - 1 \in Int
      BY <1>1, <1>3, <1>4, <2>2, <3>1
    <3> QED BY <2>2, <3>2
  <2> QED BY <2>1, <2>2
<1>6. r % f = e
  <2>1. r \in Int /\ r = f * v + e
    BY <1>4, <1>5
  <2>2. Same(f, r, e)
    BY <2>1 DEF Same
  <2> QED BY <2>1, <2>2, Rest
<1>7. PICK x \in Int : x = e + q * f
  OBVIOUS
<1>8. CallWord(w, r) = x
  BY <1>1, <1>2, <1>6, <1>7 DEF CallWord
<1>9. x = e + f * q
  BY <1>7
<1>10. Same(f, x, e)
  BY <1>9 DEF Same
<1>11. x % f = e
  BY <1>10, Rest
<1>12. PICK y \in Int : y = OffsetOf(x) /\ y = IF r <= c - 1 THEN r ELSE r - m
  <2>1. OffsetOf(x) = IF e < c THEN e ELSE e - f
    BY <1>1, <1>11 DEF OffsetOf
  <2>2. r <= c - 1 => OffsetOf(x) = r
    BY <1>4, <1>5, <2>1
  <2>3. ~(r <= c - 1) => OffsetOf(x) = r - m
    BY <1>1, <1>4, <1>5, <2>1
  <2> QED BY <1>3, <1>4, <2>2, <2>3
<1>13. PICK k \in Int : k = IF r <= c - 1 THEN 0 ELSE -4
  OBVIOUS
<1>14. 4 * y = 4 * r + m * k
  <2>1. CASE r <= c - 1
    BY <1>4, <1>12, <1>13, <2>1
  <2>2. CASE ~(r <= c - 1)
    BY <1>4, <1>12, <1>13, <2>2
  <2> QED BY <2>1, <2>2
<1>15. Same(m, 4 * y, 4 * r)
  BY <1>14 DEF Same
<1> QED BY <1>3, <1>8, <1>12, <1>15

(* A branch whose word has been read back.                                 *)
LEMMA Lands ==
  ASSUME NEW a \in Int, NEW p \in Int, NEW w \in Int, NEW A \in Int, NEW r \in Word,
         a % 4 = 0, p % 4 = 0, r = CallResult(Inst_t(a), Inst_t(p), A), ~TooFar(r)
  PROVE  Branch(p, CallWord(w, r)) = (a + 4 * (A + 2)) % WordSize
<1>1. PICK m \in Nat \ {0} : m = WordSize
  BY Words
<1>2. PICK o \in Int : o = OffsetOf(CallWord(w, r))
  <2>1. CallWord(w, r) \in Int
    <3>1. r \in Int /\ r % Field \in Int /\ w \div Field \in Int /\ Field \in Int
      BY Fields, Words DEF Word
    <3> QED BY <3>1 DEF CallWord
  <2>2. OffsetOf(CallWord(w, r)) \in Int
    BY <2>1, Offsets, Fields
  <2> QED BY <2>2
<1>3. PICK x \in Int, y \in Int, d \in Int : x = 4 * o /\ y = 4 * r /\ d = a - p + 4 * A
  BY Words DEF Word
<1>4. Same(m, x, y) /\ Same(m, y, d)
  BY <1>1, <1>2, <1>3, Readback, Distance
<1>5. Same(m, x, d)
  BY <1>4, SameChain
<1>6. PICK b \in Int, u \in Int, v \in Int : b = p + 8 /\ u = b + x /\ v = b + d
  OBVIOUS
<1>7. Same(m, u, v)
  BY <1>5, <1>6, SameSelf, SameSum
<1>8. u % m = v % m
  BY <1>7, SameThenRest
<1>9. v = a + 4 * (A + 2)
  BY <1>3, <1>6
<1>10. Branch(p, CallWord(w, r)) = u % m
  BY <1>1, <1>2, <1>3, <1>6 DEF Branch
<1> QED BY <1>1, <1>8, <1>9, <1>10

LEMMA Places ==
  ASSUME Common, NEW k \in DOMAIN obj.types
  PROVE  Place(k) \in Int /\ Place(k) % 4 = 0 /\ StubTable % 4 = 0
<1>1. obj.place \in Nat /\ obj.place % 4 = 0 /\ k \in Nat
  BY DEF Common, GoodObject
<1>2. PICK q \in Int : obj.place = 4 * q
  BY <1>1
<1>3. Place(k) = 4 * (q + (k - 1)) /\ StubTable = 4 * (q + 2)
  BY <1>1, <1>2 DEF Place, StubTable
<1> QED BY <1>1, <1>2, <1>3

LEMMA BranchArrivesThere ==
  ASSUME Common, ARMInv
  PROVE  BranchArrives
<1> SUFFICES ASSUME NEW k \in DOMAIN obj.types, NEW A, A = OffsetOf(obj.inst[k]),
                    Patched(k), obj.types[k] = "R_ARM_CALL",
                    IF my_addr = obj.target THEN obj.target % 4 = 0 ELSE A = -2
             PROVE  Arrives(Branch(Place(k), inst[k])) = (obj.target + 4 * (A + 2)) % WordSize
  BY DEF BranchArrives
<1>1. Of(ARMTypes) /\ obj.inst[k] \in Int /\ my_addr # 0
  <2>1. Of(ARMTypes)
    BY Machines DEF Common, ARMTypes
  <2> QED BY <2>1, Words DEF Common, GoodObject, Word, ARMInv, Calls
<1>2. A \in Int /\ SignExtend(obj.inst[k] % Field) = A
  BY <1>1, Offsets, Fields
<1>3. /\ obj.target \in Word /\ StubTable \in Word /\ my_addr \in Int
      /\ Place(k) \in Int /\ Place(k) % 4 = 0 /\ my_addr % 4 = 0
  <2>1. ~Of(X64Types)
    BY <1>1 DEF Of, ARMTypes, X64Types
  <2>2. obj.target \in Word /\ obj.place + 15 \in Word /\ obj.place \in Nat
    BY <2>1 DEF Common, GoodObject
  <2>3. StubTable \in Word
    BY <2>2, Words DEF StubTable, Word
  <2>4. my_addr % 4 = 0
    BY <1>1, Places DEF ARMInv, Stubbed
  <2> QED BY <1>1, <2>2, <2>3, <2>4, Places DEF ARMInv
<1>4. PICK r \in Word : r = Reach(k)
  BY <1>2, <1>3, Distance DEF Reach
<1>5. inst[k] = CallWord(obj.inst[k], r) /\ ~TooFar(r)
  BY <1>1, <1>4 DEF ARMInv, Calls
<1>6. r = CallResult(Inst_t(my_addr), Inst_t(Place(k)), A)
  BY <1>2, <1>4 DEF Reach
<1>7. PICK L : L = (my_addr + 4 * (A + 2)) % WordSize
  OBVIOUS
<1>8. Branch(Place(k), inst[k]) = L
  BY <1>1, <1>2, <1>3, <1>5, <1>6, <1>7, Lands
<1>9. CASE stub = <<>>
  <2>1. my_addr = obj.target
    <3>1. StubTable \in DOMAIN StubWords(StubTable, obj.target)
      BY DEF StubWords
    <3>2. DOMAIN stub = {}
      BY <1>9
    <3>3. stub # StubWords(StubTable, obj.target)
      BY <3>1, <3>2
    <3> QED BY <1>1, <3>3 DEF ARMInv, Stubbed
  <2>2. L \notin DOMAIN stub
    BY <1>9
  <2>3. Arrives(L) = L
    BY <2>2 DEF Arrives
  <2> QED BY <1>7, <1>8, <2>1, <2>3
<1>10. CASE stub = StubWords(StubTable, obj.target) /\ my_addr = StubTable
  <2>1. PICK t \in Int : t = StubTable
    BY <1>3, Words DEF Word
  <2>2. /\ DOMAIN stub = {t, t + 4} /\ stub[t] = LdrPc(-4) /\ stub[t + 4] = obj.target
    BY <1>10, <2>1 DEF StubWords
  <2>3. Arrives(t) = obj.target
    <3>1. stub[t].offset = -4
      <4>1. LdrPc(-4).offset = -4
        BY DEF LdrPc
      <4> QED BY <2>2, <4>1
    <3>2. t + 8 + stub[t].offset = t + 4
      BY <3>1
    <3> QED BY <2>1, <2>2, <3>2 DEF Arrives
  <2>4. obj.target % WordSize = obj.target /\ t % WordSize = t
    BY <1>3, <2>1, Words DEF Word
  <2>5. CASE A = -2
    <3>1. obj.target \in Int
      BY <1>3, Words DEF Word
    <3>2. my_addr + 4 * (A + 2) = t /\ obj.target + 4 * (A + 2) = obj.target
      BY <1>10, <2>1, <2>5, <3>1
    <3> QED BY <1>7, <1>8, <2>3, <2>4, <3>2
  <2>6. CASE my_addr = obj.target
    <3>1. Arrives(L) = L
      BY <1>10, <2>1, <2>3, <2>6 DEF Arrives
    <3> QED BY <1>7, <1>8, <2>6, <3>1
  <2> QED BY <2>5, <2>6
<1> QED BY <1>1, <1>9, <1>10 DEF ARMInv, Stubbed

(* A branch that could be written, between two places on one side of the   *)
(* 2 GB boundary, is not given up.                                         *)
LEMMA NearIsNotFar ==
  ASSUME NEW a \in Int, NEW p \in Int, a % 4 = 0, p % 4 = 0,
         NEW A \in -(Field \div 2) .. (Field \div 2) - 1, NEW w \in Int,
         (Inst_t(a) < 0) <=> (Inst_t(p) < 0),
         Branch(p, w) = (a + 4 * (A + 2)) % WordSize
  PROVE  ~TooFar(CallResult(Inst_t(a), Inst_t(p), A))
<1>1. PICK m \in Nat \ {0}, h \in Nat, f \in Nat \ {0}, c \in Nat :
        /\ m = WordSize /\ h = MaxInt /\ m = 2 * h
        /\ f = Field /\ c = f \div 2 /\ f = 2 * c /\ m >= 8 * f
  BY Words, Fields, Products
<1>2. PICK b \in -h .. h - 1, q \in -h .. h - 1 :
        b = Inst_t(a) /\ q = Inst_t(p) /\ Same(m, b, a) /\ Same(m, q, p)
  BY <1>1, Cast
<1>3. PICK x \in Int, y \in Int : x = b \div 4 /\ y = q \div 4 /\ b = 4 * x /\ q = 4 * y
  BY <1>2, WholeWord
<1>4. PICK o \in -c .. c - 1 : o = OffsetOf(w)
  BY <1>1, Offsets
<1>5. A \in -c .. c - 1
  BY <1>1
<1>6. PICK d \in Int : d = x - y + A
  BY <1>5
<1>7. PICK u \in Int, v \in Int : u = p + 8 + 4 * o /\ v = a + 4 * (A + 2)
  BY <1>4, <1>5
<1>8. Same(m, u, v)
  <2>1. u % m = v % m
    BY <1>1, <1>4, <1>7 DEF Branch
  <2> QED BY <2>1, RestThenSame
<1>9. PICK g \in Int, k \in Int : g = p - q /\ k = a - b
  BY <1>2
<1>10. Same(m, 4 * o, 4 * d)
  <2>1. PICK r \in Int, s \in Int, t \in Int :
          /\ u = v + m * r /\ b = a + m * s /\ q = p + m * t
    BY <1>2, <1>8 DEF Same
  <2>2. PICK n \in Int : n = r - s + t
    BY <2>1
  <2>3. m * n = m * r - m * s + m * t /\ m * r \in Int /\ m * s \in Int /\ m * t \in Int
    BY <2>1, <2>2
  <2>4. p = u - 8 - 4 * o /\ a = v - 4 * (A + 2)
    BY <1>4, <1>5, <1>7
  <2>5. 4 * d = b - q + 4 * A
    BY <1>3, <1>5, <1>6
  <2>6. PICK R \in Int, S \in Int, T \in Int : R = m * r /\ S = m * s /\ T = m * t
    BY <2>3
  <2>7. u = v + R /\ b = a + S /\ q = p + T /\ m * n = R - S + T
    BY <2>1, <2>3, <2>6
  <2>8. 4 * o = 4 * d + (R - S + T)
    <3>1. A \in Int /\ o \in Int /\ b \in Int /\ q \in Int
      BY <1>2, <1>4, <1>5
    <3>2. 4 * o = u - p - 8 /\ u = a + 4 * A + 8 + R
      BY <1>7, <2>7, <3>1
    <3>3. 4 * o = a + 4 * A + R - p
      BY <3>1, <3>2
    <3>4. 4 * d = (a + S) - (p + T) + 4 * A
      BY <2>5, <2>7
    <3> QED BY <3>1, <3>3, <3>4
  <2>9. 4 * o = 4 * d + m * n
    BY <2>7, <2>8
  <2> QED BY <2>9 DEF Same
<1>11. b - q < h /\ q - b < h
  BY <1>1, <1>2
<1>12. 4 * o - 4 * d < m /\ 4 * d - 4 * o < m
  BY <1>1, <1>3, <1>4, <1>5, <1>6, <1>11
<1>13. PICK e \in Int, z \in Int : e = 4 * o /\ z = 4 * d
  BY <1>4
<1>14. e = z
  BY <1>10, <1>12, <1>13, Close
<1>15. o = d
  BY <1>4, <1>13, <1>14
<1>16. PICK r : r = CallResult(b, q, A)
  OBVIOUS
<1>17. r = o % m
  BY <1>1, <1>3, <1>6, <1>15, <1>16 DEF CallResult, uint32_t
<1>18. r = IF o < 0 THEN o + m ELSE o
  BY <1>1, <1>4, <1>17
<1>19. ~TooFar(r)
  BY <1>1, <1>4, <1>18 DEF TooFar
<1> QED BY <1>2, <1>16, <1>19

LEMMA FarIsFar ==
  ASSUME Common, ARMInv
  PROVE  FarOnlyIfFar
<1> SUFFICES ASSUME pc = "aborted", obj.types[i] = "R_ARM_CALL", my_addr # 0, my_addr % 4 = 0,
                    ~(Inst_t(my_addr) < 0 /\ Inst_t(Place(i)) >= 0),
                    ~(Inst_t(my_addr) >= 0 /\ Inst_t(Place(i)) < 0),
                    NEW w \in 0 .. Field - 1,
                    Branch(Place(i), w)
                      = (my_addr + 4 * (OffsetOf(obj.inst[i]) + 2)) % WordSize
             PROVE  FALSE
  BY DEF FarOnlyIfFar
<1>1. i \in DOMAIN obj.types /\ Of(ARMTypes)
  BY Machines DEF Common, ARMTypes
<1>2. obj.inst[i] \in Int /\ Place(i) \in Int /\ Place(i) % 4 = 0 /\ my_addr \in Int /\ w \in Int
  BY <1>1, Places, Words, Fields DEF Common, GoodObject, Word, ARMInv
<1>3. PICK A \in -(Field \div 2) .. (Field \div 2) - 1 :
        A = OffsetOf(obj.inst[i]) /\ A = SignExtend(obj.inst[i] % Field)
  BY <1>2, Offsets
<1>4. (Inst_t(my_addr) < 0) <=> (Inst_t(Place(i)) < 0)
  <2>1. Inst_t(my_addr) \in Int /\ Inst_t(Place(i)) \in Int
    BY <1>2, Cast, Words
  <2> QED BY <2>1
<1>5. ~TooFar(CallResult(Inst_t(my_addr), Inst_t(Place(i)), A))
  BY <1>2, <1>3, <1>4, NearIsNotFar
<1>6. TooFar(Reach(i))
  BY <1>1 DEF ARMInv, Calls
<1> QED BY <1>3, <1>5, <1>6 DEF Reach

(* Two digits.                                                             *)
LEMMA Digits ==
  ASSUME NEW L \in Nat \ {0}, NEW N \in Nat \ {0}, NEW d \in 0 .. N - 1, NEW e \in 0 .. L - 1
  PROVE  d * L + e \in 0 .. L * N - 1
<1>1. PICK n \in Nat : n = N - 1 - d
  OBVIOUS
<1>2. L * N = d * L + L * n + L /\ L * n \in Nat /\ d * L \in Nat /\ L * N \in Nat
  <2>1. N = d + n + 1
    BY <1>1
  <2>2. L * (d + n + 1) = d * L + L * n + L
    OBVIOUS
  <2> QED BY <2>1, <2>2
<1> QED BY <1>2

(* The immediate that is read is the one that has been written.            *)
LEMMA Immediate ==
  ASSUME NEW w \in Int, NEW r \in Int
  PROVE  MovField(MovWord(w, r)) = r % Half
<1>1. PICK L \in Nat \ {0}, N \in Nat \ {0}, H \in Nat \ {0} :
        L = Low /\ N = Nibble /\ H = Half /\ H = L * N
  BY Halves, Products
<1>2. PICK y \in Int, e \in 0 .. L - 1 : y = r \div L /\ e = r % L /\ r = L * y + e
  BY DivMod
<1>3. PICK z \in Int, d \in 0 .. N - 1 : z = y \div N /\ d = y % N /\ y = N * z + d
  BY DivMod
<1>4. PICK B \in Nat \ {0} : B = H * N
  OBVIOUS
<1>5. PICK q \in Int : q = w \div B
  BY DivMod
<1>6. PICK g \in 0 .. N - 1 : g = (w \div L) % N
  <2>1. w \div L \in Int
    BY DivMod
  <2> QED BY <2>1, DivMod
<1>7. PICK X \in Int : X = d * H + e + (q * B + g * L)
  OBVIOUS
<1>8. MovWord(w, r) = X
  BY <1>1, <1>2, <1>3, <1>4, <1>5, <1>6, <1>7 DEF MovWord, MovKept
<1>9. X % L = e
  <2>1. PICK j \in Int : j = d * N + q * (N * N) + g
    OBVIOUS
  <2>2. L * j = d * (L * N) + q * ((L * N) * N) + g * L
    BY <2>1
  <2>3. X = e + L * j
    BY <1>1, <1>4, <1>7, <2>2
  <2>4. Same(L, X, e)
    BY <2>3 DEF Same
  <2> QED BY <2>4, Rest
<1>10. (X \div H) % N = d
  <2>1. PICK t \in 0 .. H - 1 : t = g * L + e
    BY <1>1, Digits
  <2>2. PICK j \in Int : j = d + q * N
    OBVIOUS
  <2>3. H * j = d * H + q * (H * N)
    BY <2>2
  <2>4. X = H * j + t
    BY <1>4, <1>7, <2>1, <2>3
  <2>5. X \div H = j
    BY <2>4, Unique
  <2>6. j = d + N * q
    BY <2>2
  <2>7. Same(N, j, d)
    BY <2>6 DEF Same
  <2>8. j % N = d
    BY <2>7, Rest
  <2> QED BY <2>5, <2>8
<1>11. MovField(X) = d * L + e
  BY <1>1, <1>9, <1>10 DEF MovField
<1>12. r % H = d * L + e
  <2>1. PICK t \in 0 .. H - 1 : t = d * L + e
    BY <1>1, Digits
  <2>2. L * (N * z + d) = (L * N) * z + d * L
    OBVIOUS
  <2>3. L * y = (L * N) * z + d * L
    BY <1>3, <2>2
  <2>4. r = t + H * z
    BY <1>1, <1>2, <2>1, <2>3
  <2>5. Same(H, r, t)
    BY <2>4 DEF Same
  <2>6. r % H = t
    BY <2>5, Rest
  <2> QED BY <2>1, <2>6
<1> QED BY <1>1, <1>8, <1>11, <1>12

LEMMA FieldRange ==
  ASSUME NEW w \in Int
  PROVE  MovField(w) \in 0 .. Half - 1
<1>1. PICK L \in Nat \ {0}, N \in Nat \ {0}, H \in Nat \ {0} :
        L = Low /\ N = Nibble /\ H = Half /\ H = L * N
  BY Halves, Products
<1>2. PICK q \in Int, e \in 0 .. L - 1 : q = w \div H /\ e = w % L
  BY DivMod
<1>3. PICK d \in 0 .. N - 1 : d = q % N
  BY DivMod
<1>4. d * L + e \in 0 .. L * N - 1
  BY Digits
<1> QED BY <1>1, <1>2, <1>3, <1>4 DEF MovField

(* The two halves of an address and an addend.                             *)
LEMMA HalvesAdd ==
  ASSUME NEW a \in Int, NEW fw \in 0 .. Half - 1, NEW ft \in 0 .. Half - 1,
         NEW c, c = IF (a % Half) + fw >= Half THEN Half ELSE 0
  PROVE  (uint32_t((Inst_t(a) \div Half) + ft) % Half) * Half
             + (uint32_t(Inst_t(a) + fw) % Half)
           = (a + (ft * Half + fw) - c) % WordSize
<1>1. PICK H \in Nat \ {0}, W \in Nat \ {0} : H = Half /\ W = WordSize /\ W = H * H
  BY Halves, Words, Products
<1>2. PICK x \in Int, y \in 0 .. H - 1 : x = a \div H /\ y = a % H /\ a = H * x + y
  BY DivMod
<1>3. PICK b \in {0, 1} : b = IF y + fw >= H THEN 1 ELSE 0
  OBVIOUS
<1>4. PICK e \in 0 .. H - 1 : e = y + fw - H * b
  <2>1. CASE y + fw >= H
    <3>1. b = 1 /\ H * b = H /\ y + fw - H \in 0 .. H - 1
      BY <1>1, <1>3, <2>1
    <3> QED BY <3>1
  <2>2. CASE ~(y + fw >= H)
    <3>1. b = 0 /\ H * b = 0 /\ y + fw \in 0 .. H - 1
      BY <1>1, <1>3, <2>2
    <3> QED BY <3>1
  <2> QED BY <2>1, <2>2
<1>5. c = H * b
  BY <1>1, <1>2, <1>3
<1>6. PICK S \in Int, k \in Int : S = Inst_t(a) /\ S = a + W * k
  <2>1. Inst_t(a) \in Int /\ Same(WordSize, Inst_t(a), a)
    BY Cast, Words
  <2> QED BY <1>1, <2>1 DEF Same
<1>7. PICK j \in Int : j = x + H * k
  OBVIOUS
<1>8. S \div H = j
  <2>1. H * j = H * x + (H * H) * k
    BY <1>7
  <2>2. S = H * j + y
    BY <1>1, <1>2, <1>6, <2>1
  <2> QED BY <2>2, Unique
<1>9. PICK n \in Int, u \in 0 .. H - 1 : x + ft = H * n + u
  <2>1. PICK v \in Int : v = x + ft
    BY <1>1
  <2>2. PICK l \in Int, r \in 0 .. H - 1 : l = v \div H /\ r = v % H /\ v = H * l + r
    BY DivMod
  <2> QED BY <2>1, <2>2
<1>10. uint32_t(j + ft) % H = u
  <2>1. PICK v \in Int : v = j + ft
    BY <1>1
  <2>2. uint32_t(v) \in Int /\ Same(W, uint32_t(v), v)
    BY <1>1, Cast, Words DEF Word
  <2>3. Same(H, uint32_t(v), v)
    BY <1>1, <2>2, Coarser
  <2>4. PICK l \in Int : l = n + k
    OBVIOUS
  <2>5. H * l = H * n + H * k /\ H * n \in Int /\ H * k \in Int
    BY <2>4
  <2>6. v = u + H * l
    BY <1>1, <1>7, <1>9, <2>1, <2>5
  <2>7. Same(H, v, u)
    BY <2>6 DEF Same
  <2>8. Same(H, uint32_t(v), u)
    BY <2>2, <2>3, <2>7, SameChain
  <2>9. uint32_t(v) % H = u
    BY <2>2, <2>8, Rest
  <2> QED BY <2>1, <2>9
<1>11. uint32_t(S + fw) % H = e
  <2>1. PICK v \in Int : v = S + fw
    BY <1>1
  <2>2. uint32_t(v) \in Int /\ Same(W, uint32_t(v), v)
    BY <1>1, Cast, Words DEF Word
  <2>3. Same(H, uint32_t(v), v)
    BY <1>1, <2>2, Coarser
  <2>4. PICK l \in Int : l = x + H * k + b
    BY <1>3
  <2>5. H * l = H * x + (H * H) * k + H * b
    BY <1>3, <2>4
  <2>6. v = e + H * l
    BY <1>1, <1>2, <1>3, <1>4, <1>6, <2>1, <2>5
  <2>7. Same(H, v, e)
    BY <2>6 DEF Same
  <2>8. Same(H, uint32_t(v), e)
    BY <2>2, <2>3, <2>7, SameChain
  <2>9. uint32_t(v) % H = e
    BY <2>2, <2>8, Rest
  <2> QED BY <2>1, <2>9
<1>12. PICK r \in 0 .. W - 1 : r = u * H + e
  <2>1. u * H + e \in 0 .. H * H - 1
    BY Digits
  <2> QED BY <1>1, <2>1
<1>13. PICK Z \in Int : Z = a + (ft * H + fw) - H * b
  <2>1. ft * H \in Int /\ fw \in Int /\ H * b \in Int
    BY <1>1, <1>3
  <2> QED BY <2>1
<1>14. Z = r + W * n
  <2>1. (x + ft) * H = u * H + (H * H) * n
    <3>1. (H * n + u) * H = u * H + (H * H) * n
      OBVIOUS
    <3> QED BY <1>9, <3>1
  <2>2. (x + ft) * H = H * x + ft * H
    BY <1>1
  <2>3. Z = H * x + ft * H + e
    <3>1. PICK l \in Int, g \in Int, o \in Int : l = H * x /\ g = ft * H /\ o = H * b
      BY <1>1, <1>3
    <3>2. Z = a + (g + fw) - o /\ a = l + y /\ e = y + fw - o
      BY <1>2, <1>4, <1>13, <3>1
    <3>3. y \in Int /\ fw \in Int /\ e \in Int
      BY <1>1
    <3> QED BY <3>1, <3>2, <3>3
  <2> QED BY <1>1, <1>12, <2>1, <2>2, <2>3
<1>15. Z % W = r
  <2>1. Same(W, Z, r)
    BY <1>14 DEF Same
  <2> QED BY <2>1, Rest
<1> QED BY <1>1, <1>5, <1>6, <1>8, <1>10, <1>11, <1>12, <1>13, <1>15

LEMMA MovPairSum ==
  ASSUME Common, ARMInv
  PROVE  MovPairGives
<1> SUFFICES ASSUME NEW w \in DOMAIN obj.types, NEW t \in DOMAIN obj.types,
                    Patched(w), obj.types[w] = "R_ARM_MOVW_ABS_NC",
                    Patched(t), obj.types[t] = "R_ARM_MOVT_ABS",
                    NEW c, c = IF (my_addr % Half) + MovField(obj.inst[w]) >= Half THEN Half ELSE 0
             PROVE  MovPair(inst, w, t) = (my_addr + MovPair(obj.inst, w, t) - c) % WordSize
  BY DEF MovPairGives
<1>1. Of(ARMTypes) /\ Of(MovTypes) /\ i # 1
  <2>1. Of(ARMTypes)
    BY Machines DEF Common, ARMTypes
  <2>2. DOMAIN obj.types = 1 .. Len(obj.types) /\ Len(obj.types) \in 1 .. 2 /\ i \in Nat
    BY DEF Common, GoodObject
  <2>3. w # t /\ w \in 1 .. 2 /\ t \in 1 .. 2
    BY <2>2
  <2>4. ASSUME NEW k \in DOMAIN obj.types PROVE k = w \/ k = t
    <3>1. PICK n \in 1 .. 2 : n = Len(obj.types)
      BY <2>2
    <3>2. k \in 1 .. n
      BY <2>2, <3>1
    <3>3. k \in 1 .. 2
      BY <3>2
    <3> QED BY <2>3, <3>3
  <2> QED BY <2>1, <2>2, <2>3, <2>4 DEF Of, MovTypes, Patched
<1>2. my_addr = obj.target /\ inst[w] = Moved(w) /\ inst[t] = Moved(t)
  BY <1>1 DEF ARMInv, Moves
<1>3. PICK a \in Int, fw \in 0 .. Half - 1, ft \in 0 .. Half - 1 :
        /\ a = obj.target /\ fw = MovField(obj.inst[w]) /\ ft = MovField(obj.inst[t])
        /\ obj.inst[w] \in Int /\ obj.inst[t] \in Int
  <2>1. obj.target \in Int /\ obj.inst[w] \in Int /\ obj.inst[t] \in Int
    BY Words DEF Common, GoodObject, Word
  <2> QED BY <2>1, FieldRange
<1>4. PICK x, y : x = uint32_t(Inst_t(a) + fw) /\ y = uint32_t((Inst_t(a) \div Half) + ft)
  OBVIOUS
<1>5. x \in Int /\ y \in Int
  <2>1. Inst_t(a) + fw \in Int /\ (Inst_t(a) \div Half) + ft \in Int
    BY Cast, Words, Halves
  <2> QED BY <1>4, <2>1, Cast, Words DEF Word
<1>6. inst[w] = MovWord(obj.inst[w], x) /\ inst[t] = MovWord(obj.inst[t], y)
  BY <1>2, <1>3, <1>4 DEF Moved, MovValue
<1>7. MovField(inst[w]) = x % Half /\ MovField(inst[t]) = y % Half
  BY <1>3, <1>5, <1>6, Immediate
<1>8. c = IF (a % Half) + fw >= Half THEN Half ELSE 0
  BY <1>2, <1>3
<1>9. (y % Half) * Half + (x % Half) = (a + (ft * Half + fw) - c) % WordSize
  BY <1>4, <1>8, HalvesAdd
<1> QED BY <1>2, <1>3, <1>7, <1>9 DEF MovPair

-----------------------------------------------------------------------------
(* The words stay words. *)

LEMMA Powers ==
  /\ \A k \in 0 .. 16 : Power[k] \in Nat \ {0}
  /\ Power[0] = 1
  /\ \A k \in 0 .. 15 : Power[k + 1] = 2 * Power[k]
<1> DEFINE Equation(p) == p = [n \in 0 .. 16 |-> IF n = 0 THEN 1 ELSE 2 * p[n - 1]]
<1>1. PICK f : Equation(f)
  <2>1. PICK V, step : V = Nat /\ step = [k \in 0 .. 16 - 1 |-> [x \in Nat |-> 2 * x]]
    OBVIOUS
  <2>2. step \in Steps(16, V) /\ 16 \in Nat /\ 1 \in V
    BY <2>1 DEF Steps
  <2>3. PICK f : Follows(f, 16, V, 1, step)
    BY <2>2, StepByStep
  <2>4. /\ f \in [0 .. 16 -> Nat] /\ f[0] = 1
        /\ \A k \in 0 .. 15 : f[k + 1] = step[k][f[k]]
    BY <2>1, <2>3 DEF Follows
  <2>5. \A k \in 0 .. 15 : f[k] \in Nat /\ step[k][f[k]] = 2 * f[k]
    BY <2>1, <2>4
  <2>6. \A n \in 0 .. 16 : f[n] = IF n = 0 THEN 1 ELSE 2 * f[n - 1]
    <3> SUFFICES ASSUME NEW n \in 0 .. 16, n # 0 PROVE f[n] = 2 * f[n - 1]
      BY <2>4
    <3>1. n - 1 \in 0 .. 15 /\ (n - 1) + 1 = n
      OBVIOUS
    <3> QED BY <2>4, <2>5, <3>1
  <2> QED BY <2>4, <2>6
<1>2. Power = CHOOSE p : Equation(p)
  BY DEF Power
<1> HIDE DEF Equation
<1>3. Equation(Power)
  BY <1>1, <1>2
<1> USE DEF Equation
<1>4. Power[0] = 1
  BY <1>3
<1>5. ASSUME NEW k \in 0 .. 15 PROVE Power[k + 1] = 2 * Power[k]
  <2>1. k + 1 \in 0 .. 16 /\ k + 1 # 0 /\ (k + 1) - 1 = k
    OBVIOUS
  <2> QED BY <1>3, <2>1
<1>6. \A k \in 0 .. 16 : Power[k] \in Nat \ {0}
  <2> DEFINE S == {k \in 0 .. 16 : Power[k] \in Nat \ {0}}
  <2>1. 0 \in S
    BY <1>4
  <2>2. \A k \in 0 .. 16 - 1 : k \in S => k + 1 \in S
    BY <1>5
  <2> HIDE DEF S
  <2>3. \A k \in 0 .. 16 : k \in S
    BY <2>1, <2>2, SetInduction
  <2> QED BY <2>3 DEF S
<1> QED BY <1>4, <1>5, <1>6

(* The bits of two numbers, merged one by one.                             *)
MergedBits(a, b, bits) ==
  /\ bits[0] = 0
  /\ \A k \in 0 .. 15 :
       bits[k + 1] = bits[k] + (IF Bit(a, k) \/ Bit(b, k) THEN Power[k] ELSE 0)

LEMMA MergedIs ==
  ASSUME NEW a, NEW b
  PROVE  \E bits : MergedBits(a, b, bits) /\ Merged(a, b) = bits[16]
<1> DEFINE Plus(k) == IF Bit(a, k) \/ Bit(b, k) THEN Power[k] ELSE 0
           Equation(bits) ==
             bits = [n \in 0 .. 16 |->
                       IF n = 0 THEN 0
                       ELSE bits[n - 1]
                              + (IF Bit(a, n - 1) \/ Bit(b, n - 1) THEN Power[n - 1] ELSE 0)]
           Made == CHOOSE bits : Equation(bits)
<1>1. \A k \in 0 .. 15 : Plus(k) \in Nat
  BY Powers
<1> HIDE DEF Plus
<1>2. PICK f : Equation(f)
  <2>1. PICK V, step : V = Nat /\ step = [k \in 0 .. 16 - 1 |-> [x \in Nat |-> x + Plus(k)]]
    OBVIOUS
  <2>2. step \in Steps(16, V) /\ 16 \in Nat /\ 0 \in V
    <3>1. \A k \in 0 .. 16 - 1 : [x \in Nat |-> x + Plus(k)] \in [Nat -> Nat]
      BY <1>1
    <3> QED BY <2>1, <3>1 DEF Steps
  <2>3. PICK f : Follows(f, 16, V, 0, step)
    BY <2>2, StepByStep
  <2>4. /\ f \in [0 .. 16 -> Nat] /\ f[0] = 0
        /\ \A k \in 0 .. 15 : f[k + 1] = step[k][f[k]]
    BY <2>1, <2>3 DEF Follows
  <2>5. \A k \in 0 .. 15 : f[k] \in Nat /\ step[k][f[k]] = f[k] + Plus(k)
    BY <2>1, <2>4
  <2>6. \A n \in 0 .. 16 : f[n] = IF n = 0 THEN 0 ELSE f[n - 1] + Plus(n - 1)
    <3> SUFFICES ASSUME NEW n \in 0 .. 16, n # 0 PROVE f[n] = f[n - 1] + Plus(n - 1)
      BY <2>4
    <3>1. n - 1 \in 0 .. 15 /\ (n - 1) + 1 = n
      OBVIOUS
    <3> QED BY <2>4, <2>5, <3>1
  <2>7. f = [n \in 0 .. 16 |-> f[n]]
    BY <2>4
  <2> QED BY <2>6, <2>7 DEF Plus
<1>3. Merged(a, b) = Made[16]
  BY DEF Merged
<1> HIDE DEF Equation
<1>4. Equation(Made)
  BY <1>2
<1> HIDE DEF Made
<1> USE DEF Equation
<1>5. Made[0] = 0
  BY <1>4
<1>6. ASSUME NEW k \in 0 .. 15
      PROVE  Made[k + 1] = Made[k] + (IF Bit(a, k) \/ Bit(b, k) THEN Power[k] ELSE 0)
  <2>1. k + 1 \in 0 .. 16 /\ k + 1 # 0 /\ (k + 1) - 1 = k
    OBVIOUS
  <2> QED BY <1>4, <2>1
<1> QED BY <1>3, <1>5, <1>6 DEF MergedBits

(* The powers grow. *)
LEMMA PowersGrow ==
  ASSUME NEW h \in 0 .. 16, NEW k \in h .. 16
  PROVE  Power[h] <= Power[k]
<1> DEFINE S == {m \in 0 .. 16 : m >= h => Power[h] <= Power[m]}
<1>1. 0 \in S
  <2>1. 0 >= h => h = 0
    OBVIOUS
  <2> QED BY <2>1, Powers
<1>2. ASSUME NEW m \in 0 .. 16 - 1, m \in S PROVE m + 1 \in S
  <2>1. /\ Power[m + 1] = 2 * Power[m] /\ Power[m] \in Nat /\ Power[h] \in Nat
        /\ Power[m + 1] \in Nat /\ m + 1 \in 0 .. 16
    BY Powers
  <2>2. CASE m >= h
    BY <1>2, <2>1, <2>2
  <2>3. CASE ~(m >= h)
    <3>1. m + 1 >= h => m + 1 = h
      BY <2>3
    <3> QED BY <2>1, <3>1
  <2> QED BY <2>2, <2>3
<1> HIDE DEF S
<1>3. \A m \in 0 .. 16 : m \in S
  BY <1>1, <1>2, SetInduction
<1> QED BY <1>3 DEF S

(* A number that is less than a power has no bits from there on.           *)
LEMMA NoBits ==
  ASSUME NEW h \in 0 .. 16, NEW a \in 0 .. Power[h] - 1, NEW k \in h .. 16
  PROVE  ~Bit(a, k) /\ a < Power[k]
<1>4. Power[h] <= Power[k]
  BY PowersGrow
<1>5. PICK p \in Nat \ {0} : p = Power[k] /\ Power[h] \in Nat
  BY Powers
<1>6. a \in 0 .. p - 1
  BY <1>4, <1>5
<1>7. a = p * 0 + a
  BY <1>6
<1>8. a \div p = 0
  BY <1>5, <1>6, <1>7, Unique
<1> QED BY <1>5, <1>6, <1>8 DEF Bit

(* The bits of two halves make a half.                                     *)
LEMMA MergedFits ==
  ASSUME NEW a \in 0 .. Half - 1, NEW b \in 0 .. Half - 1
  PROVE  Merged(a, b) \in 0 .. Half - 1
<1>1. PICK h \in 0 .. 16 : Half = Power[h]
  BY FixupsAssumption
<1>2. PICK bits : MergedBits(a, b, bits) /\ Merged(a, b) = bits[16]
  BY MergedIs
<1> DEFINE S == {k \in 0 .. 16 : /\ bits[k] \in Nat
                                 /\ bits[k] < Power[k] /\ bits[k] < Power[h]}
<1>3. 0 \in S
  BY <1>2, Powers DEF MergedBits
<1>4. ASSUME NEW k \in 0 .. 16 - 1, k \in S PROVE k + 1 \in S
  <2>1. /\ bits[k + 1] = bits[k] + (IF Bit(a, k) \/ Bit(b, k) THEN Power[k] ELSE 0)
        /\ Power[k + 1] = 2 * Power[k] /\ Power[k] \in Nat /\ Power[h] \in Nat
        /\ bits[k] \in Nat /\ bits[k] < Power[k] /\ bits[k] < Power[h]
        /\ k + 1 \in 0 .. 16
    BY <1>2, <1>4, Powers DEF MergedBits
  <2>2. CASE k < h
    <3>1. bits[k + 1] \in Nat /\ bits[k + 1] < Power[k + 1]
      BY <2>1
    <3>2. Power[k + 1] <= Power[h]
      BY <2>2, PowersGrow
    <3> QED BY <2>1, <3>1, <3>2
  <2>3. CASE ~(k < h)
    <3>1. ~Bit(a, k) /\ ~Bit(b, k)
      BY <1>1, <2>3, NoBits
    <3> QED BY <2>1, <3>1
  <2> QED BY <2>2, <2>3
<1> HIDE DEF S
<1>5. \A k \in 0 .. 16 : k \in S
  BY <1>3, <1>4, SetInduction
<1>6. 16 \in S
  BY <1>5
<1>7. bits[16] \in Nat /\ bits[16] < Power[h]
  BY <1>6 DEF S
<1>8. Power[h] \in Nat
  BY Powers
<1> QED BY <1>1, <1>2, <1>7, <1>8

LEMMA OrFits ==
  ASSUME NEW a \in 0 .. Half - 1, NEW b \in 0 .. Half - 1
  PROVE  Or(a, b) \in 0 .. Half - 1
BY MergedFits DEF Or

(* A field at the lower end of a word, written anew.                       *)
LEMMA FieldWritten ==
  ASSUME NEW n \in Nat \ {0}, NEW m \in Nat \ {0}, n * m = WordSize,
         NEW w \in Word, NEW v \in 0 .. n - 1
  PROVE  (w \div n) * n + v \in Word /\ ((w \div n) * n + v) \div n = w \div n
<1>1. PICK q \in Int, r \in 0 .. n - 1 : q = w \div n /\ w = n * q + r
  <2>1. w \in Int
    BY Words DEF Word
  <2> QED BY <2>1, DivMod
<1>2. w \in Nat /\ w < n * m
  BY Words DEF Word
<1>3. q \in 0 .. m - 1
  <2>1. CASE q < 0
    <3>1. n * q <= -n
      BY <2>1
    <3> QED BY <1>1, <1>2, <3>1
  <2>2. CASE q >= m
    <3>1. n * q >= n * m
      <4>1. PICK j \in Nat : q = m + j
        BY <2>2
      <4>2. n * q = n * m + n * j /\ n * j \in Nat /\ n * m \in Nat
        BY <4>1
      <4> QED BY <4>2
    <3> QED BY <1>1, <1>2, <3>1
  <2> QED BY <2>1, <2>2
<1>4. q * n + v \in 0 .. n * m - 1
  BY <1>3, Digits
<1>5. PICK x \in Int : x = q * n + v /\ x = n * q + v
  BY <1>3
<1>6. x \div n = q
  BY <1>5, Unique
<1> QED BY <1>1, <1>4, <1>5, <1>6 DEF Word

-----------------------------------------------------------------------------
(* The inductive invariant, and the theorems. *)

FixupsInv ==
  /\ Common /\ ARMInv
  /\ ~Of(ARMTypes) => Bound /\ Done

LEMMA FixupsInit == Init => FixupsInv
<1> SUFFICES ASSUME Init PROVE FixupsInv
  OBVIOUS
<1>1. GoodObject
  BY Objects_Good DEF Init
<1>2. /\ i = 1 /\ pc = "relocate" /\ inst = obj.inst /\ stub = <<>>
      /\ my_addr = IF obj.extern THEN 0 ELSE obj.target
  BY DEF Init
<1>3. DOMAIN obj.types \subseteq Nat \ {0} /\ obj.target \in Nat /\ obj.extern \in BOOLEAN
  BY <1>1 DEF GoodObject
<1>4. my_addr = obj.target \/ (my_addr = 0 /\ obj.extern)
  BY <1>2
<1>5. my_addr \in Nat
  BY <1>3, <1>4
<1>6. \A k \in DOMAIN obj.types : ~Patched(k)
  BY <1>2, <1>3 DEF Patched
<1>7. Common
  BY <1>1, <1>2, <1>3 DEF Common, GoodObject
<1>8. ARMInv
  BY <1>2, <1>4, <1>5, <1>6 DEF ARMInv, Stubbed, Calls, Moves
<1>9. Bound /\ Done
  <2>1. Same(WordSize, obj.target, obj.target)
    BY <1>3, Words, SameSelf
  <2> QED BY <1>2, <1>4, <1>5, <1>6, <2>1 DEF Bound, Done
<1> QED BY <1>7, <1>8, <1>9 DEF FixupsInv

LEMMA FixupsNext == FixupsInv /\ [Next]_vars => FixupsInv'
<1> SUFFICES ASSUME FixupsInv, [Next]_vars PROVE FixupsInv'
  OBVIOUS
<1>1. CASE Next /\ Of(ARMTypes)
  <2>1. obj' = obj
    BY <1>1, ARMDue DEF FixupsInv
  <2>2. Of(ARMTypes)'
    BY <1>1, <2>1, SameObject
  <2>3. Common' /\ ARMInv'
    BY <1>1, ARMDue, ABS32Step, CallStep, MovStep DEF FixupsInv
  <2> QED BY <2>2, <2>3 DEF FixupsInv
<1>2. CASE Next /\ ~Of(ARMTypes)
  <2>1. obj' = obj
    BY <1>2, OthersWrite DEF FixupsInv, Writes
  <2>2. ~Of(ARMTypes)'
    BY <1>2, <2>1, SameObject
  <2>3. Common' /\ Bound' /\ Done'
    BY <1>2, OthersStep DEF FixupsInv
  <2> QED BY <2>2, <2>3 DEF FixupsInv, ARMInv
<1>3. CASE UNCHANGED vars
  BY <1>3 DEF vars, FixupsInv, Common, GoodObject, Of, Waiting, ARMInv, Stubbed, StubTable,
     Calls, Patched, Reach, Place, Moves, Moved, Bound, Small, Done, Value
<1> QED BY <1>1, <1>2, <1>3

(* For every object, the words before the loop's place are what the        *)
(* relocator computes from the address the symbol still has, those behind  *)
(* it are untouched, and an ARM function that has a stub is reached        *)
(* through that stub (ELFObject.hxx:122-403).                              *)
THEOREM FixupsInvariant == Spec => []FixupsInv
<1> QED BY FixupsInit, FixupsNext, PTL DEF Spec

(* A patched call arrives where it should (ELFObject.hxx:159-219).         *)
THEOREM BranchArrivesHolds == Spec => []BranchArrives
<1>1. FixupsInv => BranchArrives
  BY BranchArrivesThere DEF FixupsInv
<1> QED BY <1>1, FixupsInvariant, PTL

(* A call that is given up has no branch that would do                     *)
(* (ELFObject.hxx:213-216).                                                *)
THEOREM FarOnlyIfFarHolds == Spec => []FarOnlyIfFar
<1>1. FixupsInv => FarOnlyIfFar
  BY FarIsFar DEF FixupsInv
<1> QED BY <1>1, FixupsInvariant, PTL

(* What a movw/movt pair adds up to, and what it loses                     *)
(* (ELFObject.hxx:230-239).                                                *)
THEOREM MovPairGivesHolds == Spec => []MovPairGives
<1>1. FixupsInv => MovPairGives
  BY MovPairSum DEF FixupsInv
<1> QED BY <1>1, FixupsInvariant, PTL

(* A lui/addiu pair gives the symbol (ELFObject.hxx:380-388).              *)
THEOREM HiLoPairGivesHolds == Spec => []HiLoPairGives
<1>1. ASSUME FixupsInv PROVE HiLoPairGives
  <2>1. CASE Of(ARMTypes)
    BY <2>1 DEF HiLoPairGives, Of, ARMTypes
  <2>2. CASE ~Of(ARMTypes)
    BY <1>1, <2>2, HiLoPairSum DEF FixupsInv
  <2> QED BY <2>1, <2>2
<1> QED BY <1>1, FixupsInvariant, PTL

(* A PC-relative word leads to the symbol (ELFObject.hxx:290-292, 336-338). *)
THEOREM PcLeadsHolds == Spec => []PcLeads
<1>1. ASSUME FixupsInv PROVE PcLeads
  <2>1. CASE Of(ARMTypes)
    BY <2>1 DEF PcLeads, Of, ARMTypes
  <2>2. CASE ~Of(ARMTypes)
    BY <1>1, <2>2, PcLeadsThere DEF FixupsInv
  <2> QED BY <2>1, <2>2
<1> QED BY <1>1, FixupsInvariant, PTL

(* Nothing is lost of an address in the lower 2 GB                         *)
(* (ELFObject.hxx:269-278, 285-297).                                       *)
THEOREM LowAddressExactHolds == Spec => []LowAddressExact
<1>1. ASSUME FixupsInv PROVE LowAddressExact
  <2>1. CASE Of(ARMTypes)
    BY <2>1 DEF LowAddressExact, Of, ARMTypes, X64Types
  <2>2. CASE ~Of(ARMTypes)
    BY <1>1, <2>2, LowAddressKept DEF FixupsInv
  <2> QED BY <2>1, <2>2
<1> QED BY <1>1, FixupsInvariant, PTL

-----------------------------------------------------------------------------
(* What is left of a word w in v, whose field has been written for an      *)
(* entry of this type: the rest of the instruction.                        *)
Kept(type, w, v) ==
  /\ v \in Word
  /\ type = "R_ARM_CALL" => v \div Field = w \div Field
  /\ type \in {"R_ARM_MOVW_ABS_NC", "R_ARM_MOVT_ABS"} =>
       /\ v \div (Half * Nibble) = w \div (Half * Nibble)
       /\ (v \div Low) % Nibble = (w \div Low) % Nibble
  /\ type \in {"R_MIPS_HI16", "R_MIPS_LO16"} => v \div Half = w \div Half
  /\ type = "R_MIPS_26" => v \div Jump = w \div Jump

(* Entries that give a whole word keep nothing, and need not.              *)
LEMMA WholeWritten ==
  ASSUME NEW type, NEW w, NEW v \in Word,
         type \in {"R_ARM_ABS32", "R_386_32", "R_386_PC32", "R_MIPS_32", "R_X86_64_64",
                   "R_X86_64_PC32", "R_X86_64_32", "R_X86_64_32S"}
  PROVE  Kept(type, w, v)
BY DEF Kept

LEMMA CallWritten ==
  ASSUME NEW w \in Word, NEW result \in Int
  PROVE  Kept("R_ARM_CALL", w, CallWord(w, result))
<1>1. PICK n \in Nat \ {0}, m \in Nat \ {0} : n = Field /\ m = OpSize /\ n * m = WordSize
  BY FixupsAssumption DEF WordSize
<1>2. PICK v \in 0 .. n - 1 : v = result % n
  BY DivMod
<1>3. (w \div n) * n + v \in Word /\ ((w \div n) * n + v) \div n = w \div n
  BY <1>1, FieldWritten
<1>4. PICK q \in Int : q = w \div n
  <2>1. w \in Int
    BY Words DEF Word
  <2> QED BY <2>1, DivMod
<1>5. CallWord(w, result) = (w \div n) * n + v
  BY <1>1, <1>2, <1>4 DEF CallWord
<1> QED BY <1>1, <1>3, <1>5 DEF Kept

(* Of an immediate in two parts, imm4 and imm12, Rd between them is kept.  *)
LEMMA MovWritten ==
  ASSUME NEW w \in Word, NEW r \in Int, NEW type \in {"R_ARM_MOVW_ABS_NC", "R_ARM_MOVT_ABS"}
  PROVE  Kept(type, w, MovWord(w, r))
<1>1. PICK L \in Nat \ {0}, N \in Nat \ {0}, H \in Nat \ {0} :
        L = Low /\ N = Nibble /\ H = Half /\ H = L * N /\ WordSize = H * H
  BY Halves, Products
<1>2. PICK B \in Nat \ {0} : B = H * N
  OBVIOUS
<1>3. B * L = WordSize
  <2>1. (H * N) * L = H * (L * N)
    OBVIOUS
  <2> QED BY <1>1, <1>2, <2>1
<1>4. PICK e \in 0 .. L - 1 : e = r % L
  BY DivMod
<1>5. PICK d \in 0 .. N - 1 : d = (r \div L) % N
  <2>1. r \div L \in Int
    BY DivMod
  <2> QED BY <2>1, DivMod
<1>6. w \in Int
  BY Words DEF Word
<1>7. PICK g \in 0 .. N - 1 : g = (w \div L) % N
  <2>1. w \div L \in Int
    BY <1>6, DivMod
  <2> QED BY <2>1, DivMod
<1>8. PICK q \in Int : q = w \div B
  BY <1>6, DivMod
<1>9. PICK t \in 0 .. H - 1 : t = g * L + e
  BY <1>1, Digits
<1>10. PICK v \in 0 .. B - 1 : v = d * H + t
  BY <1>2, Digits
<1>11. q * B + v \in Word /\ (q * B + v) \div B = q
  BY <1>3, <1>8, FieldWritten
<1>12. PICK X \in Int : X = q * B + v
  OBVIOUS
<1>13. MovWord(w, r) = X
  <2>1. MovWord(w, r) = d * H + e + (q * B + g * L)
    BY <1>1, <1>2, <1>4, <1>5, <1>7, <1>8 DEF MovWord, MovKept
  <2>2. PICK x \in Int, y \in Int, z \in Int : x = d * H /\ y = q * B /\ z = g * L
    OBVIOUS
  <2>3. e \in Int /\ t \in Int /\ v \in Int
    OBVIOUS
  <2> QED BY <1>9, <1>10, <1>12, <2>1, <2>2, <2>3
<1>14. (X \div L) % N = g
  <2>1. PICK j \in Int : j = q * (N * N) + d * N
    OBVIOUS
  <2>2. PICK l \in Int : l = j + g
    OBVIOUS
  <2>3. L * j = q * ((L * N) * N) + d * (L * N)
    BY <2>1
  <2>4. L * l = L * j + g * L
    BY <2>2
  <2>5. X = L * l + e
    BY <1>1, <1>2, <1>9, <1>10, <1>12, <2>3, <2>4
  <2>6. X \div L = l
    BY <2>5, Unique
  <2>7. PICK o \in Int : o = q * N + d
    OBVIOUS
  <2>8. N * o = j
    BY <2>1, <2>7
  <2>9. l = N * o + g
    BY <2>2, <2>8
  <2>10. l % N = g
    BY <2>9, Unique
  <2> QED BY <2>6, <2>10
<1>15. X \in Word /\ X \div B = q
  BY <1>11, <1>12
<1>16. MovWord(w, r) \div (Half * Nibble) = w \div (Half * Nibble)
  BY <1>1, <1>2, <1>8, <1>13, <1>15
<1>17. (MovWord(w, r) \div Low) % Nibble = (w \div Low) % Nibble
  BY <1>1, <1>7, <1>13, <1>14
<1> QED BY <1>13, <1>15, <1>16, <1>17 DEF Kept

LEMMA HalfWritten ==
  ASSUME NEW w \in Word, NEW value \in 0 .. Half - 1, NEW type \in {"R_MIPS_HI16", "R_MIPS_LO16"}
  PROVE  Kept(type, w, OrInto(w, Half, value))
<1>1. w \in Int /\ Half \in Nat \ {0} /\ Half * Half = WordSize
  BY Words, Halves, Products DEF Word
<1>2. w % Half \in 0 .. Half - 1
  BY <1>1, DivMod
<1>3. PICK v \in 0 .. Half - 1 : v = Or(w % Half, value)
  BY <1>2, OrFits
<1>4. (w \div Half) * Half + v \in Word /\ ((w \div Half) * Half + v) \div Half = w \div Half
  BY <1>1, FieldWritten
<1> QED BY <1>3, <1>4 DEF Kept, OrInto

LEMMA JumpWritten ==
  ASSUME NEW w \in Word, w % Jump = 0, NEW value \in 0 .. Jump - 1
  PROVE  Kept("R_MIPS_26", w, OrInto(w, Jump, value))
<1>1. PICK n \in Nat \ {0}, m \in Nat \ {0} : n = Jump /\ m = 4 * Regions /\ n * m = WordSize
  <2>1. Jump * (4 * Regions) = (4 * Jump) * Regions
    BY FixupsAssumption
  <2> QED BY <2>1, FixupsAssumption
<1>2. (w \div n) * n + value \in Word /\ ((w \div n) * n + value) \div n = w \div n
  BY <1>1, FieldWritten
<1>3. OrInto(w, Jump, value) = (w \div n) * n + value
  BY <1>1 DEF OrInto, Or
<1> QED BY <1>1, <1>2, <1>3 DEF Kept

(* The words, and where the loop is, in every state.                       *)
KeptInv ==
  /\ \E s \in Shapes : obj \in Objects(s)
  /\ pc \in {"relocate", "aborted"}
  /\ i \in 1 .. Len(obj.types) + 1
  /\ \A k \in DOMAIN obj.types : Kept(obj.types[k], obj.inst[k], inst[k])

(* Every step leaves the words alone, or writes one that keeps the rest.   *)
LEMMA KeepsTheRest ==
  ASSUME FixupsInv, Next, \A k \in DOMAIN obj.types : inst[k] \in Word
  PROVE  /\ obj' = obj /\ i \in DOMAIN obj.types /\ inst[i] = obj.inst[i]
         /\ pc' \in {"relocate", "aborted"} /\ i' \in {i, i + 1}
         /\ \/ inst' = inst
            \/ \E v : inst' = [inst EXCEPT ![i] = v] /\ Kept(obj.types[i], inst[i], v)
<1>1. obj' = obj /\ pc = "relocate" /\ i \in DOMAIN obj.types
  BY DEF Next, ARM_ABS32, ARM_CALL, ARM_MOV, Absolute, PcRelative, MIPS_HI16, MIPS_LO16,
         MIPS_26, Due
<1>2. /\ inst[i] = obj.inst[i] /\ i \in DOMAIN inst /\ inst[i] \in Word /\ inst[i] \in Int
  BY <1>1, Words DEF FixupsInv, Common, Waiting, Word
<1>3. PICK w \in Word : w = inst[i] /\ w \in Int
  BY <1>2
<1>4. my_addr \in Int
  BY DEF FixupsInv, ARMInv, Bound
<1>5. ASSUME NEW v, Kept(obj.types[i], w, v), Write(v) \/ (Stop /\ inst' = inst)
      PROVE  /\ pc' \in {"relocate", "aborted"} /\ i' \in {i, i + 1}
             /\ \/ inst' = inst
                \/ \E u : inst' = [inst EXCEPT ![i] = u] /\ Kept(obj.types[i], inst[i], u)
  BY <1>1, <1>3, <1>5 DEF Write, Stop
<1>6. CASE ARM_ABS32
  <2>1. uint32_t(my_addr + w) \in Word
    BY <1>3, <1>4, Cast
  <2> QED BY <1>1, <1>2, <1>3, <1>5, <1>6, <2>1, WholeWritten DEF ARM_ABS32, Due
<1>7. CASE ARM_CALL
  <2>1. obj.types[i] = "R_ARM_CALL"
    BY <1>7 DEF ARM_CALL, Due
  <2>2. PICK a \in Int : BranchTo(a)
    <3>1. StubTable \in Int
      BY DEF StubTable, FixupsInv, Common, GoodObject
    <3> QED BY <1>4, <1>7, <3>1 DEF ARM_CALL
  <2>3. PICK result : /\ result = CallResult(Inst_t(a), Inst_t(Place(i)), SignExtend(w % Field))
                      /\ Stop \/ Write(CallWord(w, result))
    BY <1>3, <2>2 DEF BranchTo
  <2>4. CASE Stop
    BY <1>1, <1>2, <2>4 DEF Stop
  <2>5. CASE Write(CallWord(w, result))
    <3>1. PICK S \in Int, P \in Int, A \in Int :
            S = Inst_t(a) /\ P = Inst_t(Place(i)) /\ A = SignExtend(w % Field)
      <4>1. Inst_t(a) \in Int
        BY Cast, Words
      <4>2. Place(i) \in Int
        BY <1>1, Places DEF FixupsInv, Common
      <4>3. Inst_t(Place(i)) \in Int
        BY <4>2, Cast, Words
      <4>4. SignExtend(w % Field) \in Int
        BY <1>3, Offsets, Fields
      <4> QED BY <4>1, <4>3, <4>4
    <3>2. PICK x \in Int : x = (S \div 4) - (P \div 4) + A
      OBVIOUS
    <3>3. uint32_t(x) \in Int
      BY Cast, Words DEF Word
    <3>4. result \in Int
      BY <2>3, <3>1, <3>2, <3>3 DEF CallResult
    <3>5. Kept(obj.types[i], w, CallWord(w, result))
      BY <2>1, <3>4, CallWritten
    <3> QED BY <1>1, <1>2, <1>5, <2>5, <3>5
  <2> QED BY <2>3, <2>4, <2>5
<1>8. CASE ARM_MOV
  <2>1. obj.types[i] \in {"R_ARM_MOVW_ABS_NC", "R_ARM_MOVT_ABS"}
    BY <1>8 DEF ARM_MOV, Due
  <2>2. my_addr' \in Int
    BY <1>4, <1>8 DEF ARM_MOV, Resolved, FixupsInv, Common, GoodObject
  <2>3. PICK S \in Int : S = Inst_t(my_addr')
    BY <2>2, Cast, Words
  <2>4. MovValue(obj.types[i], S) \in Int /\ MovField(w) \in Int
    BY <1>3, Halves, FieldRange DEF MovValue
  <2>5. PICK r \in Int : r = uint32_t(MovValue(obj.types[i], S) + MovField(w))
    BY <2>4, Cast, Words DEF Word
  <2>6. Kept(obj.types[i], w, MovWord(w, r))
    BY <2>1, MovWritten
  <2>7. Write(MovWord(w, r))
    BY <1>3, <1>8, <2>3, <2>5 DEF ARM_MOV
  <2> QED BY <1>1, <1>2, <1>5, <2>6, <2>7
<1>9. ASSUME Absolute \/ PcRelative \/ MIPS_HI16 \/ MIPS_LO16 \/ MIPS_26
      PROVE  /\ ~Of(ARMTypes) /\ S_of = Inst_t(obj.target) /\ S_of \in Int /\ A_of \in Int
             /\ Inst_t(Place(i)) \in Int
  <2>1. obj.types[i] \notin ARMTypes
    BY <1>9 DEF Absolute, PcRelative, MIPS_HI16, MIPS_LO16, MIPS_26, Due, ARMTypes
  <2>2. ~Of(ARMTypes)
    BY <1>1, <2>1 DEF Of
  <2>3. S_of = Inst_t(obj.target)
    BY <2>2, Symbol DEF FixupsInv
  <2>4. obj.target \in Int /\ obj.addend \in Int /\ Place(i) \in Int
    BY <1>1, Places DEF FixupsInv, Common, GoodObject
  <2>5. Inst_t(obj.target) \in Int /\ Inst_t(obj.addend) \in Int /\ Inst_t(w) \in Int
        /\ Inst_t(Place(i)) \in Int
    BY <1>3, <2>4, Cast, Words
  <2> QED BY <1>3, <2>2, <2>3, <2>5 DEF A_of
<1>10. CASE Absolute
  <2>1. obj.types[i] \in {"R_386_32", "R_MIPS_32", "R_X86_64_64", "R_X86_64_32", "R_X86_64_32S"}
    BY <1>10 DEF Absolute, Due
  <2>2. PICK v \in Word : v = uint32_t(S_of + A_of)
    BY <1>9, <1>10, Cast
  <2>3. Kept(obj.types[i], w, v)
    BY <2>1, WholeWritten
  <2> QED BY <1>1, <1>2, <1>5, <1>10, <2>2, <2>3 DEF Absolute
<1>11. CASE PcRelative
  <2>1. obj.types[i] \in {"R_386_PC32", "R_X86_64_PC32"}
    BY <1>11 DEF PcRelative, Due
  <2>2. PICK v \in Word : v = PcWord(S_of, A_of, Inst_t(Place(i)))
    BY <1>9, <1>11, Cast DEF PcWord
  <2>3. Kept(obj.types[i], w, v)
    BY <2>1, WholeWritten
  <2> QED BY <1>1, <1>2, <1>5, <1>11, <2>2, <2>3 DEF PcRelative
<1>12. CASE MIPS_HI16
  <2>1. obj.types[i] = "R_MIPS_HI16"
    BY <1>12 DEF MIPS_HI16, Due
  <2>2. Hi(S_of, w % Half) \in 0 .. Half - 1
    <3>1. w % Half \in Int
      BY <1>3, Halves, DivMod
    <3>2. PICK x \in Int : x = S_of + (w % Half) + Half \div 2
      BY <1>9, <1>12, <3>1, Halves
    <3>3. x \div Half \in Int
      BY Halves, DivMod
    <3>4. (x \div Half) % Half \in 0 .. Half - 1
      BY <3>3, Halves, DivMod
    <3> QED BY <3>2, <3>4 DEF Hi
  <2>3. Kept(obj.types[i], w, OrInto(w, Half, Hi(S_of, w % Half)))
    BY <2>1, <2>2, HalfWritten
  <2>4. Write(OrInto(w, Half, Hi(S_of, w % Half)))
    BY <1>3, <1>12 DEF MIPS_HI16
  <2> QED BY <1>1, <1>2, <1>5, <2>3, <2>4
<1>13. CASE MIPS_LO16
  <2>1. obj.types[i] = "R_MIPS_LO16"
    BY <1>13 DEF MIPS_LO16, Due
  <2>2. PICK value \in 0 .. Half - 1 : value = (S_of + (w % Half)) % Half
    <3>1. w % Half \in Int
      BY <1>3, Halves, DivMod
    <3>2. S_of + (w % Half) \in Int
      BY <1>9, <1>13, <3>1
    <3> QED BY <3>2, Halves, DivMod
  <2>3. Kept(obj.types[i], w, OrInto(w, Half, value))
    BY <2>1, HalfWritten
  <2>4. Write(OrInto(w, Half, value))
    BY <1>3, <1>13, <2>2 DEF MIPS_LO16
  <2> QED BY <1>1, <1>2, <1>5, <2>3, <2>4
<1>14. CASE MIPS_26
  <2>1. obj.types[i] = "R_MIPS_26"
    BY <1>14 DEF MIPS_26, Due
  <2>2. CASE Stop
    BY <1>1, <1>2, <2>2 DEF Stop
  <2>3. CASE ~Stop
    <3>1. PICK value \in 0 .. Jump - 1 : value = (S_of \div 4) % Jump
      <4>1. S_of \div 4 \in Int
        BY <1>9, <1>14
      <4> QED BY <4>1, FixupsAssumption, DivMod
    <3>2. /\ w % Jump = 0 /\ inst' = [inst EXCEPT ![i] = OrInto(w, Jump, value)]
          /\ i' \in {i, i + 1} /\ pc' \in {"relocate", "aborted"}
      BY <1>1, <1>3, <1>14, <2>3, <3>1 DEF MIPS_26
    <3>3. Kept(obj.types[i], w, OrInto(w, Jump, value))
      BY <2>1, <3>2, JumpWritten
    <3> QED BY <1>1, <1>2, <1>3, <3>2, <3>3
  <2> QED BY <2>2, <2>3
<1>15. /\ pc' \in {"relocate", "aborted"} /\ i' \in {i, i + 1}
       /\ \/ inst' = inst
          \/ \E v : inst' = [inst EXCEPT ![i] = v] /\ Kept(obj.types[i], inst[i], v)
  BY <1>6, <1>7, <1>8, <1>10, <1>11, <1>12, <1>13, <1>14 DEF Next
<1> QED BY <1>1, <1>2, <1>15

LEMMA KeptNext == FixupsInv /\ KeptInv /\ [Next]_vars => KeptInv'
<1> SUFFICES ASSUME FixupsInv, KeptInv, [Next]_vars PROVE KeptInv'
  OBVIOUS
<1>1. CASE Next
  <2>1. \A k \in DOMAIN obj.types : inst[k] \in Word
    BY DEF KeptInv, Kept
  <2>2. /\ obj' = obj /\ i \in DOMAIN obj.types /\ inst[i] = obj.inst[i]
        /\ pc' \in {"relocate", "aborted"} /\ i' \in {i, i + 1}
        /\ \/ inst' = inst
           \/ \E v : inst' = [inst EXCEPT ![i] = v] /\ Kept(obj.types[i], inst[i], v)
    BY <1>1, <2>1, KeepsTheRest
  <2>3. i' \in 1 .. Len(obj.types) + 1
    <3>1. PICK n \in 1 .. 2 : n = Len(obj.types) /\ DOMAIN obj.types = 1 .. n
      BY DEF FixupsInv, Common, GoodObject
    <3> QED BY <2>2, <3>1
  <2>4. ASSUME NEW k \in DOMAIN obj.types PROVE Kept(obj.types[k], obj.inst[k], inst'[k])
    <3>1. CASE inst' = inst
      BY <3>1 DEF KeptInv
    <3>2. ASSUME NEW v, inst' = [inst EXCEPT ![i] = v], Kept(obj.types[i], inst[i], v)
          PROVE  Kept(obj.types[k], obj.inst[k], inst'[k])
      <4>1. k \in DOMAIN inst
        BY DEF FixupsInv, Common
      <4> QED BY <2>2, <3>2, <4>1 DEF KeptInv
    <3> QED BY <2>2, <3>1, <3>2
  <2>5. \E s \in Shapes : obj' \in Objects(s)
    BY <2>2 DEF KeptInv
  <2>6. \A k \in DOMAIN obj'.types : Kept(obj'.types[k], obj'.inst[k], inst'[k])
    BY <2>2, <2>4
  <2> QED BY <2>2, <2>3, <2>5, <2>6 DEF KeptInv, Kept
<1>2. CASE UNCHANGED vars
  BY <1>2 DEF vars, KeptInv, Kept
<1> QED BY <1>1, <1>2

(* For every object, every step: the words are words, and what is not of   *)
(* the field an entry's type names is as the compiler has written it       *)
(* (ELFObject.hxx:122-403).                                                *)
THEOREM KeptInvariant == Spec => [](FixupsInv /\ KeptInv)
<1>1. Init => KeptInv
  <2> SUFFICES ASSUME Init PROVE KeptInv
    OBVIOUS
  <2>1. GoodObject /\ pc = "relocate" /\ i = 1 /\ inst = obj.inst
    BY Objects_Good DEF Init
  <2>2. 1 \in 1 .. Len(obj.types) + 1
    <3>1. PICK n \in 1 .. 2 : n = Len(obj.types)
      BY <2>1 DEF GoodObject
    <3> QED BY <3>1
  <2>3. \A k \in DOMAIN obj.types : Kept(obj.types[k], obj.inst[k], inst[k])
    BY <2>1 DEF GoodObject, Kept
  <2> QED BY <2>1, <2>2, <2>3 DEF KeptInv, Init
<1> QED BY <1>1, KeptNext, FixupsInvariant, PTL DEF Spec

(* Words stay words, places and the loop's index in range.                 *)
THEOREM TypeCorrect == Spec => []TypeOK
<1>1. ASSUME FixupsInv, KeptInv PROVE TypeOK
  <2>1. my_addr \in Nat
    BY <1>1 DEF FixupsInv, ARMInv, Bound
  <2>2. DOMAIN inst = DOMAIN obj.inst
    BY <1>1 DEF FixupsInv, Common, GoodObject
  <2>3. \A k \in DOMAIN obj.types : inst[k] \in Word
    BY <1>1 DEF KeptInv, Kept
  <2> QED BY <1>1, <2>1, <2>2, <2>3 DEF KeptInv, TypeOK
<1> QED BY <1>1, KeptInvariant, PTL

(* The operation, condition and registers of a patched instruction are the *)
(* compiler's (ELFObject.hxx:218, 237-239, 382, 387, 394).                 *)
THEOREM OtherBitsKeptHolds == Spec => []OtherBitsKept
<1>1. ASSUME KeptInv PROVE OtherBitsKept
  BY <1>1 DEF KeptInv, Kept, OtherBitsKept
<1> QED BY <1>1, KeptInvariant, PTL
===============================================================================
