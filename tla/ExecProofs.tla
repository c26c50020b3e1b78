------------------------------ MODULE ExecProofs ------------------------------
(***************************************************************************)
(* A client's answers are final: for every symbol table, every naming of   *)
(* its symbols and every sequence of questions.                            *)
(***************************************************************************)
EXTENDS Exec, SHNCommonDataProofs, NumberFacts, FiniteSetTheorems

(* A known name leads to a symbol of that name.                            *)
LEMMA LookupDefines ==
  ASSUME NEW name, Known(name)
  PROVE  Lookup(name) \in Syms /\ NameOf[Lookup(name)] = name
<1>1. Defining(name) \in SUBSET (0 .. NumSyms - 1) /\ Defining(name) # {}
  BY DEF Defining, Known, Syms
<1>2. \E s \in Defining(name) : \A t \in Defining(name) : t <= s
  BY <1>1, Greatest, CommonAssumption, Zenon
<1>3. Lookup(name) \in Defining(name)
  BY <1>2 DEF Lookup
<1> QED BY <1>3 DEF Defining

-----------------------------------------------------------------------------
(* Every step of the client and the object is a step of the object.        *)
LEMMA ExecStep == [ExecNext]_execVars => [Next]_vars
<1> SUFFICES ASSUME [ExecNext]_execVars PROVE [Next]_vars
  OBVIOUS
<1>1. CASE CreateExec
  BY <1>1 DEF CreateExec, Next, RelocateAgainst, SetAddress
<1>5. CASE DisposeExec
  BY <1>5 DEF DisposeExec
<1>2. ASSUME NEW name \in Names, AskUnknown(name) \/ AskSettled(name)
      PROVE  UNCHANGED vars
  BY <1>2 DEF AskUnknown, AskSettled
<1>3. ASSUME NEW name \in Names, AskFresh(name)
      PROVE  Next
  BY <1>3, LookupDefines DEF AskFresh, Next
<1>4. CASE UNCHANGED execVars
  BY <1>4 DEF execVars
<1> QED BY <1>1, <1>2, <1>3, <1>4, <1>5 DEF ExecNext

(* What SHNCommonData promises of an object holds of an object a client    *)
(* asks: no order of questions is outside the orders considered there.     *)
THEOREM ExecRefines == ExecSpec => Spec
<1>1. ExecInit => Init
  BY DEF ExecInit
<1> QED BY <1>1, ExecStep, PTL DEF ExecSpec, Spec

(* The pool's invariant holds in every state a client can observe.         *)
THEOREM ExecPool == ExecSpec => []PoolInv
  BY ExecRefines, PoolInvariant, PTL

-----------------------------------------------------------------------------
(* The symbols an answer of NULL may stand for.                            *)
Unused(sym) == \/ IsUndefined(sym)
               \/ sym.type = "OBJECT" /\ sym.shndx = "COMMON"

(* What the client has been told is true of the object, and stays so.      *)
ExecInv == /\ answers \in [Names -> SUBSET Nat]
           /\ AnswersHold
           /\ NullOnlyIfUnused

(* A question that gives memory gives it to a symbol the client has no     *)
(* answer for, and the address is not NULL.                                *)
LEMMA FreshAddress ==
  ASSUME PoolInv, NEW s \in Syms, GetSymbolAddress(s), pc' = "loaded"
  PROVE  /\ ~Unused(symtab[s]) /\ my_addr[s] = 0
         /\ symtab' = symtab
         /\ \E a \in Nat \ {0} : my_addr' = [my_addr EXCEPT ![s] = a]
<1>1. /\ GetAddress(s, FALSE) /\ my_addr[s] = 0 /\ symtab' = symtab
      /\ symtab \in [Syms -> Symbols] /\ my_addr \in [Syms -> Nat]
      /\ pc = "loaded"
  BY TableTyped DEF GetSymbolAddress, GetAddress, PoolInv, TypeOK
<1>2. CASE /\ IsCommonData(symtab[s]) /\ symtab[s].shndx # "COMMON"
           /\ AllocateSHNCommonData(s, symtab[s].size, Align(symtab[s]))
  <2>1. s \in Pending
    BY <1>1, <1>2 DEF Pending
  <2>2. ~Unused(symtab[s])
    BY <1>2 DEF Unused, IsUndefined, IsCommonData
  <2> DEFINE start == SHNCommonDataPtr + Padding(Align(symtab[s]))
  <2>3. /\ my_addr' = [my_addr EXCEPT ![s] = start]
        /\ SHNCommonDataPtr # 0 /\ symtab[s].size > 0 /\ Align(symtab[s]) > 0
    BY <1>2, <1>1 DEF AllocateSHNCommonData, Abort
  <2>4. start \in Nat \ {0}
    <3>1. SHNCommonDataPtr \in Nat \ {0} /\ Padding(Align(symtab[s])) \in Nat
      BY <1>1, <2>1, <2>3, GivePiece
    <3> QED BY <3>1
  <2> QED BY <1>1, <2>2, <2>3, <2>4
<1>3. CASE /\ IsSectionData(symtab[s]) /\ ~HasNoAddress(symtab[s])
           /\ my_addr' = [my_addr EXCEPT ![s] = SectionAddress(symtab[s])]
  <2>1. ~Unused(symtab[s])
    BY <1>3, SectionsAssumption DEF Unused, IsSectionData, InSection, IsUndefined, Reserved
  <2>2. symtab[s].shndx \in Sections /\ symtab[s].value \in Nat
    BY <1>1, <1>3 DEF IsSectionData, InSection, Symbols
  <2>3. SecBase[symtab[s].shndx] \in Nat \ {0}
    BY <1>3, <2>2, SectionsAssumption DEF HasNoAddress
  <2>4. SectionAddress(symtab[s]) \in Nat \ {0}
    BY <2>2, <2>3 DEF SectionAddress
  <2> QED BY <1>1, <1>3, <2>1, <2>4
<1> QED BY <1>1, <1>2, <1>3 DEF GetAddress, Abort

(* While the object is being created nobody has been told anything of a    *)
(* name it has.                                                            *)
LEMMA CreateExecInv ==
  ASSUME ExecInv, CreateExec
  PROVE  ExecInv'
<1>1. /\ answers' = answers /\ symtab' = symtab
      /\ pc \notin {"loaded", "aborted"}
  BY DEF CreateExec, CountSymbol, InitCommonData, InitCommonDataFails, EndRelocate,
         RelocateAgainst, GetAddress, SetAddress
<1>2. \A name \in Names : Known(name) => answers[name] = {}
  BY <1>1 DEF ExecInv, AnswersHold
<1> QED BY <1>1, <1>2 DEF ExecInv, AnswersHold, NullOnlyIfUnused, Known, Defining

(* A question that finds its answer adds a true one.                       *)
LEMMA AskSettledInv ==
  ASSUME PoolInv, ExecInv, NEW name \in Names, AskUnknown(name) \/ AskSettled(name)
  PROVE  ExecInv'
<1>1. /\ UNCHANGED vars /\ pc = "loaded"
      /\ symtab' = symtab /\ my_addr' = my_addr /\ pc' = pc
  BY DEF AskUnknown, AskSettled, vars
<1>2. PICK a \in Nat :
        /\ answers' = [answers EXCEPT ![name] = @ \cup {a}]
        /\ Known(name) => a = my_addr[Lookup(name)] /\ Settled(Lookup(name))
        /\ ~Known(name) => a = 0
  <2>1. CASE AskUnknown(name)
    BY <2>1 DEF AskUnknown, Answer
  <2>2. CASE AskSettled(name)
    BY <2>2, LookupDefines DEF AskSettled, Answer, PoolInv, TypeOK
  <2> QED BY <2>1, <2>2
<1>3. answers' \in [Names -> SUBSET Nat]
  BY <1>2 DEF ExecInv
<1>4. \A n \in Names : answers'[n] = IF n = name THEN answers[n] \cup {a} ELSE answers[n]
  BY <1>2 DEF ExecInv
<1>5. AnswersHold'
  BY <1>1, <1>2, <1>4 DEF ExecInv, AnswersHold, Known, Defining
<1>6. NullOnlyIfUnused'
  BY <1>1, <1>2, <1>4 DEF ExecInv, NullOnlyIfUnused, Settled, Known, Defining
<1> QED BY <1>3, <1>5, <1>6 DEF ExecInv

(* A question that gives an address changes no answer given before.        *)
LEMMA AskFreshInv ==
  ASSUME PoolInv, ExecInv, NEW name \in Names, AskFresh(name)
  PROVE  ExecInv'
<1> DEFINE s == Lookup(name)
<1>1. s \in Syms /\ NameOf[s] = name /\ GetSymbolAddress(s) /\ Known(name)
  BY LookupDefines DEF AskFresh
<1>2. CASE pc' = "aborted" /\ answers' = answers
  <2>1. symtab' = symtab /\ pc = "loaded" /\ my_addr' = my_addr
    BY <1>1, <1>2 DEF GetSymbolAddress, GetAddress, AllocateSHNCommonData
  <2> QED BY <1>2, <2>1 DEF ExecInv, AnswersHold, NullOnlyIfUnused, Known, Defining
<1>3. CASE pc' = "loaded" /\ Answer(name, my_addr'[s])
  <2>1. PICK a \in Nat \ {0} : my_addr' = [my_addr EXCEPT ![s] = a]
    BY <1>1, <1>3, FreshAddress
  <2>2. ~Unused(symtab[s]) /\ my_addr[s] = 0 /\ symtab' = symtab
    BY <1>1, <1>3, FreshAddress
  <2>3. my_addr \in [Syms -> Nat]
    BY DEF PoolInv, TypeOK
  <2>4. my_addr'[s] = a /\ \A t \in Syms \ {s} : my_addr'[t] = my_addr[t]
    BY <1>1, <2>1, <2>3
  <2>5. answers[name] = {}
    BY <1>1, <2>2 DEF ExecInv, AnswersHold, NullOnlyIfUnused, Unused
  <2>6. /\ answers' \in [Names -> SUBSET Nat]
        /\ \A n \in Names : answers'[n] = IF n = name THEN {a} ELSE answers[n]
    BY <1>3, <2>4, <2>5 DEF ExecInv, Answer
  <2>7. \A n \in Names : Known(n) /\ n # name =>
          Lookup(n) \in Syms /\ my_addr'[Lookup(n)] = my_addr[Lookup(n)]
    BY <1>1, <2>4, LookupDefines
  <2>8. AnswersHold'
    <3> SUFFICES ASSUME NEW n \in Names, NEW b \in answers'[n]
                 PROVE  IF Known(n)
                        THEN pc' \in {"loaded", "aborted"} /\ b = my_addr'[Lookup(n)]
                        ELSE b = 0
      BY DEF AnswersHold, Known, Defining, Lookup
    <3>1. CASE n = name
      BY <1>1, <1>3, <2>4, <2>6, <3>1
    <3>2. CASE n # name
      BY <1>3, <2>6, <2>7, <3>2 DEF ExecInv, AnswersHold
    <3> QED BY <3>1, <3>2
  <2>9. NullOnlyIfUnused'
    BY <2>2, <2>6 DEF ExecInv, NullOnlyIfUnused, Known, Defining
  <2> QED BY <2>6, <2>8, <2>9 DEF ExecInv
<1> QED BY <1>2, <1>3 DEF AskFresh

(* Every answer a client has been given holds in every later state.        *)
THEOREM ExecInvariant == ExecSpec => []ExecInv
<1>1. ExecInit => ExecInv
  BY DEF ExecInit, ExecInv, AnswersHold, NullOnlyIfUnused
<1>2. PoolInv /\ ExecInv /\ [ExecNext]_execVars => ExecInv'
  <2> SUFFICES ASSUME PoolInv, ExecInv, [ExecNext]_execVars PROVE ExecInv'
    OBVIOUS
  <2>1. CASE CreateExec
    BY <2>1, CreateExecInv
  <2>5. CASE DisposeExec
    BY <2>5 DEF DisposeExec, vars, ExecInv, AnswersHold, NullOnlyIfUnused, Known, Defining
  <2>2. ASSUME NEW name \in Names, AskUnknown(name) \/ AskSettled(name)
        PROVE  ExecInv'
    BY <2>2, AskSettledInv
  <2>3. ASSUME NEW name \in Names, AskFresh(name)
        PROVE  ExecInv'
    BY <2>3, AskFreshInv
  <2>4. CASE UNCHANGED execVars
    BY <2>4 DEF execVars, vars, ExecInv, AnswersHold, NullOnlyIfUnused, Known, Defining
  <2> QED BY <2>1, <2>2, <2>3, <2>4, <2>5 DEF ExecNext
<1> QED BY <1>1, <1>2, ExecPool, PTL DEF ExecSpec

(* A client that asks again gets the same answer.                          *)
THEOREM AnswersHoldHolds == ExecSpec => []AnswersHold
<1>1. ExecInv => AnswersHold
  BY DEF ExecInv
<1> QED BY <1>1, ExecInvariant, PTL

(* NULL stands for an unknown name, an undefined symbol or an unused       *)
(* common.                                                                 *)
THEOREM NullOnlyIfUnusedHolds == ExecSpec => []NullOnlyIfUnused
<1>1. ExecInv => NullOnlyIfUnused
  BY DEF ExecInv
<1> QED BY <1>1, ExecInvariant, PTL

(* Addresses of two variables never lead to shared memory.                 *)
THEOREM AnswersApartHolds == ExecSpec => []AnswersApart
<1>1. PoolInv /\ ExecInv => AnswersApart
  <2> SUFFICES ASSUME PoolInv, ExecInv, NEW m \in Names, NEW n \in Names,
                      Known(m), Known(n), Lookup(m) # Lookup(n),
                      Lookup(m) \in CommonVars, Lookup(n) \in CommonVars,
                      NEW a \in answers[m] \ {0}, NEW b \in answers[n] \ {0}
               PROVE  \/ a + symtab[Lookup(m)].size <= b
                      \/ b + symtab[Lookup(n)].size <= a
    BY DEF AnswersApart, SymbolSize
  <2>1. a = my_addr[Lookup(m)] /\ b = my_addr[Lookup(n)]
    BY DEF ExecInv, AnswersHold
  <2>2. Lookup(m) \in Given /\ Lookup(n) \in Given \ {Lookup(m)}
    BY <2>1 DEF Given, CommonVars
  <2> QED BY <2>1, <2>2 DEF PoolInv, PiecesApart, Apart
<1> QED BY <1>1, ExecPool, ExecInvariant, PTL

-----------------------------------------------------------------------------
(* The list of functions. *)

(* The list a table's loop has made, symbol by symbol.                     *)
Lists(names, room) ==
  /\ names \in [0 .. NumSyms -> Seq(Names)]
  /\ names[0] = <<>>
  /\ \A k \in 0 .. NumSyms - 1 :
       names[k + 1] = IF Len(names[k]) < room /\ IsConcreteFunc(k)
                      THEN Append(names[k], NameOf[k])
                      ELSE names[k]

LEMMA ListMade ==
  ASSUME NEW room \in Nat
  PROVE  \E names : Lists(names, room) /\ ListNames(room) = names[NumSyms]
<1> DEFINE Equation(names) ==
             names = [n \in 0 .. NumSyms |->
                        IF n = 0 THEN <<>>
                        ELSE IF Len(names[n - 1]) < room /\ IsConcreteFunc(n - 1)
                             THEN Append(names[n - 1], NameOf[n - 1])
                             ELSE names[n - 1]]
           step == [k \in 0 .. NumSyms - 1 |->
                      [list \in Seq(Names) |->
                         IF Len(list) < room /\ IsConcreteFunc(k)
                         THEN Append(list, NameOf[k]) ELSE list]]
<1>1. NumSyms \in Nat
  BY CommonAssumption
<1>2. step \in [0 .. NumSyms - 1 -> [Seq(Names) -> Seq(Names)]]
  <2>1. \A k \in 0 .. NumSyms - 1 : NameOf[k] \in Names
    BY ExecAssumption DEF Syms
  <2>2. \A k \in 0 .. NumSyms - 1, list \in Seq(Names) : Append(list, NameOf[k]) \in Seq(Names)
    BY <2>1
  <2> QED BY <2>2
<1>3. PICK f \in [0 .. NumSyms -> Seq(Names)] :
        f[0] = <<>> /\ \A k \in 0 .. NumSyms - 1 : f[k + 1] = step[k][f[k]]
  <2>1. PICK V, v, n : V = Seq(Names) /\ v = <<>> /\ n = NumSyms
    OBVIOUS
  <2>2. v \in V /\ n \in Nat
    BY <1>1, <2>1
  <2> HIDE DEF step
  <2>3. PICK g : g = step
    OBVIOUS
  <2>4. g \in Steps(n, V)
    BY <1>2, <2>1, <2>3 DEF Steps
  <2>5. \E f : Follows(f, n, V, v, g)
    BY <2>2, <2>4, StepByStep
  <2> QED BY <2>1, <2>3, <2>5 DEF Follows
<1>4. Lists(f, room)
  <2>1. ASSUME NEW k \in 0 .. NumSyms - 1
        PROVE  f[k + 1] = IF Len(f[k]) < room /\ IsConcreteFunc(k)
                          THEN Append(f[k], NameOf[k]) ELSE f[k]
    <3>1. f[k] \in Seq(Names)
      BY <1>1
    <3> QED BY <1>3, <3>1
  <2> QED BY <1>3, <2>1 DEF Lists
<1>5. \A names : Lists(names, room) => Equation(names)
  <2> SUFFICES ASSUME NEW names, Lists(names, room) PROVE Equation(names)
    OBVIOUS
  <2>1. names = [n \in 0 .. NumSyms |-> names[n]]
    BY DEF Lists
  <2>2. ASSUME NEW n \in 0 .. NumSyms, n # 0
        PROVE  names[n] = IF Len(names[n - 1]) < room /\ IsConcreteFunc(n - 1)
                          THEN Append(names[n - 1], NameOf[n - 1])
                          ELSE names[n - 1]
    <3>1. PICK k \in 0 .. NumSyms - 1 : k = n - 1 /\ n = k + 1
      BY <1>1, <2>2
    <3> QED BY <3>1 DEF Lists
  <2>3. names[0] = <<>>
    BY DEF Lists
  <2> QED BY <2>1, <2>2, <2>3
<1> DEFINE Made == CHOOSE names : Equation(names)
<1>6. ListNames(room) = Made[NumSyms]
  BY DEF ListNames
<1>7. Equation(f)
  BY <1>4, <1>5
<1> HIDE DEF Equation
<1>8. Equation(Made)
  BY <1>7
<1> HIDE DEF Made
<1>9. Lists(Made, room)
  <2> USE DEF Equation
  <2>1. Made[0] = <<>>
    BY <1>1, <1>8
  <2>2. ASSUME NEW k \in 0 .. NumSyms - 1
        PROVE  Made[k + 1] = IF Len(Made[k]) < room /\ IsConcreteFunc(k)
                             THEN Append(Made[k], NameOf[k])
                             ELSE Made[k]
    <3>1. k + 1 \in 0 .. NumSyms /\ k + 1 # 0 /\ (k + 1) - 1 = k
      BY <1>1
    <3> QED BY <1>8, <3>1
  <2>3. \A k \in 0 .. NumSyms : Made[k] = f[k]
    <3> DEFINE S == {k \in 0 .. NumSyms : Made[k] = f[k]}
    <3>1. 0 \in S
      BY <1>1, <1>3, <2>1
    <3>2. ASSUME NEW k \in 0 .. NumSyms - 1, k \in S PROVE k + 1 \in S
      <4>1. k + 1 \in 0 .. NumSyms
        BY <1>1
      <4> QED BY <1>4, <2>2, <3>2, <4>1 DEF Lists
    <3> HIDE DEF S
    <3>3. \A k \in 0 .. NumSyms : k \in S
      BY <1>1, <3>1, <3>2, SetInduction
    <3> QED BY <3>3 DEF S
  <2>4. DOMAIN Made = 0 .. NumSyms
    BY <1>8
  <2>5. Made = [n \in 0 .. NumSyms |-> Made[n]]
    BY <1>8
  <2>6. Made \in [0 .. NumSyms -> Seq(Names)]
    BY <1>3, <2>3, <2>5
  <2> QED BY <2>1, <2>2, <2>6 DEF Lists
<1> QED BY <1>6, <1>9

(* How many functions lie before a place of the table; and the length and  *)
(* the content of the list that has come that far.                         *)
Before(k) == {s \in 0 .. k - 1 : IsConcreteFunc(s)}

OnlyFuncs(list) ==
  \A n \in 1 .. Len(list) : \E s \in Syms : IsConcreteFunc(s) /\ NameOf[s] = list[n]

LEMMA BeforeNext ==
  ASSUME NEW k \in Nat
  PROVE  /\ Cardinality(Before(k)) \in Nat
         /\ Cardinality(Before(k + 1))
              = Cardinality(Before(k)) + (IF IsConcreteFunc(k) THEN 1 ELSE 0)
<1>1. IsFiniteSet(Before(k))
  <2>1. IsFiniteSet(0 .. k - 1)
    BY FS_Interval
  <2>2. Before(k) \subseteq 0 .. k - 1
    BY DEF Before
  <2> QED BY <2>1, <2>2, FS_Subset
<1>2. Before(k + 1) = IF IsConcreteFunc(k) THEN Before(k) \cup {k} ELSE Before(k)
  BY DEF Before
<1>3. k \notin Before(k)
  BY DEF Before
<1>4. Cardinality(Before(k) \cup {k}) = Cardinality(Before(k)) + 1
  BY <1>1, <1>3, FS_AddElement
<1> QED BY <1>1, <1>2, <1>4, FS_CardinalityType

LEMMA ListFilled ==
  ASSUME NEW room \in Nat
  PROVE  /\ FuncCount \in Nat
         /\ ListNames(room) \in Seq(Names)
         /\ Len(ListNames(room)) = IF room < FuncCount THEN room ELSE FuncCount
         /\ OnlyFuncs(ListNames(room))
<1>1. PICK names : Lists(names, room) /\ ListNames(room) = names[NumSyms]
  BY ListMade
<1>2. NumSyms \in Nat
  BY CommonAssumption
<1> DEFINE Count(k) == Cardinality(Before(k))
           Filled(k) == /\ Len(names[k]) = IF room < Count(k) THEN room ELSE Count(k)
                        /\ OnlyFuncs(names[k])
           S == {k \in 0 .. NumSyms : Filled(k)}
<1>3. 0 \in S
  <2>1. Before(0) = {}
    BY DEF Before
  <2>2. Cardinality(Before(0)) = 0
    BY <2>1, FS_EmptySet
  <2>3. names[0] = <<>> /\ Len(<<>>) = 0
    BY <1>1 DEF Lists
  <2> QED BY <1>2, <2>2, <2>3 DEF OnlyFuncs
<1>4. ASSUME NEW k \in 0 .. NumSyms - 1, k \in S PROVE k + 1 \in S
  <2>1. k \in Nat /\ k + 1 \in 0 .. NumSyms /\ Filled(k) /\ k \in Syms
    BY <1>2, <1>4 DEF Syms
  <2>2. PICK c \in Nat : c = Cardinality(Before(k))
    BY <2>1, BeforeNext
  <2>3. PICK d \in Nat : /\ d = Cardinality(Before(k + 1))
                        /\ d = c + (IF IsConcreteFunc(k) THEN 1 ELSE 0)
    <3>1. Cardinality(Before(k + 1)) = c + (IF IsConcreteFunc(k) THEN 1 ELSE 0)
      BY <2>1, <2>2, BeforeNext
    <3>2. c + (IF IsConcreteFunc(k) THEN 1 ELSE 0) \in Nat
      OBVIOUS
    <3> QED BY <3>1, <3>2
  <2>4. names[k] \in Seq(Names) /\ Len(names[k]) \in Nat /\ NameOf[k] \in Names
    <3>1. names[k] \in Seq(Names)
      BY <1>1, <1>2, <2>1 DEF Lists
    <3> QED BY <2>1, <3>1, ExecAssumption
  <2>5. PICK list : list = names[k]
    OBVIOUS
  <2>6. Len(list) = (IF room < c THEN room ELSE c) /\ OnlyFuncs(list) /\ list \in Seq(Names)
    BY <2>1, <2>2, <2>4, <2>5
  <2>7. CASE Len(list) < room /\ IsConcreteFunc(k)
    <3>1. names[k + 1] = Append(list, NameOf[k])
      BY <1>1, <2>5, <2>7 DEF Lists
    <3>2. Len(names[k + 1]) = c + 1 /\ c + 1 = d /\ ~(room < d)
      BY <2>3, <2>4, <2>6, <2>7, <3>1
    <3>3. OnlyFuncs(names[k + 1])
      <4> SUFFICES ASSUME NEW n \in 1 .. Len(names[k + 1])
                   PROVE  \E s \in Syms : IsConcreteFunc(s) /\ NameOf[s] = names[k + 1][n]
        BY DEF OnlyFuncs
      <4>1. CASE n \in 1 .. Len(list)
        BY <2>6, <3>1, <2>4, <4>1 DEF OnlyFuncs
      <4>2. CASE n \notin 1 .. Len(list)
        <5>1. names[k + 1][n] = NameOf[k]
          BY <2>4, <2>6, <3>1, <4>2
        <5> QED BY <2>1, <2>7, <5>1
      <4> QED BY <4>1, <4>2
    <3> QED BY <2>1, <2>3, <3>2, <3>3
  <2>8. CASE ~(Len(list) < room /\ IsConcreteFunc(k))
    <3>1. names[k + 1] = list
      BY <1>1, <2>5, <2>8 DEF Lists
    <3>2. Len(list) = IF room < d THEN room ELSE d
      BY <2>3, <2>6, <2>8
    <3> QED BY <2>1, <2>3, <2>6, <3>1, <3>2
  <2> QED BY <2>7, <2>8
<1> HIDE DEF S
<1>5. \A k \in 0 .. NumSyms : k \in S
  BY <1>2, <1>3, <1>4, SetInduction
<1>6. NumSyms \in S
  BY <1>2, <1>5
<1>7. FuncCount = Count(NumSyms) /\ Count(NumSyms) \in Nat
  BY <1>2, BeforeNext DEF FuncCount, Before, Syms
<1>8. names[NumSyms] \in Seq(Names)
  BY <1>1, <1>2 DEF Lists
<1> QED BY <1>1, <1>6, <1>7, <1>8 DEF S

(* The buffer rsloaderGetFuncCount asks for holds every function and is    *)
(* not overrun, and a listed name is answered with NULL only if another    *)
(* symbol has taken it (ELFSectionSymTab.hxx:31-40 against 74-83, 53-61).  *)
THEOREM ListServesHolds == ExecSpec => []ListServes
<1>1. ASSUME ExecInv PROVE ListServes
  <2>1. ASSUME NEW room \in 0 .. NumSyms
        PROVE  Len(FuncNameList(room)) = IF room < FuncCount THEN room ELSE FuncCount
    <3>1. room \in Nat
      BY CommonAssumption
    <3> QED BY <3>1, ListFilled DEF FuncNameList
  <2>2. ASSUME NEW n \in 1 .. FuncCount, NEW name, name = FuncNameList(FuncCount)[n],
               0 \in answers[name]
        PROVE  ~IsConcreteFunc(Lookup(name))
    <3>1. FuncCount \in Nat
      BY ListFilled, CommonAssumption
    <3>2. /\ Len(ListNames(FuncCount)) = FuncCount
          /\ ListNames(FuncCount) \in Seq(Names) /\ OnlyFuncs(ListNames(FuncCount))
      BY <3>1, ListFilled
    <3>3. PICK s \in Syms : NameOf[s] = name
      BY <2>2, <3>2 DEF OnlyFuncs, FuncNameList
    <3>4. Known(name) /\ name \in Names
      BY <3>3, ExecAssumption DEF Known, Defining
    <3> QED BY <1>1, <2>2, <3>4 DEF ExecInv, NullOnlyIfUnused, IsUndefined, IsConcreteFunc
  <2> QED BY <2>1, <2>2 DEF ListServes
<1> QED BY <1>1, ExecInvariant, PTL
===============================================================================
