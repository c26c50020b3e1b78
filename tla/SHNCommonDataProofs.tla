------------------------- MODULE SHNCommonDataProofs -------------------------
(***************************************************************************)
(* The memory of the variables never runs out and its pieces never         *)
(* overlap, for every symbol table, every order of requests and every      *)
(* address mmap returns.                                                   *)
(***************************************************************************)
EXTENDS SHNCommonData, FiniteSetTheorems, FunctionTheorems, TLAPS

USE DEF Syms

(* The demand of a symbol is a natural number.                             *)
LEMMA DemandNat ==
  ASSUME NEW sym \in Symbols
  PROVE  Demand(sym) \in Nat /\ Align(sym) \in Nat
BY LcommAlignAssumption DEF Demand, Align, Symbols

(* The tokens of one symbol are as many as its demand.                     *)
LEMMA TokensOfOne ==
  ASSUME symtab \in [Syms -> Symbols], NEW s \in Syms
  PROVE  /\ IsFiniteSet({s} \X (1 .. Demand(symtab[s])))
         /\ Cardinality({s} \X (1 .. Demand(symtab[s]))) = Demand(symtab[s])
<1> DEFINE d == Demand(symtab[s])
<1>1. d \in Nat
  BY DemandNat
<1>2. IsFiniteSet(1 .. d) /\ Cardinality(1 .. d) = d
  BY <1>1, FS_Interval
<1>3. IsFiniteSet({s}) /\ Cardinality({s}) = 1
  BY FS_Singleton
<1> HIDE DEF d
<1>4. /\ IsFiniteSet({s} \X (1 .. d))
      /\ Cardinality({s} \X (1 .. d)) = Cardinality({s}) * Cardinality(1 .. d)
  BY <1>2, <1>3, FS_Product, Zenon
<1>5. Cardinality({s} \X (1 .. d)) = 1 * d
  BY <1>2, <1>3, <1>4, Zenon
<1> QED BY <1>1, <1>4, <1>5 DEF d

(* A set of symbols has finitely many tokens.                              *)
LEMMA TokensFinite ==
  ASSUME symtab \in [Syms -> Symbols], NEW S \in SUBSET Syms
  PROVE  IsFiniteSet(Tokens(S)) /\ TotalDemand(S) \in Nat
<1> DEFINE P == {{s} \X (1 .. Demand(symtab[s])) : s \in S}
           f == [s \in S |-> {s} \X (1 .. Demand(symtab[s]))]
<1>1. IsFiniteSet(S)
  <2>1. IsFiniteSet(0 .. NumSyms - 1)
    BY CommonAssumption, FS_Interval
  <2> QED BY <2>1, FS_Subset
<1>2. f \in Surjection(S, P)
  BY Fun_IsSurj
<1>3. \A t \in P : IsFiniteSet(t)
  BY TokensOfOne
<1> HIDE DEF f
<1>4. IsFiniteSet(P)
  BY <1>1, <1>2, FS_Surjection
<1>5. Tokens(S) = UNION P
  BY DEF Tokens
<1> HIDE DEF P
<1>6. IsFiniteSet(Tokens(S))
  BY <1>3, <1>4, <1>5, FS_UNION
<1> QED BY <1>6, FS_CardinalityType DEF TotalDemand

(* Taking one more symbol into a set adds its demand to the total.         *)
LEMMA TotalDemandAdd ==
  ASSUME symtab \in [Syms -> Symbols], NEW S \in SUBSET Syms,
         NEW s \in Syms, s \notin S
  PROVE  TotalDemand(S \cup {s}) = TotalDemand(S) + Demand(symtab[s])
<1> DEFINE T == {s} \X (1 .. Demand(symtab[s]))
<1>1. IsFiniteSet(T) /\ Cardinality(T) = Demand(symtab[s])
  BY TokensOfOne
<1>2. Tokens(S \cup {s}) = Tokens(S) \cup T
  BY DEF Tokens
<1>3. Tokens(S) \cap T = {}
  BY DEF Tokens
<1>4. Cardinality({}) = 0
  BY FS_EmptySet
<1>5. IsFiniteSet(Tokens(S))
  BY TokensFinite
<1>9. Cardinality(Tokens(S)) \in Nat
  BY <1>5, FS_CardinalityType
<1>6. Demand(symtab[s]) \in Nat
  BY DemandNat
<1> HIDE DEF T
<1>7. /\ IsFiniteSet(Tokens(S) \cup T)
      /\ Cardinality(Tokens(S) \cup T) = Cardinality(Tokens(S)) + Cardinality(T)
                                           - Cardinality(Tokens(S) \cap T)
  BY <1>1, <1>5, FS_Union
<1>10. Cardinality(Tokens(S) \cap T) = 0
  BY <1>3, <1>4
<1>8. Cardinality(Tokens(S) \cup T) = Cardinality(Tokens(S)) + Demand(symtab[s]) - 0
  BY <1>1, <1>7, <1>10
<1>11. \A a, b \in Nat : a + b - 0 = a + b
  OBVIOUS
<1>12. Cardinality(Tokens(S) \cup T) = Cardinality(Tokens(S)) + Demand(symtab[s])
  BY <1>6, <1>8, <1>9, <1>11
<1> QED BY <1>2, <1>12 DEF TotalDemand

(* Fewer symbols do not need more.                                         *)
LEMMA TotalDemandMonotone ==
  ASSUME symtab \in [Syms -> Symbols], NEW S \in SUBSET Syms, NEW T \in SUBSET S
  PROVE  TotalDemand(T) <= TotalDemand(S)
<1>1. Tokens(T) \subseteq Tokens(S)
  BY DEF Tokens
<1>2. IsFiniteSet(Tokens(S))
  BY TokensFinite
<1> QED BY <1>1, <1>2, FS_Subset DEF TotalDemand

(* The padding is smaller than the alignment.                              *)
LEMMA PaddingBound ==
  ASSUME SHNCommonDataPtr \in Nat, NEW align \in Nat \ {0}
  PROVE  Padding(align) \in 0 .. align - 1
<1>1. SHNCommonDataPtr % align \in 0 .. align - 1
  OBVIOUS
<1> QED BY <1>1 DEF Padding

(* A pointer that has been padded is a multiple of the alignment.          *)
LEMMA PaddingAligns ==
  ASSUME SHNCommonDataPtr \in Nat, NEW align \in Nat \ {0}
  PROVE  (SHNCommonDataPtr + Padding(align)) % align = 0
<1> DEFINE x == SHNCommonDataPtr
           q == x \div align
<1>1. q \in Int /\ x = align * q + (x % align) /\ (x % align) \in 0 .. align - 1
  OBVIOUS
<1>2. x + Padding(align) = align * q \/ x + Padding(align) = align * (q + 1)
  BY <1>1 DEF Padding
<1>3. \A k \in Int : (align * k) % align = 0
  OBVIOUS
<1> QED BY <1>1, <1>2, <1>3

-----------------------------------------------------------------------------
(* Facts a step that leaves the table alone inherits.                      *)
LEMMA TableTyped ==
  ASSUME TypeOK
  PROVE  symtab \in [Syms -> Symbols]
BY CommonAssumption DEF TypeOK

(* No variable has been given memory when the loop starts to count.        *)
LEMMA InitPoolInv == Init => PoolInv
<1> SUFFICES ASSUME Init PROVE PoolInv
  OBVIOUS
<1>1. TypeOK
  BY CommonAssumption DEF Init, TypeOK, Failures
<1>2. Counted
  <2>1. Tokens(0 .. i - 1) = {}
    BY DEF Init, Tokens
  <2> QED BY <2>1, FS_EmptySet DEF Init, Counted, TotalDemand
<1>3. Given = {}
  BY DEF Init, Given
<1> QED BY <1>1, <1>2, <1>3 DEF Init, PoolInv, Accounting, PendingFits, PiecesApart

(* The counting loop.                                                      *)
LEMMA CountSymbolPoolInv ==
  ASSUME PoolInv, CountSymbol
  PROVE  PoolInv'
<1> USE DEF PoolInv
<1>1. i \in Syms /\ symtab' = symtab /\ symtab \in [Syms -> Symbols]
  BY TableTyped, CommonAssumption DEF CountSymbol, TypeOK
<1>2. Demand(symtab[i]) \in Nat
  BY <1>1, DemandNat
<1>3. TypeOK'
  <2>1. TotalDemand(Syms) \in Nat /\ TotalDemand(Syms) < SizeMod
    BY <1>1, TokensFinite DEF Counted
  <2>2. \A a \in Nat : a % SizeMod \in Nat
    BY <2>1, CommonAssumption
  <2>3. SHNCommonDataSize' \in Nat
    BY <1>2, <2>2 DEF TypeOK, CountSymbol
  <2> QED BY <1>1, <2>3, CommonAssumption DEF TypeOK, CountSymbol, poolVars
<1>4. SHNCommonDataSize' = TotalDemand(0 .. i)
  <2>1. (0 .. i - 1) \cup {i} = 0 .. i
    BY <1>1, CommonAssumption
  <2>2. 0 .. i - 1 \in SUBSET Syms /\ i \notin 0 .. i - 1
    BY <1>1, CommonAssumption
  <2>3. TotalDemand((0 .. i - 1) \cup {i})
          = TotalDemand(0 .. i - 1) + Demand(symtab[i])
    BY <1>1, <2>2, TotalDemandAdd
  <2>4. 0 .. i \in SUBSET Syms /\ Syms \in SUBSET Syms
    BY <1>1, CommonAssumption
  <2>5. TotalDemand(0 .. i) <= TotalDemand(Syms) /\ TotalDemand(Syms) < SizeMod
    BY <1>1, <2>4, TotalDemandMonotone DEF Counted
  <2>6. TotalDemand(0 .. i) \in Nat /\ TotalDemand(Syms) \in Nat
    BY <1>1, <2>4, TokensFinite
  <2>7. \A a \in Nat : a < SizeMod => a % SizeMod = a
    BY CommonAssumption
  <2>8. SHNCommonDataSize + Demand(symtab[i]) = TotalDemand(0 .. i)
    BY <2>1, <2>3 DEF Counted
  <2>9. TotalDemand(0 .. i) < SizeMod
    BY <2>5, <2>6, CommonAssumption
  <2>10. TotalDemand(0 .. i) % SizeMod = TotalDemand(0 .. i)
    BY <2>6, <2>7, <2>9
  <2> QED BY <2>8, <2>10 DEF CountSymbol
<1>5. Counted'
  <2>1. i' - 1 = i
    BY <1>1, CommonAssumption DEF CountSymbol
  <2>2. Tokens(0 .. i - 1)' = Tokens(0 .. i)
    BY <1>1, <2>1 DEF Tokens
  <2>3. SHNCommonDataSize' = TotalDemand(0 .. i - 1)'
    BY <1>4, <2>2 DEF TotalDemand
  <2>4. pc' = "count" /\ chunk' = 0
    BY DEF CountSymbol, Counted, poolVars
  <2>5. TotalDemand(Syms)' = TotalDemand(Syms)
    BY <1>1 DEF TotalDemand, Tokens
  <2> QED BY <2>3, <2>4, <2>5 DEF Counted
<1>6. chunk' = 0 /\ Given' = Given
  BY <1>1 DEF CountSymbol, Counted, Given, poolVars
<1>7. Given = {}
  BY DEF CountSymbol, Counted, Accounting
<1> QED BY <1>3, <1>5, <1>6, <1>7 DEF Accounting, PendingFits, PiecesApart

(* Mapping the chunk: nothing has been given out, so the whole table is    *)
(* pending, and its demand is the size of the chunk.                       *)
LEMMA InitCommonDataPoolInv ==
  ASSUME PoolInv, InitCommonData
  PROVE  PoolInv'
<1> USE DEF PoolInv
<1>1. symtab' = symtab /\ my_addr' = my_addr /\ symtab \in [Syms -> Symbols]
  BY TableTyped DEF InitCommonData
<1>2. Given = {} /\ Given' = {}
  BY <1>1 DEF InitCommonData, Counted, Accounting, Given
<1>3. /\ chunk' \in Bases /\ SHNCommonDataPtr' = chunk' /\ chunk' # 0
      /\ SHNCommonDataFreeSize' = SHNCommonDataSize
      /\ SHNCommonDataSize' = SHNCommonDataSize
      /\ pc' = "relocate" /\ i' = i /\ i = NumSyms
  BY CommonAssumption DEF InitCommonData
<1>4. TypeOK'
  BY <1>1, <1>3, CommonAssumption DEF TypeOK, InitCommonData
<1>5. Counted'
  BY <1>1, <1>3 DEF Counted, TotalDemand, Tokens
<1>6. Accounting'
  <2>1. chunk' \in Nat /\ SHNCommonDataSize \in Nat
    BY <1>3, CommonAssumption DEF TypeOK
  <2>2. \A a, b \in Nat : a <= a /\ a - a + b = b
    OBVIOUS
  <2>3. chunk' + SHNCommonDataSize <= SizeMod
    BY DEF InitCommonData
  <2> QED BY <1>2, <1>3, <2>1, <2>2, <2>3 DEF Accounting
<1>7. PendingFits'
  <2>1. TotalDemand(Syms) = SHNCommonDataFreeSize'
    BY <1>3 DEF Counted
  <2>2. Pending \in SUBSET Syms /\ Syms \in SUBSET Syms
    BY DEF Pending
  <2>3. TotalDemand(Pending) <= TotalDemand(Syms)
    BY <1>1, <2>2, TotalDemandMonotone
  <2>4. TotalDemand(Pending)' = TotalDemand(Pending)
    BY <1>1 DEF TotalDemand, Tokens, Pending
  <2> QED BY <2>1, <2>3, <2>4 DEF PendingFits
<1> QED BY <1>2, <1>4, <1>5, <1>6, <1>7 DEF PiecesApart

(* A step that leaves the chunk and the addresses of the variables alone.  *)
LEMMA QuietStepPoolInv ==
  ASSUME PoolInv, TypeOK', pc # "count" \/ i = NumSyms, pc' # "count",
         UNCHANGED <<symtab, i, SHNCommonDataSize, poolVars>>,
         \A s \in Syms : IsCommonData(symtab[s]) => my_addr'[s] = my_addr[s]
  PROVE  PoolInv'
<1> USE DEF PoolInv
<1>1. Pending' = Pending /\ Given' = Given
  BY DEF Pending, Given
<1>2. Counted'
  BY DEF Counted, TotalDemand, Tokens, poolVars
<1>3. Accounting'
  BY <1>1 DEF Accounting, poolVars
<1>4. PendingFits'
  BY <1>1 DEF PendingFits, TotalDemand, Tokens, poolVars
<1>5. \A s \in Given : my_addr'[s] = my_addr[s] /\ symtab'[s] = symtab[s]
  BY DEF Given
<1>6. PiecesApart'
  BY <1>1, <1>5 DEF PiecesApart, Within, Apart, poolVars, Given
<1> QED BY <1>2, <1>3, <1>4, <1>6

(* Giving symbol s a piece of the chunk.                                   *)
LEMMA GivePiece ==
  ASSUME PoolInv, pc \in {"relocate", "loaded"}, NEW s \in Pending,
         symtab[s].size > 0, Align(symtab[s]) > 0, SHNCommonDataPtr # 0
  PROVE  /\ SHNCommonDataPtr \in Nat /\ SHNCommonDataFreeSize \in Nat
         /\ Padding(Align(symtab[s])) \in Nat
         /\ Minus(SHNCommonDataFreeSize, Padding(Align(symtab[s])))
              = SHNCommonDataFreeSize - Padding(Align(symtab[s]))
         /\ TotalDemand(Pending \ {s}) + symtab[s].size
              <= SHNCommonDataFreeSize - Padding(Align(symtab[s]))
         /\ TotalDemand(Pending \ {s}) \in Nat
<1> DEFINE align == Align(symtab[s])
           size  == symtab[s].size
           pad   == Padding(align)
           rest  == TotalDemand(Pending \ {s})
<1>1. s \in Syms /\ IsCommonData(symtab[s]) /\ symtab \in [Syms -> Symbols]
  BY TableTyped DEF PoolInv, Pending
<1>2. /\ size \in Nat /\ align \in Nat \ {0}
      /\ Demand(symtab[s]) = size + align
  BY <1>1, DemandNat DEF Demand, Symbols
<1>3. /\ SHNCommonDataPtr \in Nat /\ SHNCommonDataFreeSize \in Nat
      /\ pad \in 0 .. align - 1
  BY <1>2, PaddingBound DEF PoolInv, TypeOK
<1>4. Pending \ {s} \in SUBSET Syms /\ (Pending \ {s}) \cup {s} = Pending
  BY DEF Pending
<1>5. rest \in Nat
  BY <1>1, <1>4, TokensFinite
<1>6. TotalDemand((Pending \ {s}) \cup {s}) = rest + Demand(symtab[s])
  BY <1>1, <1>4, TotalDemandAdd
<1>7. TotalDemand(Pending) <= SHNCommonDataFreeSize
  BY DEF PoolInv, PendingFits, TypeOK
<1>8. rest + (size + align) <= SHNCommonDataFreeSize
  BY <1>2, <1>4, <1>6, <1>7
<1> HIDE DEF align, size, pad, rest
<1>9. pad <= SHNCommonDataFreeSize /\ rest + size <= SHNCommonDataFreeSize - pad
  BY <1>2, <1>3, <1>5, <1>8
<1>10. Minus(SHNCommonDataFreeSize, pad) = SHNCommonDataFreeSize - pad
  BY <1>9 DEF Minus
<1> QED BY <1>2, <1>3, <1>5, <1>9, <1>10 DEF align, size, pad, rest

(* After s has been given a piece at start.                                *)
LEMMA PieceGiven ==
  ASSUME PoolInv, pc \in {"relocate", "loaded"}, NEW s \in Pending,
         symtab[s].size > 0, Align(symtab[s]) > 0, SHNCommonDataPtr # 0,
         NEW start \in Nat, NEW free \in Nat,
         start = SHNCommonDataPtr + Padding(Align(symtab[s])),
         free = SHNCommonDataFreeSize - Padding(Align(symtab[s])),
         SHNCommonDataPtr' = start + symtab[s].size,
         SHNCommonDataFreeSize' = free - symtab[s].size,
         my_addr' = [my_addr EXCEPT ![s] = start],
         UNCHANGED <<symtab, i, SHNCommonDataSize, pc, failure, chunk>>
  PROVE  PoolInv'
<1> DEFINE size == symtab[s].size
           pad  == Padding(Align(symtab[s]))
           rest == TotalDemand(Pending \ {s})
<1>1. /\ s \in Syms /\ IsCommonData(symtab[s]) /\ symtab \in [Syms -> Symbols]
      /\ my_addr \in [Syms -> Nat] /\ my_addr[s] = 0
  BY TableTyped DEF PoolInv, Pending, TypeOK
<1>2. size \in Nat /\ size > 0
  BY <1>1 DEF Symbols
<1>3. /\ SHNCommonDataPtr \in Nat /\ SHNCommonDataPtr > 0
      /\ SHNCommonDataFreeSize \in Nat /\ pad \in Nat /\ rest \in Nat
      /\ rest + size <= free
  BY GivePiece DEF PoolInv, TypeOK
<1>4. chunk \in Nat \ {0} /\ SHNCommonDataSize \in Nat
  BY CommonAssumption DEF PoolInv, TypeOK
<1> HIDE DEF size, pad, rest
<1>5. /\ start = SHNCommonDataPtr + pad /\ free = SHNCommonDataFreeSize - pad
      /\ SHNCommonDataPtr' = start + size
      /\ SHNCommonDataFreeSize' = free - size
  BY DEF size, pad
<1>6. TypeOK'
  <2>1. /\ SHNCommonDataPtr' \in Nat /\ SHNCommonDataPtr' # 0
        /\ SHNCommonDataFreeSize' \in Nat
    BY <1>2, <1>3, <1>5
  <2>2. my_addr' \in [Syms -> Nat]
    BY <1>1
  <2> QED BY <1>4, <2>1, <2>2 DEF PoolInv, TypeOK
<1>7. Counted'
  BY DEF PoolInv, Counted, TotalDemand, Tokens
<1>8. Accounting'
  <2>1. /\ chunk <= SHNCommonDataPtr
        /\ SHNCommonDataPtr - chunk + SHNCommonDataFreeSize = SHNCommonDataSize
    BY <1>4 DEF PoolInv, Accounting
  <2>2. /\ chunk <= SHNCommonDataPtr'
        /\ SHNCommonDataPtr' - chunk + SHNCommonDataFreeSize' = SHNCommonDataSize
    BY <1>2, <1>3, <1>4, <1>5, <2>1
  <2>3. chunk + SHNCommonDataSize <= SizeMod
    BY <1>4 DEF PoolInv, Accounting
  <2> QED BY <1>4, <2>2, <2>3 DEF Accounting
<1>9. PendingFits'
  <2>1. Pending' = Pending \ {s}
    BY <1>1, <1>3, <1>5 DEF Pending
  <2>2. TotalDemand(Pending)' = rest
    BY <2>1 DEF TotalDemand, Tokens, rest
  <2>3. rest <= SHNCommonDataFreeSize'
    BY <1>2, <1>3, <1>5
  <2> QED BY <2>2, <2>3 DEF PendingFits
<1>10. PiecesApart'
  <2>1. Given' = Given \cup {s} /\ s \notin Given
    BY <1>1, <1>3, <1>5 DEF Given
  <2>2. chunk <= SHNCommonDataPtr
    BY <1>4 DEF PoolInv, Accounting
  <2>3. my_addr'[s] = start /\ symtab'[s].size = size
    BY <1>1 DEF size
  <2>4. Within(s)'
    BY <1>2, <1>3, <1>4, <1>5, <2>2, <2>3 DEF Within
  <2>5. ASSUME NEW t \in Given
        PROVE  Within(t)' /\ Apart(t, s)' /\ Apart(s, t)'
    <3>1. /\ t \in Syms /\ t # s /\ my_addr'[t] = my_addr[t]
          /\ symtab'[t].size = symtab[t].size
          /\ my_addr[t] \in Nat /\ symtab[t].size \in Nat
      BY <1>1, <2>1 DEF Given, Symbols
    <3>2. chunk <= my_addr[t] /\ my_addr[t] + symtab[t].size <= SHNCommonDataPtr
      BY DEF PoolInv, PiecesApart, Within
    <3>3. my_addr[t] + symtab[t].size <= start
      BY <1>3, <1>5, <3>1, <3>2
    <3>4. my_addr[t] + symtab[t].size <= SHNCommonDataPtr'
      BY <1>2, <1>5, <3>1, <3>3
    <3> QED BY <2>3, <3>1, <3>2, <3>3, <3>4 DEF Within, Apart
  <2>6. ASSUME NEW t \in Given, NEW u \in Given \ {t}
        PROVE  Apart(t, u)'
    <3>1. Apart(t, u)
      BY DEF PoolInv, PiecesApart
    <3>2. t # s /\ u # s /\ t \in Syms /\ u \in Syms
      BY <2>1 DEF Given
    <3>3. my_addr'[t] = my_addr[t] /\ my_addr'[u] = my_addr[u]
      BY <1>1, <3>2
    <3> QED BY <3>1, <3>3 DEF Apart
  <2> QED BY <2>1, <2>4, <2>5, <2>6 DEF PiecesApart
<1> QED BY <1>6, <1>7, <1>8, <1>9, <1>10 DEF PoolInv

(* What allocateSHNCommonData can do for a variable: reject a malformed    *)
(* request, miss the chunk, or give a piece.  It never finds the chunk     *)
(* exhausted.                                                              *)
Rejected(why) == Abort(why) /\ UNCHANGED <<poolVars, my_addr>>

LEMMA AllocateOutcome ==
  ASSUME PoolInv, pc \in {"relocate", "loaded"}, NEW s \in Pending,
         AllocateSHNCommonData(s, symtab[s].size, Align(symtab[s])),
         NEW start, start = SHNCommonDataPtr + Padding(Align(symtab[s])),
         NEW free, free = Minus(SHNCommonDataFreeSize, Padding(Align(symtab[s])))
  PROVE  \/ (symtab[s].size = 0 \/ Align(symtab[s]) = 0) /\ Rejected("request")
         \/ SHNCommonDataPtr = 0 /\ Rejected("pool")
         \/ /\ symtab[s].size > 0 /\ Align(symtab[s]) > 0 /\ SHNCommonDataPtr # 0
            /\ start \in Nat /\ free \in Nat
            /\ free = SHNCommonDataFreeSize - Padding(Align(symtab[s]))
            /\ SHNCommonDataPtr' = start + symtab[s].size
            /\ SHNCommonDataFreeSize' = free - symtab[s].size
            /\ my_addr' = [my_addr EXCEPT ![s] = start]
            /\ UNCHANGED <<pc, failure, chunk>>
<1> DEFINE size  == symtab[s].size
           align == Align(symtab[s])
<1>1. size \in Nat /\ align \in Nat
  BY TableTyped, DemandNat DEF Symbols, Pending, PoolInv
<1>2. CASE size > 0 /\ align > 0 /\ SHNCommonDataPtr # 0
  <2>1. /\ SHNCommonDataPtr \in Nat /\ SHNCommonDataFreeSize \in Nat
        /\ Padding(align) \in Nat
        /\ free = SHNCommonDataFreeSize - Padding(align)
        /\ TotalDemand(Pending \ {s}) + size <= SHNCommonDataFreeSize - Padding(align)
        /\ TotalDemand(Pending \ {s}) \in Nat
    BY <1>1, <1>2, GivePiece
  <2> HIDE DEF size, align
  <2>2. start \in Nat /\ free \in Nat /\ ~(free < size)
    BY <1>1, <2>1 DEF align
  <2>3. /\ SHNCommonDataPtr' = start + size
        /\ SHNCommonDataFreeSize' = free - size
        /\ my_addr' = [my_addr EXCEPT ![s] = start]
        /\ UNCHANGED <<pc, failure, chunk>>
    BY <1>2, <2>2 DEF AllocateSHNCommonData, Advance, size, align
  <2> QED BY <1>2, <2>1, <2>2, <2>3 DEF size, align
<1>3. CASE ~(size > 0 /\ align > 0 /\ SHNCommonDataPtr # 0)
  BY <1>1, <1>3 DEF AllocateSHNCommonData, Rejected
<1> QED BY <1>2, <1>3

(* getAddress keeps the invariant, whoever calls it.                       *)
LEMMA GetAddressPoolInv ==
  ASSUME PoolInv, pc \in {"relocate", "loaded"}, NEW s \in Syms,
         NEW autoAlloc \in BOOLEAN, GetAddress(s, autoAlloc)
  PROVE  PoolInv'
<1> USE DEF GetAddress
<1>1. /\ UNCHANGED <<symtab, i, SHNCommonDataSize>>
      /\ symtab \in [Syms -> Symbols] /\ my_addr \in [Syms -> Nat]
  BY TableTyped DEF PoolInv, TypeOK
<1>2. i = NumSyms
  BY DEF PoolInv, Counted
<1>3. ASSUME NEW why \in Failures \ {"none"}, Abort(why),
             UNCHANGED <<poolVars, my_addr>>
      PROVE  PoolInv'
  <2>1. TypeOK' /\ pc' # "count"
    BY <1>1, <1>3 DEF PoolInv, TypeOK, Abort, poolVars
  <2> QED BY <1>1, <1>2, <1>3, <2>1, QuietStepPoolInv
<1>4. CASE /\ IsCommonData(symtab[s])
           /\ AllocateSHNCommonData(s, symtab[s].size, Align(symtab[s]))
  <2>1. s \in Pending
    BY <1>4 DEF Pending
  <2>2. CASE Rejected("request") \/ Rejected("pool")
    BY <1>3, <2>2 DEF Failures, Rejected
  <2>3. CASE ~(Rejected("request") \/ Rejected("pool"))
    BY <1>1, <1>4, <2>1, <2>3, AllocateOutcome, PieceGiven
  <2> QED BY <2>2, <2>3
<1>5. CASE /\ IsSectionData(symtab[s]) /\ ~HasNoAddress(symtab[s])
           /\ my_addr' = [my_addr EXCEPT ![s] = SectionAddress(symtab[s])]
           /\ UNCHANGED <<pc, failure, poolVars>>
  <2>1. SectionAddress(symtab[s]) \in Nat /\ ~IsCommonData(symtab[s])
    BY <1>1, <1>5, SectionsAssumption
       DEF SectionAddress, IsSectionData, IsCommonData, InSection, Symbols, Reserved
  <2>2. TypeOK'
    BY <1>1, <1>5, <2>1 DEF PoolInv, TypeOK, poolVars
  <2>3. \A t \in Syms : IsCommonData(symtab[t]) => my_addr'[t] = my_addr[t]
    BY <1>1, <1>5, <2>1
  <2> QED BY <1>1, <1>2, <1>5, <2>2, <2>3, QuietStepPoolInv
<1>6. CASE Abort("symbol") /\ UNCHANGED <<poolVars, my_addr>>
  BY <1>3, <1>6 DEF Failures
<1> QED BY <1>4, <1>5, <1>6

(* Every action preserves the invariant of the pool.                       *)
LEMMA NextPoolInv ==
  ASSUME PoolInv, [Next]_vars
  PROVE  PoolInv'
<1>1. CASE CountSymbol
  BY <1>1, CountSymbolPoolInv
<1>2. CASE InitCommonData
  BY <1>2, InitCommonDataPoolInv
<1>3. CASE InitCommonDataFails
  <2>1. TypeOK'
    BY <1>3 DEF InitCommonDataFails, PoolInv, TypeOK, poolVars
  <2> QED BY <1>3, <2>1, QuietStepPoolInv DEF InitCommonDataFails
<1>4. CASE EndRelocate
  <2>1. TypeOK' /\ i = NumSyms
    BY <1>4 DEF EndRelocate, PoolInv, TypeOK, Counted, poolVars
  <2> QED BY <1>4, <2>1, QuietStepPoolInv DEF EndRelocate
<1>5. ASSUME NEW s \in Syms, RelocateAgainst(s)
      PROVE  PoolInv'
  BY <1>5, GetAddressPoolInv DEF RelocateAgainst
<1>6. ASSUME NEW s \in Syms, GetSymbolAddress(s)
      PROVE  PoolInv'
  BY <1>6, GetAddressPoolInv DEF GetSymbolAddress
<1>7. ASSUME NEW s \in Syms, SetAddress(s)
      PROVE  PoolInv'
  <2>1. TypeOK' /\ i = NumSyms
    BY <1>7, CommonAssumption DEF SetAddress, PoolInv, TypeOK, Counted, poolVars
  <2>2. \A t \in Syms : IsCommonData(symtab[t]) => my_addr'[t] = my_addr[t]
    BY <1>7 DEF SetAddress, IsUndefined, IsCommonData, PoolInv, TypeOK
  <2> QED BY <1>7, <2>1, <2>2, QuietStepPoolInv DEF SetAddress
<1>8. CASE UNCHANGED vars
  BY <1>8 DEF vars, poolVars, PoolInv, TypeOK, Counted, Accounting, PendingFits,
              PiecesApart, Given, Pending, TotalDemand, Tokens, Within, Apart
<1> QED BY <1>1, <1>2, <1>3, <1>4, <1>5, <1>6, <1>7, <1>8 DEF Next

(* The invariant of the pool holds in every reachable state.               *)
THEOREM PoolInvariant == Spec => []PoolInv
<1>1. Init => PoolInv
  BY InitPoolInv
<1>2. PoolInv /\ [Next]_vars => PoolInv'
  BY NextPoolInv
<1> QED BY <1>1, <1>2, PTL DEF Spec

(* The types, and the agreement of program counter, failure and chunk.     *)
THEOREM TypeCorrect == Spec => []TypeOK
<1>1. PoolInv => TypeOK
  BY DEF PoolInv
<1> QED BY <1>1, PoolInvariant, PTL

-----------------------------------------------------------------------------
(* A step that starts from a good state never exhausts the chunk, and      *)
(* misses it only if memory was refused.                                   *)
LEMMA StepFailures ==
  ASSUME PoolInv, [Next]_vars
  PROVE  /\ NeverExhausted => NeverExhausted'
         /\ MissedOnlyIfRefused => MissedOnlyIfRefused'
<1> USE DEF NeverExhausted, MissedOnlyIfRefused
<1>1. CASE UNCHANGED <<failure, chunk, SHNCommonDataSize>>
  BY <1>1
<1>2. CASE CountSymbol \/ InitCommonData
  BY <1>2 DEF CountSymbol, InitCommonData, PoolInv, TypeOK
<1>3. ASSUME NEW s \in Syms, NEW autoAlloc \in BOOLEAN, pc \in {"relocate", "loaded"},
             GetAddress(s, autoAlloc)
      PROVE  /\ NeverExhausted => NeverExhausted'
             /\ MissedOnlyIfRefused => MissedOnlyIfRefused'
  <2>1. symtab \in [Syms -> Symbols] /\ SHNCommonDataSize' = SHNCommonDataSize
    BY <1>3, TableTyped DEF PoolInv, GetAddress
  <2>2. CASE /\ IsCommonData(symtab[s])
             /\ AllocateSHNCommonData(s, symtab[s].size, Align(symtab[s]))
    <3>1. s \in Pending
      BY <1>3, <2>2 DEF Pending, GetAddress
    <3>2. CASE Rejected("request")
      BY <3>2 DEF Rejected, Abort
    <3>3. CASE Rejected("pool") /\ symtab[s].size > 0 /\ SHNCommonDataPtr = 0
      <4>1. failure' = "pool" /\ chunk' = 0
        BY <3>3 DEF Rejected, Abort, poolVars, PoolInv, TypeOK
      <4>2. Demand(symtab[s]) > 0 /\ Demand(symtab[s]) \in Nat
        BY <2>1, <2>2, <3>3, DemandNat DEF Demand, Symbols
      <4>3. SHNCommonDataSize = TotalDemand(Syms)
        BY <1>3 DEF PoolInv, Counted
      <4>4. (Syms \ {s}) \cup {s} = Syms /\ Syms \ {s} \in SUBSET Syms
        OBVIOUS
      <4>5. /\ TotalDemand((Syms \ {s}) \cup {s})
                 = TotalDemand(Syms \ {s}) + Demand(symtab[s])
            /\ TotalDemand(Syms \ {s}) \in Nat
        BY <2>1, <4>4, TotalDemandAdd, TokensFinite
      <4>6. TotalDemand(Syms) = TotalDemand(Syms \ {s}) + Demand(symtab[s])
        BY <4>4, <4>5
      <4>7. SHNCommonDataSize > 0
        BY <4>2, <4>3, <4>5, <4>6
      <4> QED BY <2>1, <4>1, <4>7
    <3>4. CASE UNCHANGED <<failure, chunk>>
      BY <2>1, <3>4
    <3>5. symtab[s].size \in Nat
      BY <2>1 DEF Symbols
    <3>6. \/ Rejected("request") \/ UNCHANGED <<failure, chunk>>
          \/ Rejected("pool") /\ SHNCommonDataPtr = 0
      BY <1>3, <2>2, <3>1, AllocateOutcome
    <3>7. CASE Rejected("pool") /\ symtab[s].size = 0
      BY <2>2, <3>5, <3>7 DEF Rejected, Abort, AllocateSHNCommonData
    <3> QED BY <3>2, <3>3, <3>4, <3>5, <3>6, <3>7
  <2>3. CASE UNCHANGED <<failure, poolVars>>
    BY <2>1, <2>3 DEF poolVars
  <2>4. CASE Abort("symbol")
    BY <2>4 DEF Abort
  <2> QED BY <1>3, <2>2, <2>3, <2>4 DEF GetAddress
<1>4. CASE InitCommonDataFails \/ EndRelocate \/ \E s \in Syms : SetAddress(s)
  BY <1>1, <1>4 DEF InitCommonDataFails, EndRelocate, SetAddress, poolVars
<1>5. CASE \E s \in Syms : RelocateAgainst(s) \/ GetSymbolAddress(s)
  BY <1>3, <1>5 DEF RelocateAgainst, GetSymbolAddress
<1>6. CASE UNCHANGED vars
  BY <1>1, <1>6 DEF vars
<1> QED BY <1>2, <1>4, <1>5, <1>6 DEF Next

(* Once the chunk is mapped, no order of requests makes the loader abort   *)
(* with "Unable to allocate memory for SHN_COMMON.".                       *)
THEOREM NeverExhaustedHolds == Spec => []NeverExhausted
<1>1. Init => NeverExhausted
  BY DEF Init, NeverExhausted
<1>2. PoolInv /\ NeverExhausted /\ [Next]_vars => NeverExhausted'
  BY StepFailures
<1> QED BY <1>1, <1>2, PoolInvariant, PTL DEF Spec

(* The chunk is missed only by an object with variables whose memory mmap  *)
(* has refused.                                                            *)
THEOREM MissedOnlyIfRefusedHolds == Spec => []MissedOnlyIfRefused
<1>1. Init => MissedOnlyIfRefused
  BY DEF Init, MissedOnlyIfRefused
<1>2. PoolInv /\ MissedOnlyIfRefused /\ [Next]_vars => MissedOnlyIfRefused'
  BY StepFailures
<1> QED BY <1>1, <1>2, PoolInvariant, PTL DEF Spec

-----------------------------------------------------------------------------
(* Nothing is placed at first.                                             *)
LEMMA StorageInit == Init => Storage!AbsInit
<1> SUFFICES ASSUME Init PROVE Storage!AbsInit
  OBVIOUS
<1>1. symtab \in [Syms -> Symbols]
  BY CommonAssumption DEF Init
<1>2. \A s \in Syms : symtab[s].size \in Nat /\ Align(symtab[s]) \in Nat
  BY <1>1, DemandNat DEF Symbols
<1> QED BY <1>2 DEF Init, Storage!AbsInit, CommonVars

(* Giving a variable its piece is placing it: inside the addresses, at its *)
(* alignment, clear of all others.                                         *)
LEMMA StoragePlace ==
  ASSUME PoolInv, PoolInv', NEW s \in Pending, pc \in {"relocate", "loaded"},
         failure = "none",
         symtab[s].size > 0, Align(symtab[s]) > 0, SHNCommonDataPtr # 0,
         NEW start \in Nat, start = SHNCommonDataPtr + Padding(Align(symtab[s])),
         my_addr' = [my_addr EXCEPT ![s] = start],
         SHNCommonDataPtr' = start + symtab[s].size,
         UNCHANGED <<symtab, i, SHNCommonDataSize, pc, failure, chunk>>
  PROVE  Storage!Place(s)
<1>1. /\ s \in CommonVars /\ s \in Syms /\ my_addr[s] = 0
      /\ symtab \in [Syms -> Symbols] /\ my_addr \in [Syms -> Nat]
  BY TableTyped DEF Pending, CommonVars, PoolInv, TypeOK
<1>2. /\ symtab[s].size \in Nat /\ Align(symtab[s]) \in Nat \ {0}
      /\ SHNCommonDataPtr \in Nat /\ chunk \in Nat /\ chunk # 0
      /\ SHNCommonDataPtr' \in Nat /\ SHNCommonDataFreeSize' \in Nat
      /\ SHNCommonDataSize \in Nat
  BY <1>1, DemandNat, CommonAssumption DEF Symbols, PoolInv, TypeOK
<1>3. start % Align(symtab[s]) = 0
  BY <1>2, PaddingAligns
<1>4. start \in 1 .. SizeMod
  <2>1. Padding(Align(symtab[s])) \in Nat
    BY <1>2, PaddingBound
  <2>2. start > 0
    BY <1>2, <2>1
  <2>3. /\ SHNCommonDataPtr' - chunk + SHNCommonDataFreeSize' = SHNCommonDataSize
        /\ chunk + SHNCommonDataSize <= SizeMod
    BY <1>2 DEF PoolInv, Accounting
  <2>4. start + symtab[s].size <= SizeMod
    BY <1>2, <2>3, CommonAssumption
  <2> QED BY <1>2, <2>2, <2>4, CommonAssumption
<1>5. ASSUME NEW u \in Given
      PROVE  (start .. (start + symtab[s].size - 1))
               \cap (my_addr[u] .. (my_addr[u] + symtab[u].size - 1)) = {}
  <2>2. /\ my_addr[u] \in Nat /\ symtab[u].size \in Nat
        /\ my_addr[u] + symtab[u].size <= SHNCommonDataPtr
    BY <1>1 DEF PoolInv, PiecesApart, Within, Given, Symbols
  <2>3. Padding(Align(symtab[s])) \in Nat
    BY <1>2, PaddingBound
  <2>4. my_addr[u] + symtab[u].size <= start
    BY <1>2, <2>2, <2>3
  <2> QED BY <1>2, <2>2, <2>4
<1> DEFINE W == [t \in CommonVars |-> [size |-> symtab[t].size, align |-> Align(symtab[t])]]
           A == [t \in CommonVars |-> my_addr[t]]
<1>6. /\ W[s].size = symtab[s].size /\ W[s].align = Align(symtab[s])
      /\ CommonVars' = CommonVars
  BY <1>1 DEF CommonVars
<1>7. [t \in CommonVars |-> my_addr[t]]' = [A EXCEPT ![s] = start]
  BY <1>1, <1>6 DEF CommonVars
<1>8. \A u \in CommonVars : A[u] # 0 => u \in Given /\ A[u] = my_addr[u]
                                        /\ W[u].size = symtab[u].size
  BY DEF CommonVars, Given
<1>9. W' = W
  BY <1>6 DEF Align
<1>10. A[s] = 0
  BY <1>1
<1> HIDE DEF W, A
<1>11. \A u \in CommonVars : A[u] # 0 =>
         (start .. (start + W[s].size - 1)) \cap (A[u] .. (A[u] + W[u].size - 1)) = {}
  BY <1>5, <1>6, <1>8
<1>12. DOMAIN W = CommonVars
  BY DEF W
<1> QED
  BY <1>1, <1>2, <1>3, <1>4, <1>6, <1>7, <1>9, <1>10, <1>11, <1>12
     DEF Storage!Place, Storage!Placed, Storage!Bytes, Storage!Legal, PoolInv, Counted, W, A

(* A step that changes neither a variable's address nor the failure, once  *)
(* the chunk has been asked for, is invisible to the abstract storage.     *)
LEMMA StorageStutter ==
  ASSUME my_addr \in [Syms -> Nat], UNCHANGED <<symtab, chunk>>,
         (pc = "count") = (pc' = "count"),
         (failure \in {"none", "symbol"}) = (failure' \in {"none", "symbol"}),
         \A s \in CommonVars : my_addr'[s] = my_addr[s]
  PROVE  UNCHANGED Storage!absVars
<1>1. CommonVars' = CommonVars
  BY DEF CommonVars
<1>2. [s \in CommonVars |-> my_addr[s]]' = [s \in CommonVars |-> my_addr[s]]
  BY <1>1
<1>3. [s \in CommonVars |-> [size |-> symtab[s].size, align |-> Align(symtab[s])]]'
        = [s \in CommonVars |-> [size |-> symtab[s].size, align |-> Align(symtab[s])]]
  BY <1>1 DEF Align
<1>4. (failure \notin {"none", "symbol"})' = (failure \notin {"none", "symbol"})
  OBVIOUS
<1>5. (IF pc = "count" THEN "unknown" ELSE IF chunk = 0 THEN "refused" ELSE "granted")'
        = IF pc = "count" THEN "unknown" ELSE IF chunk = 0 THEN "refused" ELSE "granted"
  OBVIOUS
<1> QED BY <1>2, <1>3, <1>4, <1>5 DEF Storage!absVars

(* Leaving the counting phase, with a chunk or without, is Reserve.        *)
LEMMA StorageReserve ==
  ASSUME pc = "count", pc' # "count",
         UNCHANGED <<symtab, my_addr, failure>>
  PROVE  Storage!Reserve
<1>1. CommonVars' = CommonVars
  BY DEF CommonVars
<1>2. [s \in CommonVars |-> my_addr[s]]' = [s \in CommonVars |-> my_addr[s]]
  BY <1>1
<1>3. [s \in CommonVars |-> [size |-> symtab[s].size, align |-> Align(symtab[s])]]'
        = [s \in CommonVars |-> [size |-> symtab[s].size, align |-> Align(symtab[s])]]
  BY <1>1 DEF Align
<1>4. (failure \notin {"none", "symbol"})' = (failure \notin {"none", "symbol"})
  OBVIOUS
<1> QED BY <1>2, <1>3, <1>4 DEF Storage!Reserve

(* The two assertions of allocateSHNCommonData are refusals.               *)
LEMMA StorageRefuse ==
  ASSUME PoolInv, pc \in {"relocate", "loaded"}, NEW s \in Pending,
         UNCHANGED <<symtab, my_addr, chunk>>, pc' # "count",
         \/ failure' = "pool" /\ chunk = 0
         \/ failure' = "request" /\ (symtab[s].size = 0 \/ Align(symtab[s]) = 0)
  PROVE  s \in CommonVars /\ Storage!Refuse(s)
<1>1. CommonVars' = CommonVars /\ s \in CommonVars /\ failure = "none"
  BY DEF CommonVars, Pending, PoolInv, TypeOK
<1>2. [t \in CommonVars |-> my_addr[t]]' = [t \in CommonVars |-> my_addr[t]]
  BY <1>1
<1> DEFINE W == [t \in CommonVars |-> [size |-> symtab[t].size, align |-> Align(symtab[t])]]
<1>3. W' = W
  BY <1>1 DEF Align
<1>4. symtab[s].size = 0 \/ Align(symtab[s]) = 0 => ~(W[s].size > 0 /\ W[s].align > 0)
  BY <1>1
<1>5. (IF pc = "count" THEN "unknown" ELSE IF chunk = 0 THEN "refused" ELSE "granted")'
        = IF pc = "count" THEN "unknown" ELSE IF chunk = 0 THEN "refused" ELSE "granted"
  OBVIOUS
<1>6. (failure \notin {"none", "symbol"})' = TRUE
  OBVIOUS
<1>7. (failure \notin {"none", "symbol"}) = FALSE
  BY <1>1
<1> QED BY <1>1, <1>2, <1>3, <1>4, <1>5, <1>6, <1>7 DEF Storage!Refuse, Storage!Legal

(* Every step of the allocator is a step of the abstract storage or none.  *)
LEMMA StorageStep ==
  ASSUME PoolInv, PoolInv', [Next]_vars
  PROVE  [Storage!AbsNext]_(Storage!absVars)
<1>1. my_addr \in [Syms -> Nat]
  BY DEF PoolInv, TypeOK
<1>2. CASE CountSymbol \/ EndRelocate \/ UNCHANGED vars
  BY <1>1, <1>2, StorageStutter
     DEF CountSymbol, EndRelocate, vars, poolVars, CommonVars
<1>3. CASE InitCommonData \/ InitCommonDataFails
  BY <1>3, StorageReserve DEF InitCommonData, InitCommonDataFails, Storage!AbsNext
<1>4. ASSUME NEW s \in Syms, SetAddress(s)
      PROVE  UNCHANGED Storage!absVars
  <2>1. \A t \in CommonVars : my_addr'[t] = my_addr[t]
    BY <1>1, <1>4 DEF SetAddress, CommonVars, IsUndefined, IsCommonData
  <2> QED BY <1>1, <1>4, <2>1, StorageStutter DEF SetAddress, poolVars
<1>5. ASSUME NEW s \in Syms, NEW autoAlloc \in BOOLEAN, pc \in {"relocate", "loaded"},
             GetAddress(s, autoAlloc)
      PROVE  [Storage!AbsNext]_(Storage!absVars)
  <2>1. failure = "none" /\ pc' # "count" /\ UNCHANGED <<symtab, i, SHNCommonDataSize>>
    BY <1>5 DEF PoolInv, TypeOK, GetAddress, Counted, AllocateSHNCommonData, Abort
  <2>2. CASE /\ IsCommonData(symtab[s])
             /\ AllocateSHNCommonData(s, symtab[s].size, Align(symtab[s]))
    <3>1. s \in Pending /\ s \in CommonVars
      BY <1>5, <2>2 DEF Pending, GetAddress, CommonVars
    <3>2. CASE (symtab[s].size = 0 \/ Align(symtab[s]) = 0) /\ Rejected("request")
      BY <1>5, <2>1, <3>1, <3>2, StorageRefuse
         DEF Rejected, Abort, poolVars, Storage!AbsNext, CommonVars
    <3>3. CASE SHNCommonDataPtr = 0 /\ Rejected("pool")
      BY <1>5, <2>1, <3>1, <3>3, StorageRefuse
         DEF Rejected, Abort, poolVars, PoolInv, TypeOK, Storage!AbsNext, CommonVars
    <3>4. CASE ~Rejected("request") /\ ~Rejected("pool")
      <4>1. Storage!Place(s)
        BY <1>5, <2>1, <2>2, <3>1, <3>4, AllocateOutcome, StoragePlace
      <4> QED BY <3>1, <4>1 DEF Storage!AbsNext, CommonVars
    <3>5. \/ (symtab[s].size = 0 \/ Align(symtab[s]) = 0) /\ Rejected("request")
          \/ SHNCommonDataPtr = 0 /\ Rejected("pool")
          \/ UNCHANGED <<pc, failure, chunk>>
      BY <1>5, <2>2, <3>1, AllocateOutcome
    <3>6. UNCHANGED failure => ~Rejected("request") /\ ~Rejected("pool")
      BY <2>1 DEF Rejected, Abort
    <3> QED BY <3>2, <3>3, <3>4, <3>5, <3>6
  <2>3. CASE /\ IsSectionData(symtab[s]) /\ ~HasNoAddress(symtab[s])
             /\ my_addr' = [my_addr EXCEPT ![s] = SectionAddress(symtab[s])]
             /\ UNCHANGED <<pc, failure, poolVars>>
    <3>1. \A t \in CommonVars : my_addr'[t] = my_addr[t]
      BY <1>1, <2>3, TableTyped, SectionsAssumption
         DEF CommonVars, IsSectionData, IsCommonData, InSection, PoolInv, Symbols, Reserved
    <3> QED BY <1>1, <1>5, <2>1, <2>3, <3>1, StorageStutter DEF poolVars
  <2>4. CASE Abort("symbol") /\ UNCHANGED <<poolVars, my_addr>>
    BY <1>1, <1>5, <2>1, <2>4, StorageStutter DEF Abort, poolVars
  <2> QED BY <1>5, <2>2, <2>3, <2>4 DEF GetAddress
<1>6. CASE \E s \in Syms : RelocateAgainst(s) \/ GetSymbolAddress(s)
  BY <1>5, <1>6 DEF RelocateAgainst, GetSymbolAddress
<1> QED BY <1>2, <1>3, <1>4, <1>6 DEF Next

(* The allocator implements the abstract storage of variables.             *)
THEOREM ImplementsStorageHolds == Spec => ImplementsStorage
<1>1. Init => Storage!AbsInit
  BY StorageInit
<1>2. PoolInv /\ PoolInv' /\ [Next]_vars => [Storage!AbsNext]_(Storage!absVars)
  BY StorageStep
<1> QED BY <1>1, <1>2, PoolInvariant, PTL DEF Spec, ImplementsStorage, Storage!AbsSpec
==============================================================================
