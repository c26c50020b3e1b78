---------------------------- MODULE ArchiveProofs ----------------------------
(***************************************************************************)
(* The theorems about Archive, for every offset, count, file size, class   *)
(* and byte order, and every address space and place of the file in it.    *)
(***************************************************************************)
EXTENDS Archive, NumberFacts

(* Where field n of a structure starts; behind the last one, the structure *)
(* ends.                                                                   *)
Offset(kind, b, n) ==
  IF n \in 1 .. Len(FieldsOf(kind, b))
  THEN ABIOffset(kind, b)[FieldsOf(kind, b)[n].name] ELSE SizeOf(kind, b)

(* A field that has the alignment of its structure.                        *)
Widest(kind, b) ==
  CASE kind = "ELFHeader"        -> 5
    [] kind = "ELFSectionHeader" -> 3
    [] kind = "ELFSymbol"        -> IF b = 32 THEN 2 ELSE 5
    [] kind \in {"ELFRelocRel", "ELFRelocRela"} -> 1

(* The structures have no holes, and no field is out of alignment.         *)
Packed(kind, b, n) ==
  LET fld == FieldsOf(kind, b)[n] IN
  /\ fld.width \in {1, 2, 4, 8, 16}
  /\ Align(fld) \in {1, 2, 4, 8} /\ Align(fld) <= AlignOf(b)
  /\ Offset(kind, b, n) \in Nat /\ Offset(kind, b, n) % Align(fld) = 0
  /\ Offset(kind, b, n + 1) = Offset(kind, b, n) + fld.width
  /\ Offset(kind, b, n) + fld.width <= SizeOf(kind, b) /\ Align(fld) <= fld.width

Shapely(kind, b) ==
  /\ Len(FieldsOf(kind, b)) \in Nat \ {0}
  /\ \A n \in 1 .. Len(FieldsOf(kind, b)) : Packed(kind, b, n)
  /\ Offset(kind, b, 1) = 0
  /\ SizeOf(kind, b) \in 1 .. Largest /\ SizeOf(kind, b) % AlignOf(b) = 0
  /\ Widest(kind, b) \in 1 .. Len(FieldsOf(kind, b))
  /\ Align(FieldsOf(kind, b)[Widest(kind, b)]) = AlignOf(b)

USE DEF Byte, Half, Word, Native, Field

LEMMA HeaderShape == ASSUME NEW b \in Widths PROVE Shapely("ELFHeader", b)
<1>1. FieldsOf("ELFHeader", b) = HeaderFields(b) /\ Len(HeaderFields(b)) = 14
  BY DEF FieldsOf, HeaderFields, Widths
<1> DEFINE F == HeaderFields(b)
           A == ABIOffset("ELFHeader", b)
           S == SizeOf("ELFHeader", b)
<1>2. ASSUME NEW n \in 1 .. 14
      PROVE  /\ F[n].width \in {1, 2, 4, 8, 16}
             /\ Align(F[n]) \in {1, 2, 4, 8} /\ Align(F[n]) <= AlignOf(b)
             /\ A[F[n].name] \in Nat /\ A[F[n].name] % Align(F[n]) = 0
             /\ A[F[n].name] + F[n].width <= S /\ Align(F[n]) <= F[n].width
  <2>1. CASE b = 32
    BY <2>1 DEF HeaderFields, ABIOffset, SizeOf, Align, IsArray, AlignOf
  <2>2. CASE b = 64
    BY <2>2 DEF HeaderFields, ABIOffset, SizeOf, Align, IsArray, AlignOf
  <2> QED BY <2>1, <2>2 DEF Widths
<1>3. ASSUME NEW n \in 1 .. 13
      PROVE  A[F[n + 1].name] = A[F[n].name] + F[n].width
  BY DEF HeaderFields, ABIOffset, Widths
<1>4. A[F[1].name] = 0 /\ S = A[F[14].name] + F[14].width
  BY DEF HeaderFields, ABIOffset, SizeOf, Widths
<1>5. /\ S \in 1 .. Largest /\ S % AlignOf(b) = 0
      /\ Widest("ELFHeader", b) \in 1 .. 14
      /\ Align(F[Widest("ELFHeader", b)]) = AlignOf(b)
  BY DEF HeaderFields, SizeOf, AlignOf, Widest, Align, IsArray, Widths, Largest
<1> HIDE DEF F, A, S
<1>6. FieldsOf("ELFHeader", b) = F /\ Len(F) = 14
  BY <1>1 DEF F
<1>7. \A n \in 1 .. 14 : Offset("ELFHeader", b, n) = A[F[n].name]
  BY <1>6 DEF Offset, A
<1>8. Offset("ELFHeader", b, 15) = S
  BY <1>6 DEF Offset, S
<1>9. ASSUME NEW n \in 1 .. 14
      PROVE  Offset("ELFHeader", b, n + 1) = Offset("ELFHeader", b, n) + F[n].width
  <2>1. CASE n < 14
    BY <2>1, <1>3, <1>7
  <2>2. CASE n = 14
    BY <2>2, <1>4, <1>7, <1>8
  <2> QED BY <2>1, <2>2
<1>10. \A n \in 1 .. 14 : Packed("ELFHeader", b, n)
  BY <1>2, <1>6, <1>7, <1>9 DEF Packed, S
<1>11. Offset("ELFHeader", b, 1) = 0
  BY <1>4, <1>7
<1>12. /\ SizeOf("ELFHeader", b) \in 1 .. Largest /\ SizeOf("ELFHeader", b) % AlignOf(b) = 0
       /\ Align(FieldsOf("ELFHeader", b)[Widest("ELFHeader", b)]) = AlignOf(b)
  BY <1>5, <1>6 DEF S
<1>13. Len(FieldsOf("ELFHeader", b)) = 14
  BY <1>6
<1>14. Widest("ELFHeader", b) \in 1 .. 14 /\ 14 \in Nat \ {0}
  BY <1>5
<1> QED BY <1>10, <1>11, <1>12, <1>13, <1>14 DEF Shapely

LEMMA SectionHeaderShape == ASSUME NEW b \in Widths PROVE Shapely("ELFSectionHeader", b)
<1>1. FieldsOf("ELFSectionHeader", b) = SectionHeaderFields(b) /\ Len(SectionHeaderFields(b)) = 10
  BY DEF FieldsOf, SectionHeaderFields, Widths
<1> DEFINE F == SectionHeaderFields(b)
           A == ABIOffset("ELFSectionHeader", b)
           S == SizeOf("ELFSectionHeader", b)
<1>2. ASSUME NEW n \in 1 .. 10
      PROVE  /\ F[n].width \in {1, 2, 4, 8, 16}
             /\ Align(F[n]) \in {1, 2, 4, 8} /\ Align(F[n]) <= AlignOf(b)
             /\ A[F[n].name] \in Nat /\ A[F[n].name] % Align(F[n]) = 0
             /\ A[F[n].name] + F[n].width <= S /\ Align(F[n]) <= F[n].width
  <2>1. CASE b = 32
    BY <2>1 DEF SectionHeaderFields, ABIOffset, SizeOf, Align, IsArray, AlignOf
  <2>2. CASE b = 64
    BY <2>2 DEF SectionHeaderFields, ABIOffset, SizeOf, Align, IsArray, AlignOf
  <2> QED BY <2>1, <2>2 DEF Widths
<1>3. ASSUME NEW n \in 1 .. 9
      PROVE  A[F[n + 1].name] = A[F[n].name] + F[n].width
  BY DEF SectionHeaderFields, ABIOffset, Widths
<1>4. A[F[1].name] = 0 /\ S = A[F[10].name] + F[10].width
  BY DEF SectionHeaderFields, ABIOffset, SizeOf, Widths
<1>5. /\ S \in 1 .. Largest /\ S % AlignOf(b) = 0
      /\ Widest("ELFSectionHeader", b) \in 1 .. 10
      /\ Align(F[Widest("ELFSectionHeader", b)]) = AlignOf(b)
  BY DEF SectionHeaderFields, SizeOf, AlignOf, Widest, Align, IsArray, Widths, Largest
<1> HIDE DEF F, A, S
<1>6. FieldsOf("ELFSectionHeader", b) = F /\ Len(F) = 10
  BY <1>1 DEF F
<1>7. \A n \in 1 .. 10 : Offset("ELFSectionHeader", b, n) = A[F[n].name]
  BY <1>6 DEF Offset, A
<1>8. Offset("ELFSectionHeader", b, 11) = S
  BY <1>6 DEF Offset, S
<1>9. ASSUME NEW n \in 1 .. 10
      PROVE  Offset("ELFSectionHeader", b, n + 1) = Offset("ELFSectionHeader", b, n) + F[n].width
  <2>1. CASE n < 10
    BY <2>1, <1>3, <1>7
  <2>2. CASE n = 10
    BY <2>2, <1>4, <1>7, <1>8
  <2> QED BY <2>1, <2>2
<1>10. \A n \in 1 .. 10 : Packed("ELFSectionHeader", b, n)
  BY <1>2, <1>6, <1>7, <1>9 DEF Packed, S
<1>11. Offset("ELFSectionHeader", b, 1) = 0
  BY <1>4, <1>7
<1>12. /\ SizeOf("ELFSectionHeader", b) \in 1 .. Largest /\ SizeOf("ELFSectionHeader", b) % AlignOf(b) = 0
       /\ Align(FieldsOf("ELFSectionHeader", b)[Widest("ELFSectionHeader", b)]) = AlignOf(b)
  BY <1>5, <1>6 DEF S
<1>13. Len(FieldsOf("ELFSectionHeader", b)) = 10
  BY <1>6
<1>14. Widest("ELFSectionHeader", b) \in 1 .. 10 /\ 10 \in Nat \ {0}
  BY <1>5
<1> QED BY <1>10, <1>11, <1>12, <1>13, <1>14 DEF Shapely

LEMMA SymbolShape == ASSUME NEW b \in Widths PROVE Shapely("ELFSymbol", b)
<1>1. FieldsOf("ELFSymbol", b) = SymbolFields(b) /\ Len(SymbolFields(b)) = 6
  BY DEF FieldsOf, SymbolFields, Widths
<1> DEFINE F == SymbolFields(b)
           A == ABIOffset("ELFSymbol", b)
           S == SizeOf("ELFSymbol", b)
<1>2. ASSUME NEW n \in 1 .. 6
      PROVE  /\ F[n].width \in {1, 2, 4, 8, 16}
             /\ Align(F[n]) \in {1, 2, 4, 8} /\ Align(F[n]) <= AlignOf(b)
             /\ A[F[n].name] \in Nat /\ A[F[n].name] % Align(F[n]) = 0
             /\ A[F[n].name] + F[n].width <= S /\ Align(F[n]) <= F[n].width
  <2>1. CASE b = 32
    BY <2>1 DEF SymbolFields, ABIOffset, SizeOf, Align, IsArray, AlignOf
  <2>2. CASE b = 64
    BY <2>2 DEF SymbolFields, ABIOffset, SizeOf, Align, IsArray, AlignOf
  <2> QED BY <2>1, <2>2 DEF Widths
<1>3. ASSUME NEW n \in 1 .. 5
      PROVE  A[F[n + 1].name] = A[F[n].name] + F[n].width
  BY DEF SymbolFields, ABIOffset, Widths
<1>4. A[F[1].name] = 0 /\ S = A[F[6].name] + F[6].width
  BY DEF SymbolFields, ABIOffset, SizeOf, Widths
<1>5. /\ S \in 1 .. Largest /\ S % AlignOf(b) = 0
      /\ Widest("ELFSymbol", b) \in 1 .. 6
      /\ Align(F[Widest("ELFSymbol", b)]) = AlignOf(b)
  BY DEF SymbolFields, SizeOf, AlignOf, Widest, Align, IsArray, Widths, Largest
<1> HIDE DEF F, A, S
<1>6. FieldsOf("ELFSymbol", b) = F /\ Len(F) = 6
  BY <1>1 DEF F
<1>7. \A n \in 1 .. 6 : Offset("ELFSymbol", b, n) = A[F[n].name]
  BY <1>6 DEF Offset, A
<1>8. Offset("ELFSymbol", b, 7) = S
  BY <1>6 DEF Offset, S
<1>9. ASSUME NEW n \in 1 .. 6
      PROVE  Offset("ELFSymbol", b, n + 1) = Offset("ELFSymbol", b, n) + F[n].width
  <2>1. CASE n < 6
    BY <2>1, <1>3, <1>7
  <2>2. CASE n = 6
    BY <2>2, <1>4, <1>7, <1>8
  <2> QED BY <2>1, <2>2
<1>10. \A n \in 1 .. 6 : Packed("ELFSymbol", b, n)
  BY <1>2, <1>6, <1>7, <1>9 DEF Packed, S
<1>11. Offset("ELFSymbol", b, 1) = 0
  BY <1>4, <1>7
<1>12. /\ SizeOf("ELFSymbol", b) \in 1 .. Largest /\ SizeOf("ELFSymbol", b) % AlignOf(b) = 0
       /\ Align(FieldsOf("ELFSymbol", b)[Widest("ELFSymbol", b)]) = AlignOf(b)
  BY <1>5, <1>6 DEF S
<1>13. Len(FieldsOf("ELFSymbol", b)) = 6
  BY <1>6
<1>14. Widest("ELFSymbol", b) \in 1 .. 6 /\ 6 \in Nat \ {0}
  BY <1>5
<1> QED BY <1>10, <1>11, <1>12, <1>13, <1>14 DEF Shapely

LEMMA RelShape == ASSUME NEW b \in Widths PROVE Shapely("ELFRelocRel", b)
<1>1. FieldsOf("ELFRelocRel", b) = RelFields(b) /\ Len(RelFields(b)) = 2
  BY DEF FieldsOf, RelFields, Widths
<1> DEFINE F == RelFields(b)
           A == ABIOffset("ELFRelocRel", b)
           S == SizeOf("ELFRelocRel", b)
<1>2. ASSUME NEW n \in 1 .. 2
      PROVE  /\ F[n].width \in {1, 2, 4, 8, 16}
             /\ Align(F[n]) \in {1, 2, 4, 8} /\ Align(F[n]) <= AlignOf(b)
             /\ A[F[n].name] \in Nat /\ A[F[n].name] % Align(F[n]) = 0
             /\ A[F[n].name] + F[n].width <= S /\ Align(F[n]) <= F[n].width
  <2>1. CASE b = 32
    BY <2>1 DEF RelFields, ABIOffset, SizeOf, Align, IsArray, AlignOf
  <2>2. CASE b = 64
    BY <2>2 DEF RelFields, ABIOffset, SizeOf, Align, IsArray, AlignOf
  <2> QED BY <2>1, <2>2 DEF Widths
<1>3. ASSUME NEW n \in 1 .. 1
      PROVE  A[F[n + 1].name] = A[F[n].name] + F[n].width
  BY DEF RelFields, ABIOffset, Widths
<1>4. A[F[1].name] = 0 /\ S = A[F[2].name] + F[2].width
  BY DEF RelFields, ABIOffset, SizeOf, Widths
<1>5. /\ S \in 1 .. Largest /\ S % AlignOf(b) = 0
      /\ Widest("ELFRelocRel", b) \in 1 .. 2
      /\ Align(F[Widest("ELFRelocRel", b)]) = AlignOf(b)
  BY DEF RelFields, SizeOf, AlignOf, Widest, Align, IsArray, Widths, Largest
<1> HIDE DEF F, A, S
<1>6. FieldsOf("ELFRelocRel", b) = F /\ Len(F) = 2
  BY <1>1 DEF F
<1>7. \A n \in 1 .. 2 : Offset("ELFRelocRel", b, n) = A[F[n].name]
  BY <1>6 DEF Offset, A
<1>8. Offset("ELFRelocRel", b, 3) = S
  BY <1>6 DEF Offset, S
<1>9. ASSUME NEW n \in 1 .. 2
      PROVE  Offset("ELFRelocRel", b, n + 1) = Offset("ELFRelocRel", b, n) + F[n].width
  <2>1. CASE n < 2
    BY <2>1, <1>3, <1>7
  <2>2. CASE n = 2
    BY <2>2, <1>4, <1>7, <1>8
  <2> QED BY <2>1, <2>2
<1>10. \A n \in 1 .. 2 : Packed("ELFRelocRel", b, n)
  BY <1>2, <1>6, <1>7, <1>9 DEF Packed, S
<1>11. Offset("ELFRelocRel", b, 1) = 0
  BY <1>4, <1>7
<1>12. /\ SizeOf("ELFRelocRel", b) \in 1 .. Largest /\ SizeOf("ELFRelocRel", b) % AlignOf(b) = 0
       /\ Align(FieldsOf("ELFRelocRel", b)[Widest("ELFRelocRel", b)]) = AlignOf(b)
  BY <1>5, <1>6 DEF S
<1>13. Len(FieldsOf("ELFRelocRel", b)) = 2
  BY <1>6
<1>14. Widest("ELFRelocRel", b) \in 1 .. 2 /\ 2 \in Nat \ {0}
  BY <1>5
<1> QED BY <1>10, <1>11, <1>12, <1>13, <1>14 DEF Shapely

LEMMA RelaShape == ASSUME NEW b \in Widths PROVE Shapely("ELFRelocRela", b)
<1>1. FieldsOf("ELFRelocRela", b) = RelaFields(b) /\ Len(RelaFields(b)) = 3
  BY DEF FieldsOf, RelaFields, Widths
<1> DEFINE F == RelaFields(b)
           A == ABIOffset("ELFRelocRela", b)
           S == SizeOf("ELFRelocRela", b)
<1>2. ASSUME NEW n \in 1 .. 3
      PROVE  /\ F[n].width \in {1, 2, 4, 8, 16}
             /\ Align(F[n]) \in {1, 2, 4, 8} /\ Align(F[n]) <= AlignOf(b)
             /\ A[F[n].name] \in Nat /\ A[F[n].name] % Align(F[n]) = 0
             /\ A[F[n].name] + F[n].width <= S /\ Align(F[n]) <= F[n].width
  <2>1. CASE b = 32
    BY <2>1 DEF RelaFields, ABIOffset, SizeOf, Align, IsArray, AlignOf
  <2>2. CASE b = 64
    BY <2>2 DEF RelaFields, ABIOffset, SizeOf, Align, IsArray, AlignOf
  <2> QED BY <2>1, <2>2 DEF Widths
<1>3. ASSUME NEW n \in 1 .. 2
      PROVE  A[F[n + 1].name] = A[F[n].name] + F[n].width
  BY DEF RelaFields, ABIOffset, Widths
<1>4. A[F[1].name] = 0 /\ S = A[F[3].name] + F[3].width
  BY DEF RelaFields, ABIOffset, SizeOf, Widths
<1>5. /\ S \in 1 .. Largest /\ S % AlignOf(b) = 0
      /\ Widest("ELFRelocRela", b) \in 1 .. 3
      /\ Align(F[Widest("ELFRelocRela", b)]) = AlignOf(b)
  BY DEF RelaFields, SizeOf, AlignOf, Widest, Align, IsArray, Widths, Largest
<1> HIDE DEF F, A, S
<1>6. FieldsOf("ELFRelocRela", b) = F /\ Len(F) = 3
  BY <1>1 DEF F
<1>7. \A n \in 1 .. 3 : Offset("ELFRelocRela", b, n) = A[F[n].name]
  BY <1>6 DEF Offset, A
<1>8. Offset("ELFRelocRela", b, 4) = S
  BY <1>6 DEF Offset, S
<1>9. ASSUME NEW n \in 1 .. 3
      PROVE  Offset("ELFRelocRela", b, n + 1) = Offset("ELFRelocRela", b, n) + F[n].width
  <2>1. CASE n < 3
    BY <2>1, <1>3, <1>7
  <2>2. CASE n = 3
    BY <2>2, <1>4, <1>7, <1>8
  <2> QED BY <2>1, <2>2
<1>10. \A n \in 1 .. 3 : Packed("ELFRelocRela", b, n)
  BY <1>2, <1>6, <1>7, <1>9 DEF Packed, S
<1>11. Offset("ELFRelocRela", b, 1) = 0
  BY <1>4, <1>7
<1>12. /\ SizeOf("ELFRelocRela", b) \in 1 .. Largest /\ SizeOf("ELFRelocRela", b) % AlignOf(b) = 0
       /\ Align(FieldsOf("ELFRelocRela", b)[Widest("ELFRelocRela", b)]) = AlignOf(b)
  BY <1>5, <1>6 DEF S
<1>13. Len(FieldsOf("ELFRelocRela", b)) = 3
  BY <1>6
<1>14. Widest("ELFRelocRela", b) \in 1 .. 3 /\ 3 \in Nat \ {0}
  BY <1>5
<1> QED BY <1>10, <1>11, <1>12, <1>13, <1>14 DEF Shapely

LEMMA Shape == ASSUME NEW kind \in Kinds, NEW b \in Widths PROVE Shapely(kind, b)
BY HeaderShape, SectionHeaderShape, SymbolShape, RelShape, RelaShape DEF Kinds

-----------------------------------------------------------------------------
(* seekAlignment goes to the next multiple.                                *)
LEMMA AlignedAt ==
  ASSUME NEW at \in Nat, NEW a \in {1, 2, 4, 8}
  PROVE  /\ Aligned(at, a) \in Nat /\ Aligned(at, a) >= at /\ Aligned(at, a) % a = 0
         /\ Aligned(at, a) < at + a
         /\ at % a = 0 => Aligned(at, a) = at
<1>1. CASE a = 1
  BY <1>1 DEF Aligned
<1>2. CASE a = 2
  BY <1>2 DEF Aligned
<1>3. CASE a = 4
  BY <1>3 DEF Aligned
<1>4. CASE a = 8
  BY <1>4 DEF Aligned
<1> QED BY <1>1, <1>2, <1>3, <1>4

(* A field is in its place in an entry that is, ...                        *)
LEMMA InPlace ==
  ASSUME NEW base \in Nat, NEW off \in Nat, NEW a \in {1, 2, 4, 8}, NEW A \in {4, 8}, a <= A,
         base % A = 0, off % a = 0
  PROVE  (base + off) % a = 0
<1>1. CASE A = 4
  <2>1. CASE a = 1
    BY <2>1
  <2>2. CASE a = 2
    BY <1>1, <2>2
  <2>3. CASE a = 4
    BY <1>1, <2>3
  <2> QED BY <1>1, <2>1, <2>2, <2>3
<1>2. CASE A = 8
  <2>1. CASE a = 1
    BY <2>1
  <2>2. CASE a = 2
    BY <1>2, <2>2
  <2>3. CASE a = 4
    BY <1>2, <2>3
  <2>4. CASE a = 8
    BY <1>2, <2>4
  <2> QED BY <1>2, <2>1, <2>2, <2>3, <2>4
<1> QED BY <1>1, <1>2

(* ... and the widest one is out of place in an entry that is.             *)
LEMMA OutOfPlace ==
  ASSUME NEW base \in Nat, NEW off \in Nat, NEW A \in {4, 8}, base % A # 0, off % A = 0
  PROVE  (base + off) % A # 0
<1>1. CASE A = 4
  BY <1>1
<1>2. CASE A = 8
  BY <1>2
<1> QED BY <1>1, <1>2

LEMMA NextMultiple ==
  ASSUME NEW n \in Nat, NEW s \in Nat
  PROVE  n * s \in Nat /\ (n + 1) * s = n * s + s
OBVIOUS

LEMMA MoreEntries ==
  ASSUME NEW n \in Nat, NEW m \in Nat, NEW s \in Nat, n < m
  PROVE  (n + 1) * s <= m * s
<1>1. PICK d \in Nat : m = (n + 1) + d
  BY m - (n + 1) \in Nat
<1>2. m * s = (n + 1) * s + d * s /\ d * s \in Nat
  BY <1>1
<1> QED BY <1>2

(* The number that is stored is the number in the file, in the order of    *)
(* the archive, on every processor.                                        *)
LEMMA StoredAsInFile ==
  ASSUME job.order \in Orders, job.host \in Orders, NEW fld,
         fld.width \in Nat \ {0}, NEW at \in Nat
  PROVE  /\ Stored(fld, at) \in Seq(Nat)
         /\ Stored(fld, at) = NumberAt(at, fld.width, IF IsArray(fld) THEN "little" ELSE job.order)
<1> DEFINE w == fld.width
           mem == ReadBytes(at, w)
           rev == [i \in 1 .. w |-> at + w - i]
<1>1. mem \in Seq(Nat) /\ Len(mem) = w /\ mem = NumberAt(at, w, "little")
  BY DEF ReadBytes, NumberAt
<1>2. rev \in Seq(Nat) /\ Len(rev) = w /\ rev = NumberAt(at, w, "big")
  <2>1. \A i \in 1 .. w : at + w - i \in Nat
    OBVIOUS
  <2> QED BY <2>1 DEF NumberAt
<1>3. Reverse(mem) = rev
  <2>1. \A i \in 1 .. w : mem[(w - i) + 1] = at + w - i
    BY DEF ReadBytes
  <2>2. Reverse(mem) = [i \in 1 .. w |-> mem[(w - i) + 1]]
    BY <1>1, Zenon DEF Reverse
  <2> QED BY <2>1, <2>2
<1>4. Reverse(rev) = mem
  <2>1. \A i \in 1 .. w : rev[(w - i) + 1] = at + i - 1
    OBVIOUS
  <2>2. Reverse(rev) = [i \in 1 .. w |-> rev[(w - i) + 1]]
    BY <1>2, Zenon DEF Reverse
  <2> QED BY <2>1, <2>2 DEF ReadBytes
<1> HIDE DEF mem, rev
<1>5. CASE IsArray(fld)
  BY <1>1, <1>5 DEF Stored, mem
<1>6. CASE ~IsArray(fld)
  BY <1>1, <1>2, <1>3, <1>4, <1>6 DEF Stored, mem, NumberIn, SwapByteOrder, Orders
<1> QED BY <1>5, <1>6

-----------------------------------------------------------------------------
(* The inductive invariant, of a table in the address space.  If it is     *)
(* aligned, the cursor is where the ABI has the next field, and the        *)
(* archive is good as long as the cursor has not passed the end of the     *)
(* file.  In any other table it is ahead of that place from the widest     *)
(* field on, so that the first entry is the last; but not so far ahead     *)
(* that it leaves the address space.                                       *)
Straight == job.start % AlignOf(job.bits) = 0
Base     == job.start + Len(table) * Size
Pos(n)   == Offset(job.kind, job.bits, n)

Typed ==
  /\ job \in Jobs
  /\ pc \in {"loop", "fields", "read", "null", "aborted"}
  /\ cursor \in Nat /\ cursor_base \in Nat /\ good \in BOOLEAN
  /\ value \in Seq(Seq(Nat)) /\ Len(value) <= Len(Fields)
  /\ table \in Seq(Seq(Seq(Nat))) /\ Len(table) <= job.count

BetweenEntries ==
  pc \in {"loop", "read", "null"} =>
    /\ good => cursor = Base
    /\ good /\ Len(table) > 0 => Base <= job.size /\ Straight /\ value = table[Len(table)]
    /\ ~good => Straight /\ Len(table) < job.count /\ Base + Size > job.size

InEntry ==
  pc = "fields" =>
    /\ Len(table) < job.count /\ cursor_base = Base
    /\ Len(table) > 0 => Straight
    /\ cursor >= Base + Pos(Len(value) + 1)
    /\ cursor <= Base + 2 * Pos(Len(value) + 1)
    /\ Straight => cursor = Base + Pos(Len(value) + 1)
    /\ ~Straight /\ Len(value) >= Widest(job.kind, job.bits)
         => cursor > Base + Pos(Len(value) + 1)
    /\ good /\ Len(value) > 0 => cursor <= job.size
    /\ ~good => cursor > job.size

(* The fields read so far, and the entries.                                *)
FieldsRead ==
  pc = "fields" /\ good /\ Straight =>
    \A f \in 1 .. Len(value) :
      value[f] = InFile(Fields[f], Base, job.kind, job.bits, job.order)

EntriesRead ==
  \A k \in 1 .. Len(table) : \A f \in 1 .. Len(Fields) :
    table[k][f] = InFile(Fields[f], job.start + (k - 1) * Size, job.kind, job.bits, job.order)

Ended ==
  /\ pc = "aborted" => ~Straight /\ job.count > 0
  /\ pc = "read" => /\ good /\ Len(table) = job.count
                    /\ job.kind = "ELFHeader" => IsValid
  /\ pc = "null" => \/ ~good
                    \/ /\ job.kind = "ELFHeader" /\ Len(table) = job.count
                       /\ ~IsValid

InStep ==
  /\ Typed /\ BetweenEntries /\ InEntry /\ FieldsRead /\ EntriesRead /\ Ended
  /\ Straight => Base % AlignOf(job.bits) = 0

ArchiveInv == job \in Jobs /\ (Addressable => InStep)

LEMMA FieldsDomain ==
  ASSUME NEW kind \in Kinds, NEW b \in Widths
  PROVE  DOMAIN FieldsOf(kind, b) = 1 .. Len(FieldsOf(kind, b))
<1>1. CASE kind = "ELFHeader"
  BY <1>1 DEF FieldsOf, HeaderFields
<1>2. CASE kind = "ELFSectionHeader"
  BY <1>2 DEF FieldsOf, SectionHeaderFields
<1>3. CASE kind = "ELFSymbol"
  BY <1>3 DEF FieldsOf, SymbolFields
<1>4. CASE kind = "ELFRelocRel"
  BY <1>4 DEF FieldsOf, RelFields
<1>5. CASE kind = "ELFRelocRela"
  BY <1>5 DEF FieldsOf, RelaFields
<1> QED BY <1>1, <1>2, <1>3, <1>4, <1>5 DEF Kinds

LEMMA JobFacts ==
  ASSUME job \in Jobs
  PROVE  /\ job.kind \in Kinds /\ job.bits \in Widths
         /\ job.order \in Orders /\ job.host \in Orders
         /\ job.start \in Nat /\ job.count \in Nat /\ job.size \in Nat
         /\ Size \in Nat \ {0} /\ Size <= Largest /\ Size % AlignOf(job.bits) = 0
         /\ job.buf \in Nat \ {0}
         /\ AlignOf(job.bits) \in {4, 8}
         /\ Len(Fields) \in Nat \ {0}
         /\ Widest(job.kind, job.bits) \in 1 .. Len(Fields)
         /\ Align(Fields[Widest(job.kind, job.bits)]) = AlignOf(job.bits)
         /\ Pos(1) = 0 /\ Pos(Len(Fields) + 1) = Size
<1>1. /\ job.kind \in Kinds /\ job.bits \in Widths
      /\ job.order \in Orders /\ job.host \in Orders
      /\ job.start \in Nat /\ job.count \in Nat /\ job.size \in Nat
      /\ job.buf \in Nat \ {0}
  BY JobsAssumption
<1>2. Shapely(job.kind, job.bits)
  BY <1>1, Shape
<1>3. AlignOf(job.bits) \in {4, 8}
  BY <1>1 DEF AlignOf, Widths
<1>4. Pos(Len(Fields) + 1) = Size
  <2>1. Len(Fields) \in Nat /\ Len(Fields) + 1 \notin 1 .. Len(Fields)
    BY <1>2 DEF Shapely, Fields
  <2> QED BY <2>1 DEF Pos, Offset, Fields, Size
<1>5. Size \in Nat \ {0} /\ Size <= Largest
  <2>1. SizeOf(job.kind, job.bits) \in 1 .. Largest
    BY <1>2 DEF Shapely
  <2> QED BY <2>1 DEF Size, Largest
<1> QED BY <1>1, <1>2, <1>3, <1>4, <1>5 DEF Shapely, Fields, Size, Pos

LEMMA FieldFacts ==
  ASSUME job \in Jobs, NEW n \in 1 .. Len(Fields)
  PROVE  /\ Fields[n].width \in {1, 2, 4, 8, 16}
         /\ Align(Fields[n]) \in {1, 2, 4, 8} /\ Align(Fields[n]) <= AlignOf(job.bits)
         /\ Pos(n) \in Nat /\ Pos(n) % Align(Fields[n]) = 0
         /\ Pos(n) = ABIOffset(job.kind, job.bits)[Fields[n].name]
         /\ Pos(n + 1) = Pos(n) + Fields[n].width
         /\ Pos(n + 1) <= Size /\ Align(Fields[n]) <= Fields[n].width
<1>1. job.kind \in Kinds /\ job.bits \in Widths
  BY JobFacts
<1>2. Packed(job.kind, job.bits, n)
  BY <1>1, Shape DEF Shapely, Fields
<1>3. Pos(n) = Offset(job.kind, job.bits, n) /\ Pos(n + 1) = Offset(job.kind, job.bits, n + 1)
  BY DEF Pos
<1>4. Pos(n + 1) <= Size /\ Align(Fields[n]) <= Fields[n].width
  BY <1>2, <1>3 DEF Packed, Fields, Size
<1> QED BY <1>2, <1>4 DEF Packed, Fields, Pos, Offset

(* A pointer into the address space is where it says.                      *)
LEMMA Within ==
  ASSUME job \in Jobs, NEW p \in Nat, job.buf + p < AddrMod
  PROVE  Position(p) = p
<1>1. job.buf \in Nat /\ AddrMod \in Nat \ {0}
  BY JobFacts, AddrModAssumption
<1>2. job.buf + p \in 0 .. AddrMod - 1
  BY <1>1
<1>3. (job.buf + p) % AddrMod = job.buf + p
  BY <1>1, <1>2, SmallRest
<1> QED BY <1>1, <1>3 DEF Position

LEMMA Rearranged ==
  ASSUME NEW b \in Nat, NEW s \in Nat, NEW x \in Nat, NEW y \in Nat, NEW z \in Nat,
         NEW l \in Nat, NEW m \in Nat, b + s + y + l <= m, x + z <= y
  PROVE  s + x \in Nat /\ b + (s + x) + z + l <= m
OBVIOUS

(* A field that is moved to its alignment ends within twice its distance   *)
(* from the start of the entry.                                            *)
LEMMA FieldEnd ==
  ASSUME NEW f \in Nat, NEW c \in Nat, NEW p \in Nat, NEW s \in Nat, NEW l \in Nat,
         NEW b \in Nat, NEW m \in Nat, NEW e \in Nat, NEW at \in Nat, NEW now \in Nat,
         f <= c, p + c <= s, s <= l, b + e + s + l <= m, now <= e + 2 * p, at < now + f
  PROVE  /\ at + c \in Nat /\ at + c <= e + 2 * (p + c)
         /\ b + (at + c) < m /\ b + at < m
OBVIOUS

(* There is room for the next entry of a table in the address space.       *)
LEMMA Room ==
  ASSUME job \in Jobs, Addressable, Len(table) \in Nat, Len(table) < job.count
  PROVE  Base \in Nat /\ job.buf + Base + Size + Largest <= AddrMod
<1>1. /\ job.start \in Nat /\ job.count \in Nat /\ Size \in Nat /\ job.buf \in Nat
      /\ AddrMod \in Nat
  BY JobFacts, AddrModAssumption
<1>2. /\ Len(table) * Size \in Nat /\ job.count * Size \in Nat
      /\ (Len(table) + 1) * Size = Len(table) * Size + Size
  BY <1>1, NextMultiple
<1>3. (Len(table) + 1) * Size <= job.count * Size
  BY <1>1, MoreEntries
<1>4. /\ job.start + Len(table) * Size \in Nat
      /\ job.buf + (job.start + Len(table) * Size) + Size + Largest <= AddrMod
  <2>1. job.buf + job.start + job.count * Size + Largest <= AddrMod
    BY DEF Addressable
  <2>2. Len(table) * Size + Size <= job.count * Size /\ Largest \in Nat
    BY <1>2, <1>3 DEF Largest
  <2>3. PICK x \in Nat, y \in Nat : x = Len(table) * Size /\ y = job.count * Size
    BY <1>2
  <2>4. job.buf + job.start + y + Largest <= AddrMod /\ x + Size <= y
    BY <2>1, <2>2, <2>3
  <2>5. job.start + x \in Nat /\ job.buf + (job.start + x) + Size + Largest <= AddrMod
    BY <1>1, <2>2, <2>4, Rearranged
  <2> QED BY <2>3, <2>5
<1> QED BY <1>4 DEF Base

LEMMA InitArchive == Addressable /\ Init => InStep
<1> SUFFICES ASSUME Addressable, Init PROVE InStep
  OBVIOUS
<1>1. job \in Jobs /\ job.start \in Nat /\ job.count \in Nat /\ Size \in Nat /\ Len(Fields) \in Nat
  BY JobFacts DEF Init
<1>2. Base = job.start
  BY <1>1 DEF Init, Base
<1>3. Position(job.start) = job.start
  <2>1. job.count * Size \in Nat /\ job.buf \in Nat /\ AddrMod \in Nat
    BY <1>1, NextMultiple, JobFacts, AddrModAssumption
  <2>2. job.buf + job.start < AddrMod
    BY <1>1, <2>1 DEF Addressable, Largest
  <2> QED BY <1>1, <2>2, Within
<1> QED BY <1>1, <1>2, <1>3 DEF Init, InStep, Typed, BetweenEntries, InEntry, FieldsRead,
          EntriesRead, Ended, Straight

LEMMA PrologueStep == InStep /\ Prologue => InStep'
<1> SUFFICES ASSUME InStep, Prologue PROVE InStep'
  OBVIOUS
<1>1. job' = job /\ Fields' = Fields /\ Size' = Size /\ Base' = Base /\ Straight' = Straight
  BY DEF Prologue, Fields, Size, Base, Straight
<1>2. Typed'
  BY <1>1, JobFacts DEF InStep, Typed, Prologue
<1>3. InEntry'
  <2>1. Pos(1) = 0 /\ (Pos(Len(value) + 1))' = Pos(1)
    BY <1>1, JobFacts DEF InStep, Typed, Prologue, Pos
  <2>2. cursor' = Base /\ cursor_base' = Base /\ good' /\ Len(value') = 0 /\ table' = table
    BY DEF InStep, BetweenEntries, Prologue
  <2>3. Base \in Nat /\ Widest(job.kind, job.bits) > 0
    BY <2>2, JobFacts DEF InStep, Typed, Prologue, BetweenEntries
  <2>4. Len(table) < job.count /\ (Len(table) > 0 => Straight)
    BY DEF InStep, BetweenEntries, Prologue
  <2>5. job' = job /\ Widest(job.kind, job.bits)' = Widest(job.kind, job.bits)
    BY <1>1
  <2>6. /\ (Len(table) < job.count /\ cursor_base = Base)'
        /\ (Len(table) > 0 => Straight)'
    BY <1>1, <2>2, <2>4
  <2>7. (Pos(Len(value) + 1))' = 0
    BY <2>1
  <2>8. (/\ cursor >= Base + Pos(Len(value) + 1) /\ cursor <= Base + 2 * Pos(Len(value) + 1)
         /\ cursor = Base + Pos(Len(value) + 1))'
    BY <1>1, <2>2, <2>3, <2>7
  <2>9. ~(Len(value) >= Widest(job.kind, job.bits))' /\ ~(Len(value) > 0)'
    BY <2>2, <2>3, <2>5, JobFacts DEF InStep, Typed
  <2> QED BY <2>2, <2>6, <2>8, <2>9 DEF InEntry
<1>4. FieldsRead' /\ BetweenEntries' /\ Ended'
  BY DEF Prologue, FieldsRead, BetweenEntries, Ended
<1>5. EntriesRead'
  BY <1>1 DEF InStep, EntriesRead, Prologue
<1> QED BY <1>1, <1>2, <1>3, <1>4, <1>5 DEF InStep

(* A field is read where the ABI has it, if the table is straight.         *)
LEMMA ReadFieldStep == Addressable /\ InStep /\ ReadField => InStep'
<1> SUFFICES ASSUME Addressable, InStep, ReadField PROVE InStep'
  OBVIOUS
<1> DEFINE n   == Len(value) + 1
           fld == Fields[n]
           at  == Aligned(cursor, Align(fld))
           to  == at + fld.width
<1>1. /\ job' = job /\ table' = table /\ pc = "fields"
      /\ cursor_base' = cursor_base
      /\ Fields' = Fields /\ Size' = Size /\ Base' = Base /\ Straight' = Straight
  BY DEF ReadField, Fields, Size, Base, Straight
<1>2. /\ job \in Jobs /\ cursor \in Nat /\ cursor_base \in Nat /\ good \in BOOLEAN
      /\ value \in Seq(Seq(Nat)) /\ Len(value) \in Nat /\ Len(table) \in Nat
      /\ table \in Seq(Seq(Seq(Nat))) /\ Len(table) <= job.count
  BY DEF InStep, Typed
<1>3. n \in 1 .. Len(Fields) /\ Len(value) = n - 1
  BY <1>2, JobFacts DEF ReadField
<1>4. /\ fld.width \in {1, 2, 4, 8, 16} /\ fld.width \in Nat \ {0}
      /\ Align(fld) \in {1, 2, 4, 8} /\ Align(fld) <= AlignOf(job.bits)
      /\ Pos(n) \in Nat /\ Pos(n) % Align(fld) = 0
      /\ Pos(n) = ABIOffset(job.kind, job.bits)[fld.name]
      /\ Pos(n + 1) = Pos(n) + fld.width
      /\ Pos(n + 1) <= Size /\ Align(fld) <= fld.width
  BY <1>2, <1>3, FieldFacts
<1>5. at \in Nat /\ at >= cursor /\ at < cursor + Align(fld) /\ at % Align(fld) = 0
      /\ (cursor % Align(fld) = 0 => at = cursor)
  BY <1>2, <1>4, AlignedAt
<1>7. /\ Base \in Nat /\ Len(table) < job.count /\ cursor_base = Base
      /\ Len(table) > 0 => Straight
      /\ cursor >= Base + Pos(n) /\ cursor <= Base + 2 * Pos(n)
      /\ Straight => cursor = Base + Pos(n)
      /\ ~Straight /\ Len(value) >= Widest(job.kind, job.bits) => cursor > Base + Pos(n)
      /\ good /\ Len(value) > 0 => cursor <= job.size
      /\ ~good => cursor > job.size
  BY <1>1, <1>2 DEF InStep, InEntry
<1>17. /\ to \in Nat /\ at \in Nat /\ to <= Base + 2 * Pos(n + 1)
       /\ Position(at) = at /\ Position(to) = to
  <2>1. PICK f, c, p, q, z :
          f = Align(fld) /\ c = fld.width /\ p = Pos(n) /\ q = Pos(n + 1) /\ z = at
    OBVIOUS
  <2>2. /\ f \in Nat /\ c \in Nat /\ f <= c /\ p \in Nat /\ q = p + c /\ q <= Size
        /\ z \in Nat /\ z < cursor + f /\ to = z + c
    BY <1>4, <1>5, <2>1
  <2>3. Size \in Nat /\ Size <= Largest /\ Largest \in Nat /\ job.buf \in Nat /\ AddrMod \in Nat
    BY <1>2, JobFacts, AddrModAssumption DEF Largest
  <2>4. Base \in Nat /\ cursor <= Base + 2 * p /\ job.buf + Base + Size + Largest <= AddrMod
    BY <1>2, <1>7, <2>1, Room
  <2>5. /\ z + c \in Nat /\ z + c <= Base + 2 * q
        /\ job.buf + (z + c) < AddrMod /\ job.buf + z < AddrMod
    <3>1. p + c <= Size /\ cursor \in Nat
      BY <1>2, <2>2
    <3>2. z + c \in Nat /\ z + c <= Base + 2 * (p + c)
      BY <2>2, <2>3, <2>4, <3>1, FieldEnd
    <3>3. job.buf + (z + c) < AddrMod /\ job.buf + z < AddrMod
      BY <2>2, <2>3, <2>4, <3>1, FieldEnd
    <3> QED BY <2>2, <3>2, <3>3
  <2>6. Position(z) = z /\ Position(z + c) = z + c
    BY <1>2, <2>2, <2>5, Within
  <2> QED BY <2>1, <2>2, <2>5, <2>6
<1>6. /\ good' = (good /\ at + fld.width <= job.size)
      /\ value' = Append(value, IF good' THEN Stored(fld, at) ELSE <<>>)
      /\ cursor' = at + fld.width /\ pc' = "fields"
  <2>1. /\ good' = (good /\ Position(to) <= job.size)
        /\ value' = Append(value, IF good' THEN Stored(fld, Position(at)) ELSE <<>>)
        /\ cursor' = Position(to)
        /\ \/ pc' = pc
           \/ good' /\ ~(0 <= at /\ to <= job.size)
    BY <1>17 DEF ReadField
  <2>2. 0 <= at
    BY <1>17
  <2>3. good' = (good /\ to <= job.size)
    BY <1>17, <2>1
  <2>4. pc' = "fields"
    BY <1>1, <2>1, <2>2, <2>3
  <2> QED BY <1>17, <2>1, <2>3, <2>4
<1>8. /\ Stored(fld, at) \in Seq(Nat)
      /\ Stored(fld, at) = NumberAt(at, fld.width, IF IsArray(fld) THEN "little" ELSE job.order)
  BY <1>2, <1>4, <1>5, JobFacts, StoredAsInFile
<1>9. (Pos(Len(value) + 1))' = Pos(n + 1) /\ Len(value') = n /\ value' \in Seq(Seq(Nat))
  <2>1. <<>> \in Seq(Nat)
    OBVIOUS
  <2>2. (IF good' THEN Stored(fld, at) ELSE <<>>) \in Seq(Nat)
    BY <1>8, <2>1
  <2>3. Len(value') = n /\ value' \in Seq(Seq(Nat))
    BY <1>2, <1>6, <2>2
  <2> QED BY <1>1, <2>3 DEF Pos
<1> HIDE DEF at, fld
<1>10. Straight => at = cursor
  <2>1. SUFFICES ASSUME Straight PROVE cursor % Align(fld) = 0
    BY <1>5
  <2>2. Base % AlignOf(job.bits) = 0
    BY <2>1 DEF InStep
  <2>3. AlignOf(job.bits) \in {4, 8}
    BY <1>2, JobFacts
  <2>4. (Base + Pos(n)) % Align(fld) = 0
    <3>1. /\ Base \in Nat /\ Pos(n) \in Nat /\ Align(fld) \in {1, 2, 4, 8}
          /\ Align(fld) <= AlignOf(job.bits) /\ Pos(n) % Align(fld) = 0
      BY <1>4, <1>7
    <3> HIDE DEF n
    <3> QED BY <2>2, <2>3, <3>1, InPlace
  <2> QED BY <1>7, <2>1, <2>4
<1>11. ~Straight /\ n >= Widest(job.kind, job.bits) => at > Base + Pos(n)
  <2> SUFFICES ASSUME ~Straight, n >= Widest(job.kind, job.bits) PROVE at > Base + Pos(n)
    OBVIOUS
  <2>1. Widest(job.kind, job.bits) \in Nat
    BY <1>2, JobFacts
  <2>2. CASE n > Widest(job.kind, job.bits)
    BY <1>2, <1>3, <1>4, <1>5, <1>7, <2>1, <2>2
  <2>3. CASE n = Widest(job.kind, job.bits)
    <3>1. Align(fld) = AlignOf(job.bits) /\ AlignOf(job.bits) \in {4, 8}
      BY <1>2, <2>3, JobFacts DEF fld
    <3>2. Base = job.start /\ Base % AlignOf(job.bits) # 0
      <4>1. Len(table) = 0
        BY <1>2, <1>7
      <4>2. Base = job.start
        BY <1>2, <4>1, JobFacts DEF Base
      <4> QED BY <4>2 DEF Straight
    <3>3. (Base + Pos(n)) % Align(fld) # 0
      BY <1>4, <1>7, <3>1, <3>2, OutOfPlace
    <3>4. cursor >= Base + Pos(n) /\ at >= cursor /\ at % Align(fld) = 0
      BY <1>5, <1>7, <2>3
    <3>5. at # Base + Pos(n)
      BY <3>3, <3>4
    <3> QED BY <1>2, <1>4, <1>5, <1>7, <3>4, <3>5
  <2> QED BY <1>3, <2>1, <2>2, <2>3
<1>12. Typed'
  <2>1. Len(value') <= Len(Fields')
    BY <1>1, <1>3, <1>9
  <2>2. cursor' \in Nat /\ good' \in BOOLEAN
    BY <1>6, <1>17
  <2> QED BY <1>1, <1>2, <1>6, <1>9, <2>1, <2>2 DEF Typed
<1>16. /\ at \in Nat /\ at >= cursor /\ fld.width \in Nat \ {0} /\ Pos(n) \in Nat
      /\ Pos(n + 1) = Pos(n) + fld.width /\ cursor' = at + fld.width
  BY <1>4, <1>5, <1>6
<1>13. InEntry'
  <2>1. /\ cursor' >= Base + Pos(n + 1)
        /\ Straight => cursor' = Base + Pos(n + 1)
        /\ ~Straight /\ n >= Widest(job.kind, job.bits) => cursor' > Base + Pos(n + 1)
    <3>1. cursor >= Base + Pos(n) /\ Base \in Nat /\ (Straight => cursor = Base + Pos(n))
      BY <1>7
    <3>2. at + fld.width >= Base + (Pos(n) + fld.width)
      BY <1>2, <1>16, <3>1
    <3>3. Straight => at + fld.width = Base + (Pos(n) + fld.width)
      BY <1>16, <1>10, <3>1
    <3>4. ~Straight /\ n >= Widest(job.kind, job.bits)
            => at + fld.width > Base + (Pos(n) + fld.width)
      BY <1>16, <1>11, <3>1
    <3> QED BY <1>16, <3>2, <3>3, <3>4
  <2>2. /\ good' => cursor' <= job.size
        /\ ~good' => cursor' > job.size
    <3>1. job.size \in Nat
      BY <1>2, JobFacts
    <3>2. CASE good
      <4>1. good' <=> at + fld.width <= job.size
        BY <1>6, <3>2, Zenon
      <4>2. cursor' = at + fld.width /\ at + fld.width \in Nat
        BY <1>16
      <4> QED BY <3>1, <4>1, <4>2
    <3>3. CASE ~good
      <4>1. cursor > job.size
        BY <1>7, <3>3
      <4> QED BY <1>2, <1>6, <1>16, <3>1, <3>3, <4>1
    <3> QED BY <3>2, <3>3
  <2>3. Widest(job.kind, job.bits)' = Widest(job.kind, job.bits)
    BY <1>1
  <2>4. cursor' <= Base + 2 * Pos(n + 1)
    BY <1>6, <1>17
  <2> QED BY <1>1, <1>7, <1>9, <2>1, <2>2, <2>3, <2>4 DEF InEntry
<1>14. FieldsRead'
  <2> SUFFICES ASSUME good', Straight, NEW f \in 1 .. n
               PROVE  value'[f] = InFile(Fields[f], Base, job.kind, job.bits, job.order)
    BY <1>1, <1>9 DEF FieldsRead
  <2>1. CASE f < n
    <3>1. value'[f] = value[f]
      BY <1>2, <1>3, <1>6, <2>1
    <3>2. good
      BY <1>6
    <3>3. f \in 1 .. Len(value)
      BY <1>2, <1>3, <2>1
    <3> QED BY <1>1, <3>1, <3>2, <3>3 DEF InStep, FieldsRead
  <2>2. CASE f = n
    <3>1. value'[f] = Stored(fld, at)
      BY <1>2, <1>3, <1>6, <2>2
    <3>2. at = Base + ABIOffset(job.kind, job.bits)[fld.name]
      BY <1>4, <1>7, <1>10
    <3> QED BY <1>8, <2>2, <3>1, <3>2 DEF InFile, fld
  <2> QED BY <1>3, <2>1, <2>2
<1>15. EntriesRead' /\ BetweenEntries' /\ Ended'
  BY <1>1, <1>6 DEF InStep, EntriesRead, BetweenEntries, Ended
<1> QED BY <1>1, <1>12, <1>13, <1>14, <1>15 DEF InStep

(* Behind the last field, a straight entry is kept if the file held all of *)
(* it; any other is one field too far, and the process stops.              *)
LEMMA EpilogueStep == Addressable /\ InStep /\ Epilogue => InStep'
<1> SUFFICES ASSUME Addressable, InStep, Epilogue PROVE InStep'
  OBVIOUS
<1>1. /\ job' = job /\ good' = good /\ cursor_base' = cursor_base /\ value' = value
      /\ pc = "fields" /\ Len(value) = Len(Fields)
      /\ Fields' = Fields /\ Size' = Size /\ Straight' = Straight
  BY DEF Epilogue, Fields, Size, Straight
<1>2. /\ job \in Jobs /\ cursor \in Nat /\ cursor_base \in Nat /\ good \in BOOLEAN
      /\ value \in Seq(Seq(Nat)) /\ Len(table) \in Nat /\ table \in Seq(Seq(Seq(Nat)))
  BY DEF InStep, Typed
<1>3. /\ Size \in Nat \ {0} /\ Size % AlignOf(job.bits) = 0 /\ AlignOf(job.bits) \in {4, 8}
      /\ job.start \in Nat /\ job.count \in Nat /\ job.size \in Nat
      /\ Len(Fields) \in Nat \ {0} /\ Widest(job.kind, job.bits) \in 1 .. Len(Fields)
      /\ Pos(Len(Fields) + 1) = Size
  BY <1>2, JobFacts
<1>4. Base \in Nat
  <2>1. Len(table) * Size \in Nat
    BY <1>2, <1>3, NextMultiple
  <2> QED BY <1>3, <2>1 DEF Base
<1>5. Pos(Len(value) + 1) = Size
  BY <1>1, <1>3
<1>6. /\ Len(table) < job.count /\ cursor_base = Base
      /\ Len(table) > 0 => Straight
      /\ Straight => cursor = Base + Size
      /\ ~Straight => cursor > Base + Size
      /\ good => cursor <= job.size
      /\ ~good => cursor > job.size
  <2>1. Len(value) >= Widest(job.kind, job.bits) /\ Len(value) > 0
    BY <1>1, <1>3
  <2> QED BY <1>1, <1>5, <2>1 DEF InStep, InEntry
<1>9. Position(cursor_base + Size) = cursor_base + Size
  <2>1. job.buf + Base + Size + Largest <= AddrMod /\ job.buf \in Nat /\ AddrMod \in Nat
    BY <1>2, <1>6, Room, JobFacts, AddrModAssumption
  <2>2. job.buf + (cursor_base + Size) < AddrMod /\ cursor_base + Size \in Nat
    BY <1>2, <1>3, <1>4, <1>6, <2>1 DEF Largest
  <2> QED BY <1>2, <2>2, Within
<1>7. CASE Straight
  <2>1. cursor = Base + Size /\ cursor <= cursor_base + Size /\ cursor_base # -job.buf
    <3>1. job.buf \in Nat \ {0}
      BY <1>2, JobFacts
    <3> QED BY <1>2, <1>4, <1>6, <1>7, <3>1
  <2>2. /\ cursor' = cursor_base + Size /\ pc' = "loop"
        /\ table' = IF good THEN Append(table, value) ELSE table
    BY <1>2, <1>3, <1>9, <2>1 DEF Epilogue
  <2>3. cursor' = Base + Size /\ cursor' \in Nat
    BY <1>3, <1>4, <1>6, <2>2
  <2>4. CASE good
    <3>1. /\ table' = Append(table, value) /\ Len(table') = Len(table) + 1
          /\ table' \in Seq(Seq(Seq(Nat)))
      BY <1>2, <2>2, <2>4
    <3>2. Base' = Base + Size
      <4>1. Base' = job.start + (Len(table) + 1) * Size
        BY <1>1, <3>1 DEF Base
      <4>2. Len(table) * Size \in Nat /\ (Len(table) + 1) * Size = Len(table) * Size + Size
        BY <1>2, <1>3, NextMultiple
      <4> QED BY <1>3, <4>1, <4>2 DEF Base
    <3>3. Typed'
      <4>1. Len(table') <= job.count
        BY <1>2, <1>3, <1>6, <3>1
      <4> QED BY <1>1, <1>2, <1>3, <2>2, <2>3, <3>1, <4>1 DEF Typed
    <3>4. BetweenEntries'
      <4>1. table'[Len(table')] = value
        BY <1>2, <3>1
      <4>2. cursor' = Base' /\ Base' <= job.size
        BY <1>6, <2>1, <2>3, <2>4, <3>2
      <4> QED BY <1>1, <1>7, <2>4, <4>1, <4>2 DEF BetweenEntries
    <3>5. EntriesRead'
      <4> SUFFICES ASSUME NEW k \in 1 .. Len(table'), NEW f \in 1 .. Len(Fields)
                   PROVE  table'[k][f] = InFile(Fields[f], job.start + (k - 1) * Size,
                                                job.kind, job.bits, job.order)
        BY <1>1 DEF EntriesRead
      <4>1. CASE k \in 1 .. Len(table)
        <5>1. table'[k] = table[k]
          BY <1>2, <3>1, <4>1
        <5> QED BY <4>1, <5>1 DEF InStep, EntriesRead
      <4>2. CASE k = Len(table) + 1
        <5>1. table'[k] = value
          BY <1>2, <3>1, <4>2
        <5>2. value[f] = InFile(Fields[f], Base, job.kind, job.bits, job.order)
          BY <1>1, <1>7, <2>4 DEF InStep, FieldsRead
        <5>3. k - 1 = Len(table)
          BY <1>2, <4>2
        <5>4. job.start + (k - 1) * Size = Base
          BY <5>3 DEF Base
        <5> QED BY <5>1, <5>2, <5>4
      <4> QED BY <1>2, <3>1, <4>1, <4>2
    <3>6. Base' % AlignOf(job.bits) = 0
      <4>1. Base % AlignOf(job.bits) = 0
        BY <1>7 DEF InStep
      <4>2. /\ AlignOf(job.bits) \in {4, 8} /\ Size \in Nat /\ Size % AlignOf(job.bits) = 0
            /\ AlignOf(job.bits) \in {1, 2, 4, 8} /\ AlignOf(job.bits) <= AlignOf(job.bits)
        BY <1>3
      <4>3. (Base + Size) % AlignOf(job.bits) = 0
        BY <1>4, <4>1, <4>2, InPlace
      <4> QED BY <3>2, <4>3
    <3>7. InEntry' /\ FieldsRead' /\ Ended'
      BY <2>2 DEF InEntry, FieldsRead, Ended
    <3> QED BY <1>1, <3>3, <3>4, <3>5, <3>6, <3>7 DEF InStep
  <2>5. CASE ~good
    <3>1. table' = table /\ Base' = Base
      BY <1>1, <2>2, <2>5 DEF Base
    <3>2. Typed'
      BY <1>1, <1>2, <1>3, <1>6, <2>2, <2>3, <3>1 DEF Typed
    <3>3. BetweenEntries'
      <4>1. Base + Size > job.size
        BY <1>6, <2>1, <2>5
      <4> QED BY <1>1, <1>6, <1>7, <2>5, <3>1, <4>1 DEF BetweenEntries
    <3>4. EntriesRead' /\ InEntry' /\ FieldsRead' /\ Ended'
      BY <1>1, <2>2, <3>1 DEF InStep, EntriesRead, InEntry, FieldsRead, Ended
    <3> QED BY <1>1, <3>1, <3>2, <3>3, <3>4 DEF InStep
  <2> QED BY <2>4, <2>5
<1>8. CASE ~Straight
  <2>1. ~(cursor <= cursor_base + Size)
    BY <1>2, <1>3, <1>4, <1>6, <1>8
  <2>2. pc' = "aborted" /\ cursor' = cursor /\ table' = table
    BY <1>9, <2>1 DEF Epilogue
  <2>3. Typed'
    BY <1>1, <1>2, <1>3, <1>6, <2>2 DEF Typed
  <2>4. BetweenEntries' /\ InEntry' /\ FieldsRead'
    BY <2>2 DEF BetweenEntries, InEntry, FieldsRead
  <2>5. EntriesRead'
    BY <1>1, <2>2 DEF InStep, EntriesRead
  <2>6. Ended'
    <3>1. job.count > 0
      BY <1>2, <1>3, <1>6
    <3> QED BY <1>1, <1>8, <2>2, <3>1 DEF Ended
  <2> QED BY <1>1, <1>8, <2>3, <2>4, <2>5, <2>6 DEF InStep
<1> QED BY <1>7, <1>8

LEMMA FinishStep == InStep /\ Finish => InStep'
<1> SUFFICES ASSUME InStep, Finish PROVE InStep'
  OBVIOUS
<1>1. /\ job' = job /\ good' = good /\ cursor_base' = cursor_base /\ value' = value
      /\ cursor' = cursor /\ table' = table /\ pc = "loop"
      /\ Fields' = Fields /\ Size' = Size /\ Straight' = Straight /\ Base' = Base
  BY DEF Finish, Fields, Size, Straight, Base
<1>2. /\ good => Len(table) = job.count
      /\ pc' = IF good /\ (job.kind = "ELFHeader" => IsValid) THEN "read" ELSE "null"
  BY DEF Finish
<1>3. pc' \in {"read", "null"}
  BY <1>2
<1>4. Typed'
  BY <1>1, <1>3 DEF InStep, Typed
<1>5. BetweenEntries' /\ InEntry' /\ FieldsRead' /\ EntriesRead'
  <2>1. BetweenEntries'
    BY <1>1 DEF InStep, BetweenEntries
  <2>2. InEntry' /\ FieldsRead'
    BY <1>3 DEF InEntry, FieldsRead
  <2>3. EntriesRead'
    BY <1>1 DEF InStep, EntriesRead
  <2> QED BY <2>1, <2>2, <2>3
<1>6. IsValid' <=> IsValid
  BY <1>1 DEF IsValid
<1>7. Ended'
  BY <1>1, <1>2, <1>6 DEF Ended
<1> QED BY <1>1, <1>4, <1>5, <1>7 DEF InStep

(* Whatever is read from a table in the address space, the reader is where *)
(* the ABI has the next field, or about to stop the process.               *)
THEOREM ArchiveInvariant == Spec => []ArchiveInv
<1>1. Init => ArchiveInv
  BY InitArchive DEF ArchiveInv, Init
<1>2. ArchiveInv /\ [Next]_vars => ArchiveInv'
  <2> SUFFICES ASSUME ArchiveInv, [Next]_vars PROVE ArchiveInv'
    OBVIOUS
  <2>1. job' = job /\ (Addressable' <=> Addressable) /\ job \in Jobs
    BY DEF Next, Prologue, ReadField, Epilogue, Finish, vars, ArchiveInv, Addressable, Size
  <2> SUFFICES ASSUME Addressable PROVE InStep'
    BY <2>1 DEF ArchiveInv
  <2>2. InStep
    BY DEF ArchiveInv
  <2>3. CASE Prologue
    BY <2>2, <2>3, PrologueStep
  <2>4. CASE ReadField
    BY <2>2, <2>4, ReadFieldStep
  <2>5. CASE Epilogue
    BY <2>2, <2>5, EpilogueStep
  <2>6. CASE Finish
    BY <2>2, <2>6, FinishStep
  <2>7. CASE UNCHANGED vars
    BY <2>2, <2>7 DEF vars, InStep, Typed, BetweenEntries, InEntry, FieldsRead, EntriesRead,
                      Ended, Straight, Base, Size, Fields, Pos, IsValid
  <2> QED BY <2>3, <2>4, <2>5, <2>6, <2>7 DEF Next
<1> QED BY <1>1, <1>2, PTL DEF Spec

-----------------------------------------------------------------------------
(* Every field of every entry that is kept has come from where the ABI has *)
(* it, in the byte order of the archive, on every processor, if the table  *)
(* is in the address space.                                                *)
THEOREM AsTheABIHolds == Spec => []AsTheABI
<1>1. ArchiveInv => AsTheABI
  <2> SUFFICES ASSUME InStep, pc = "read" PROVE AsTheABI
    BY DEF AsTheABI, ArchiveInv
  <2>1. Len(table) = job.count
    BY DEF InStep, Ended
  <2>2. DOMAIN Fields = 1 .. Len(Fields)
    BY JobFacts, FieldsDomain DEF InStep, Typed, Fields
  <2> QED BY <2>1, <2>2 DEF InStep, EntriesRead, AsTheABI
<1> QED BY <1>1, ArchiveInvariant, PTL

(* A read that left the file was of a table the file does not hold.        *)
LEMMA ShortFile ==
  ASSUME InStep, pc = "null", ~good
  PROVE  ~Misaligned /\ ~Held
<1>1. /\ job.count \in Nat /\ job.start \in Nat /\ job.size \in Nat /\ Size \in Nat
      /\ Len(table) \in Nat
  BY JobFacts DEF InStep, Typed
<1>2. Straight /\ Len(table) < job.count /\ Base + Size > job.size
  BY DEF InStep, BetweenEntries
<1>3. (Len(table) + 1) * Size <= job.count * Size
  BY <1>1, <1>2, MoreEntries
<1>4. /\ Len(table) * Size \in Nat /\ job.count * Size \in Nat
      /\ (Len(table) + 1) * Size = Len(table) * Size + Size
  BY <1>1, NextMultiple
<1>5. job.start + job.count * Size > job.size
  BY <1>1, <1>2, <1>3, <1>4 DEF Base
<1>6. job.count > 0
  BY <1>1, <1>2
<1> QED BY <1>1, <1>2, <1>4, <1>5, <1>6 DEF Misaligned, Held, Straight

(* For a table in the address space, the process stops if and only if it   *)
(* has an entry and is not aligned; else the table is kept if and only if  *)
(* the file holds all of it.                                               *)
THEOREM ReadsAsAssumedHolds == Spec => []ReadsAsAssumed
<1>1. ArchiveInv => ReadsAsAssumed
  <2> SUFFICES ASSUME InStep PROVE ReadsAsAssumed
    BY DEF ReadsAsAssumed, ArchiveInv
  <2>1. /\ job.count \in Nat /\ job.start \in Nat /\ job.size \in Nat /\ Size \in Nat
        /\ Len(table) \in Nat /\ good \in BOOLEAN
    BY JobFacts DEF InStep, Typed
  <2>2. ASSUME pc = "aborted" PROVE Misaligned
    BY <2>2 DEF InStep, Ended, Straight, Misaligned
  <2>3. ASSUME pc = "read" PROVE ~Misaligned /\ Held
    <3>1. good /\ Len(table) = job.count
      BY <2>3 DEF InStep, Ended
    <3>2. Len(table) > 0 => Straight /\ Base <= job.size
      BY <2>3, <3>1 DEF InStep, BetweenEntries
    <3>3. Base = job.start + job.count * Size
      BY <3>1 DEF Base
    <3>4. CASE job.count = 0
      BY <3>4 DEF Misaligned, Held
    <3>5. CASE job.count > 0
      BY <3>1, <3>2, <3>3, <3>5 DEF Misaligned, Held, Straight
    <3> QED BY <2>1, <3>4, <3>5
  <2>4. ASSUME pc = "null" PROVE ~Misaligned /\ (job.kind = "ELFHeader" \/ ~Held)
    <3>1. CASE good
      <4>1. job.kind = "ELFHeader"
        BY <2>4, <3>1 DEF InStep, Ended
      <4>2. job.start = 0
        BY <4>1, JobsAssumption DEF InStep, Typed
      <4>3. AlignOf(job.bits) \in {4, 8}
        BY JobFacts DEF InStep, Typed
      <4>4. job.start % AlignOf(job.bits) = 0
        BY <4>2, <4>3
      <4> QED BY <4>1, <4>4 DEF Misaligned
    <3>2. CASE ~good
      BY <2>4, <3>2, ShortFile
    <3> QED BY <3>1, <3>2
  <2>5. pc # "died"
    BY DEF InStep, Typed
  <2> QED BY <2>2, <2>3, <2>4, <2>5 DEF ReadsAsAssumed
<1> QED BY <1>1, ArchiveInvariant, PTL

(* A header is accepted only by a reader for its class and byte order, and *)
(* a whole header of the reader's own kind is accepted.                    *)
THEOREM OnlyOwnKindHolds == Spec => []OnlyOwnKind
<1>1. ArchiveInv => OnlyOwnKind
  <2> SUFFICES ASSUME InStep, job.kind = "ELFHeader" PROVE OnlyOwnKind
    <3> SUFFICES ASSUME job \in Jobs, job.kind = "ELFHeader" PROVE Addressable
      BY DEF OnlyOwnKind, ArchiveInv
    <3>1. /\ job.start = 0 /\ job.count = 1 /\ Size \in Nat /\ Size <= Largest
          /\ job.buf \in Nat /\ job.size \in Nat /\ job.buf + job.size + 2 * Largest <= AddrMod
      BY JobFacts, JobsAssumption
    <3>2. job.count * Size = Size
      BY <3>1
    <3> QED BY <3>1, <3>2, AddrModAssumption DEF Addressable, Largest
  <2>1. /\ job \in Jobs /\ job.start = 0 /\ job.count = 1
        /\ job.order \in Orders /\ job.data \in Orders /\ job.bits \in Widths
    BY JobsAssumption DEF InStep, Typed
  <2>2. DOMAIN Fields = 1 .. Len(Fields)
    BY <2>1, JobFacts, FieldsDomain DEF Fields
  <2>3. ASSUME good, Len(table) = 1, pc \in {"read", "null"}, NEW f \in DOMAIN Fields
        PROVE  value[f] = InFile(Fields[f], 0, "ELFHeader", job.bits, job.order)
    <3>1. value = table[1]
      BY <2>3 DEF InStep, BetweenEntries
    <3>2. table[1][f] = InFile(Fields[f], job.start + (1 - 1) * Size, job.kind,
                               job.bits, job.order)
      BY <2>2, <2>3 DEF InStep, EntriesRead
    <3>3. job.start + (1 - 1) * Size = 0
      BY <2>1, JobFacts
    <3> QED BY <3>1, <3>2, <3>3
  <2>4. ASSUME pc = "read" PROVE job.class = job.bits /\ job.data = job.order
    <3>1. good /\ Len(table) = 1 /\ IsValid
      BY <2>1, <2>4 DEF InStep, Ended
    <3>2. job.class = job.bits
      BY <3>1 DEF IsValid
    <3>3. Fields = HeaderFields(job.bits)
      BY DEF Fields, FieldsOf
    <3>4. 4 \in DOMAIN Fields /\ Fields[4] = [name |-> "e_version", width |-> 4]
      BY <3>3 DEF HeaderFields
    <3>5. InFile(Fields[4], 0, "ELFHeader", job.bits, job.order)
            = InFile(Fields[4], 0, "ELFHeader", job.bits, job.data)
      BY <2>3, <2>4, <3>1, <3>2, <3>4 DEF IsValid, Prescribed
    <3>6. ABIOffset("ELFHeader", job.bits)["e_version"] = 20
      BY <2>1 DEF ABIOffset, Widths
    <3>7. NumberAt(20, 4, job.order) = NumberAt(20, 4, job.data)
      BY <3>4, <3>5, <3>6 DEF InFile, IsArray
    <3>8. NumberAt(20, 4, "little")[1] = 20 /\ NumberAt(20, 4, "big")[1] = 23
      BY DEF NumberAt
    <3> QED BY <2>1, <3>2, <3>7, <3>8 DEF Orders
  <2>5. ASSUME pc = "null" PROVE ~(job.class = job.bits /\ job.data = job.order /\ Held)
    <3>1. CASE ~good
      BY <2>5, <3>1, ShortFile
    <3>2. CASE good
      <4>1. Len(table) = 1 /\ ~IsValid
        BY <2>1, <2>5, <3>2 DEF InStep, Ended
      <4>2. job.class = job.bits /\ job.data = job.order => IsValid
        BY <2>3, <2>5, <3>2, <4>1 DEF IsValid
      <4> QED BY <4>1, <4>2
    <3> QED BY <3>1, <3>2
  <2> QED BY <2>4, <2>5 DEF OnlyOwnKind
<1> QED BY <1>1, ArchiveInvariant, PTL
=============================================================================
