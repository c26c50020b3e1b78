-------------------------- MODULE ObjectReaderProofs --------------------------
(***************************************************************************)
(* What read() keeps in memory is complete, and the tables that names and  *)
(* stubs come from are there when they are used: for every object, offsets *)
(* outside the address space among them, and every place where its file    *)
(* may end.                                                                *)
(***************************************************************************)
EXTENDS ObjectReader, NumberFacts

USE DEF Indices, Sec

(* PROGBITS sections are not touched by the first pass; the sections that  *)
(* names come from are none; and relocation has taken the sections it has  *)
(* come past.                                                              *)
Waiting ==
  pc \in {"header", "shtab", "first", "names"} =>
    \A k \in Indices : Deferred(k) => stab[k] # "loaded"
TablesSettled ==
  pc \in {"second", "relocate", "loaded"} =>
    \A k \in {obj.shstrndx, Named(".symtab"), Named(".strtab")} : ~Deferred(k)
Taken(k) ==
  Sec(k).type = "REL" => stab[k] = "loaded" /\ stab[Named(Sec(k).target)] = "loaded"
TakenSoFar ==
  /\ pc = "relocate" => \A k \in 0 .. i - 1 : Taken(k)
  /\ pc = "loaded" => \A k \in Indices : Taken(k)
ReaderInv ==
  /\ TypeOK /\ ReadToTheEnd /\ NeverBlind /\ TablesInMemory
  /\ Waiting /\ TablesSettled /\ TakenSoFar

(* The objects have sections 0 .. shnum - 1, the first one without a type. *)
LEMMA ObjectFacts ==
  ASSUME obj \in Objects
  PROVE  /\ obj.shnum \in Nat \ {0}
         /\ obj.shstrndx \in Indices
         /\ \A k \in Indices : /\ Sec(k).type \in ShTypes
                               /\ Sec(k).off \in Nat /\ Sec(k).size \in Nat
BY ReaderAssumption

(* getByName always answers a section of the object.                       *)
LEMMA NamedIndex ==
  ASSUME obj \in Objects, NEW name
  PROVE  Named(name) \in Indices
<1> DEFINE all == {k \in Indices : Sec(k).type # "NULL" /\ Sec(k).name = name}
<1>1. obj.shnum \in Nat \ {0}
  BY ObjectFacts
<1>2. CASE all = {}
  BY <1>1, <1>2 DEF Named
<1>3. CASE all # {}
  <2>1. \E k \in all : \A j \in all : j <= k
    BY <1>1, <1>3, Greatest
  <2>2. (CHOOSE k \in all : \A j \in all : j <= k) \in all
    <3> HIDE DEF all
    <3> QED BY <2>1
  <2> QED BY <1>3, <2>2 DEF Named
<1> QED BY <1>2, <1>3

-----------------------------------------------------------------------------
(* A place in front of the end of the address space is where its offset    *)
(* says, and the test of readBytes is exact there.                         *)
LEMMA PlainPosition ==
  ASSUME NEW p \in Nat, Buf + p < AddrMod
  PROVE  Position(p) = p
<1>1. Buf + p \in 0 .. AddrMod - 1 /\ AddrMod \in Nat \ {0} /\ Buf \in Nat
  BY ReaderAssumption
<1>2. (Buf + p) % AddrMod = Buf + p
  BY <1>1, SmallRest
<1> QED BY <1>1, <1>2 DEF Position

LEMMA AddressableReads ==
  ASSUME TypeOK, NEW off \in Nat, NEW n \in Nat, Addressable(off, n)
  PROVE  /\ Straight(off, n) /\ ~(Position(off) < 0)
         /\ Fits(off, n) <=> Held(off, n)
<1>1. Buf \in Nat \ {0} /\ AddrMod \in Nat /\ HeaderSize \in Nat \ {0}
  BY ReaderAssumption
<1>2. Margin \in Nat \ {0}
  BY <1>1 DEF Margin
<1>3. Buf + (off + n) < AddrMod /\ Buf + off < AddrMod /\ off + n \in Nat
  BY <1>1, <1>2 DEF Addressable
<1>4. Position(off) = off /\ Position(off + n) = off + n
  BY <1>3, PlainPosition
<1>5. Buf + Position(off) + n + Margin <= AddrMod
  BY <1>4 DEF Addressable
<1>6. Position(off) # -Buf /\ ~(Position(off) < 0)
  BY <1>1, <1>4
<1> QED BY <1>4, <1>5, <1>6 DEF Straight, Fits, Held

(* Every place in the file is such a place.                                *)
LEMMA HeldAddressable ==
  ASSUME TypeOK, NEW off \in Nat, NEW n \in Nat, Held(off, n)
  PROVE  Addressable(off, n)
<1>1. size \in Nat /\ Buf + size + Margin <= AddrMod
  BY ReaderAssumption DEF TypeOK
<1>2. Buf \in Nat /\ AddrMod \in Nat /\ Margin \in Nat
  BY ReaderAssumption DEF Margin
<1> QED BY <1>1, <1>2 DEF Held, Addressable

(* What the archive is behind a read.                                      *)
LEMMA AfterRead ==
  ASSUME TypeOK, NEW off \in Nat, NEW n \in Nat, NEW g \in GoodAfter(off, n)
  PROVE  /\ g \in BOOLEAN /\ (g => good)
         /\ g /\ Addressable(off, n) => Held(off, n)
         /\ Held(off, n) /\ good => g
<1>0. GoodAfter(off, n) = {good /\ ok : ok \in Tests(off, n)}
  BY DEF GoodAfter
<1>1. PICK ok \in Tests(off, n) : g = (good /\ ok)
  BY <1>0, Zenon
<1>2. Tests(off, n) \subseteq BOOLEAN
  <2>1. Fits(off, n) \in BOOLEAN
    BY DEF Fits
  <2>2. Tests(off, n) = {Fits(off, n)} \/ Tests(off, n) = BOOLEAN
    BY DEF Tests
  <2> QED BY <2>1, <2>2, Zenon
<1>3. Addressable(off, n) => Tests(off, n) = {Held(off, n)}
  <2>1. Held(off, n) \in BOOLEAN /\ Fits(off, n) \in BOOLEAN
    BY DEF Held, Fits
  <2>2. Addressable(off, n) => Fits(off, n) = Held(off, n) /\ Straight(off, n)
    BY <2>1, AddressableReads, Zenon
  <2> QED BY <2>2 DEF Tests
<1>4. ok \in BOOLEAN /\ good \in BOOLEAN /\ Held(off, n) \in BOOLEAN
  BY <1>1, <1>2 DEF TypeOK, Held
<1>5. g \in BOOLEAN /\ (g => good /\ ok) /\ (good /\ ok => g)
  BY <1>1, <1>4, Zenon
<1>6. Addressable(off, n) => ok = Held(off, n)
  BY <1>1, <1>3
<1> QED BY <1>5, <1>6, HeldAddressable, Zenon

(* A read of what the file holds does not stray.                           *)
LEMMA HeldKeeps ==
  ASSUME TypeOK, NEW off \in Nat, NEW n \in Nat, Held(off, n)
  PROVE  Straight(off, n) /\ Fits(off, n) /\ ~MayStray(off, n)
BY HeldAddressable, AddressableReads DEF MayStray

(* What reading a section does to it, and when it stops the program.       *)
Stopped == /\ pc' = "aborted" /\ failure' \in {"unaligned", "stray", "blind"}
           /\ UNCHANGED <<i, good, stab>>
BecomesOne(v) ==
  /\ v \in {"loaded", "null", "refused"}
  /\ stab' = [stab EXCEPT ![i] = v]
  /\ v = "loaded" /\ HasPlace(i) => InFile(i)
  /\ FromArchive(i) => (v = "loaded" => good') /\ (v = "null" => ~good')
Advanced == /\ pc' = pc /\ i' = i + 1 /\ failure' = failure
            /\ good' \in BOOLEAN /\ (good' => good)
            /\ \E v : BecomesOne(v)

(* A section that has been kept has been read to the end, if its offset    *)
(* is one.                                                                 *)
LEMMA KeptOne ==
  ASSUME TypeOK, i < obj.shnum, good' \in BOOLEAN, good' => good,
         good' /\ HasPlace(i) => InFile(i), Keep(good'), Continue
  PROVE  Advanced
<1>1. CASE good'
  <2>1. BecomesOne("loaded")
    BY <1>1 DEF Keep, BecomesOne
  <2> QED BY <2>1 DEF Continue, Advanced
<1>2. CASE ~good'
  <2>1. BecomesOne("null")
    BY <1>2 DEF Keep, BecomesOne
  <2> QED BY <2>1 DEF Continue, Advanced
<1> QED BY <1>1, <1>2

LEMMA RefusedOne ==
  ASSUME TypeOK, NoMemory
  PROVE  Advanced
<1>1. BecomesOne("refused")
  BY DEF NoMemory, BecomesOne
<1> QED BY <1>1 DEF NoMemory, Continue, Advanced, TypeOK

LEMMA ContentsOne ==
  ASSUME TypeOK, i < obj.shnum, ReadContents
  PROVE  Stopped \/ Advanced
<1>1. i \in Indices /\ Sec(i).off \in Nat /\ Sec(i).size \in Nat
  BY ObjectFacts DEF TypeOK
<1>2. CASE Stray(Sec(i).off, Sec(i).size) /\ UNCHANGED <<i, good, stab>>
  BY <1>2 DEF Stray, Abort, Stopped
<1>3. CASE good' \in GoodAfter(Sec(i).off, Sec(i).size) /\ Keep(good') /\ Continue
  <2>1. good' \in BOOLEAN /\ (good' => good)
        /\ (good' /\ HasPlace(i) => InFile(i))
    BY <1>1, <1>3, AfterRead DEF HasPlace, InFile
  <2> QED BY <1>3, <2>1, KeptOne
<1> QED BY <1>2, <1>3 DEF ReadContents

LEMMA EntriesOne ==
  ASSUME TypeOK, i < obj.shnum, ReadEntries
  PROVE  Stopped \/ Advanced
<1>1. i \in Indices /\ Sec(i).off \in Nat /\ Sec(i).size \in Nat
  BY ObjectFacts DEF TypeOK
<1>2. CASE UNCHANGED <<i, good, stab>> /\ pc' = "aborted" /\ failure' \in {"unaligned", "stray"}
  BY <1>2 DEF Stopped
<1>3. CASE /\ good' \in IF good /\ Sec(i).size > 0
                       THEN GoodAfter(Sec(i).off, Sec(i).size) ELSE {good}
           /\ Keep(good') /\ Continue
  <2>1. good' \in BOOLEAN /\ (good' => good)
        /\ (good' /\ HasPlace(i) => InFile(i))
    <3>1. CASE good /\ Sec(i).size > 0
      BY <1>1, <1>3, <3>1, AfterRead DEF HasPlace, InFile
    <3>2. CASE ~(good /\ Sec(i).size > 0)
      <4>1. good' = good
        BY <1>3, <3>2
      <4>2. good' => Sec(i).size = 0
        BY <1>1, <3>2, <4>1
      <4> QED BY <4>1, <4>2 DEF TypeOK, InFile
    <3> QED BY <3>1, <3>2
  <2> QED BY <1>3, <2>1, KeptOne
<1> QED BY <1>2, <1>3 DEF ReadEntries, Abort, Stray

(* A section that has been read is in memory to its last byte, or not at   *)
(* all.                                                                    *)
LEMMA ReadOne ==
  ASSUME TypeOK, i < obj.shnum, ReadSection
  PROVE  /\ obj' = obj /\ size' = size /\ good' \in BOOLEAN
         /\ Stopped \/ Advanced
         /\ failure' = "blind" =>
              failure = "blind" \/ (Deferred(i) /\ ~Found(".symtab"))
<1>1. obj' = obj /\ size' = size
  BY DEF ReadSection
<1>2. good \in BOOLEAN
  BY DEF TypeOK
<1>3. Stopped \/ Advanced
  <2>1. CASE ReadStrTab
    BY <2>1, ContentsOne DEF ReadStrTab
  <2>2. CASE ReadSymTab \/ ReadRelTable
    BY <2>2, EntriesOne DEF ReadSymTab, ReadRelTable
  <2>3. CASE ReadNoBits
    <3>1. CASE NoMemory
      BY <3>1, RefusedOne
    <3>2. CASE Keep(TRUE) /\ UNCHANGED good /\ Continue
      <4>1. BecomesOne("loaded")
        BY <2>3, <3>2 DEF ReadNoBits, Keep, BecomesOne, InFile, FromArchive
      <4> QED BY <1>2, <3>2, <4>1 DEF Continue, Advanced
    <3> QED BY <2>3, <3>1, <3>2 DEF ReadNoBits
  <2>4. CASE ReadProgBits
    <3>1. CASE Abort("blind") /\ UNCHANGED <<i, good, stab>>
      BY <3>1 DEF Abort, Stopped
    <3> QED BY <2>4, <3>1, RefusedOne, ContentsOne DEF ReadProgBits
  <2>5. CASE ReadUnknown
    <3>1. BecomesOne("null")
      BY <2>5 DEF ReadUnknown, Keep, BecomesOne, FromArchive
    <3> QED BY <1>2, <2>5, <3>1 DEF ReadUnknown, Continue, Advanced
  <2> QED BY <2>1, <2>2, <2>3, <2>4, <2>5 DEF ReadSection
<1>4. good' \in BOOLEAN
  BY <1>2, <1>3 DEF Stopped, Advanced
<1>5. failure' = "blind" =>
        failure = "blind" \/ (Deferred(i) /\ ~Found(".symtab"))
  BY DEF ReadSection, ReadStrTab, ReadSymTab, ReadRelTable, ReadNoBits, ReadProgBits,
         ReadUnknown, ReadContents, ReadEntries, Stray, Abort, Continue, NoMemory, Deferred
<1> QED BY <1>1, <1>3, <1>4, <1>5

(* Names and the extent of sections belong to the object and its file.     *)
LEMMA SameFile ==
  ASSUME obj' = obj, size' = size
  PROVE  /\ \A name : Named(name)' = Named(name)
         /\ \A k : /\ InFile(k)' = InFile(k) /\ Deferred(k)' = Deferred(k)
                   /\ HasPlace(k)' = HasPlace(k)
<1>1. \A name : Named(name)' = Named(name)
  BY DEF Named
<1>2. \A k : /\ InFile(k)' = InFile(k) /\ Deferred(k)' = Deferred(k)
             /\ HasPlace(k)' = HasPlace(k)
  BY DEF InFile, Held, Deferred, HasPlace, Addressable
<1> QED BY <1>1, <1>2

(* Nothing is in memory before the first section is read.                  *)
LEMMA InitReaderInv == Init => ReaderInv
<1> SUFFICES ASSUME Init PROVE ReaderInv
  OBVIOUS
<1>1. obj.shnum \in Nat \ {0}
  BY ObjectFacts DEF Init
<1>2. TypeOK
  BY <1>1 DEF Init, TypeOK
<1>3. /\ \A k \in Indices : stab[k] = "unread"
      /\ pc = "header" /\ failure = "none"
  BY DEF Init
<1> QED BY <1>2, <1>3 DEF ReaderInv, ReadToTheEnd, NeverBlind, TablesInMemory,
           Waiting, TablesSettled, TakenSoFar

(* A section header has an offset.                                         *)
LEMMA HeaderOffNat ==
  ASSUME TypeOK, i < obj.shnum
  PROVE  HeaderOff(i) \in Nat /\ ShdrSize \in Nat
<1>1. obj.shoff \in Nat /\ i \in Nat /\ ShdrSize \in Nat
  BY ObjectFacts, ReaderAssumption DEF TypeOK
<1>2. PICK n \in Nat, w \in Nat : n = i /\ w = ShdrSize
  BY <1>1
<1>3. n * w \in Nat
  OBVIOUS
<1> QED BY <1>1, <1>2, <1>3 DEF HeaderOff

(* The header and the section header table: no section is touched.         *)
LEMMA HeadersKeepInv ==
  ASSUME ReaderInv, ReadHeader \/ ReadSectionHeader
  PROVE  ReaderInv'
<1>1. obj' = obj /\ size' = size /\ stab' = stab
  BY DEF ReadHeader, ReadSectionHeader
<1>2. /\ pc \in {"header", "shtab"}
      /\ pc' \in {"shtab", "null", "aborted"} /\ failure' # "blind"
  BY DEF ReaderInv, NeverBlind, ReadHeader, ReadSectionHeader, Abort, Stray
<1>3. good' \in BOOLEAN /\ i' \in 0 .. obj.shnum
  <2>1. CASE ReadHeader
    BY <2>1 DEF ReadHeader, Fits, ReaderInv, TypeOK
  <2>2. CASE ReadSectionHeader
    <3>1. obj.shnum \in Nat /\ i \in 0 .. obj.shnum /\ good \in BOOLEAN /\ i < obj.shnum
      BY <2>2, ObjectFacts DEF ReaderInv, TypeOK, ReadSectionHeader
    <3>2. i' \in {i, i + 1}
      BY <2>2 DEF ReadSectionHeader
    <3>3. good' \in BOOLEAN
      <4>1. CASE good' \in GoodAfter(HeaderOff(i), ShdrSize)
        BY <3>1, <4>1, HeaderOffNat, AfterRead, ReaderAssumption DEF ReaderInv
      <4>2. CASE UNCHANGED good
        BY <3>1, <4>2
      <4> QED BY <2>2, <4>1, <4>2 DEF ReadSectionHeader
    <3> QED BY <3>1, <3>2, <3>3
  <2> QED BY <2>1, <2>2
<1>4. TypeOK'
  BY <1>1, <1>2, <1>3 DEF ReaderInv, TypeOK
<1>5. ReadToTheEnd'
  BY <1>1, SameFile DEF ReaderInv, ReadToTheEnd
<1>6. Waiting'
  BY <1>1, <1>2, SameFile DEF ReaderInv, Waiting
<1>7. NeverBlind' /\ TablesInMemory' /\ TablesSettled' /\ TakenSoFar'
  BY <1>2 DEF NeverBlind, TablesInMemory, TablesSettled, TakenSoFar
<1> QED BY <1>4, <1>5, <1>6, <1>7 DEF ReaderInv

(* The end of a loop: what the next one relies on has been established.    *)
LEMMA NextLoopKeepsInv ==
  ASSUME ReaderInv, NEW from, NEW to, NextLoop(from, to),
         <<from, to>> \in {<<"shtab", "first">>, <<"first", "names">>,
                          <<"second", "relocate">>, <<"relocate", "loaded">>}
  PROVE  ReaderInv'
<1>1. /\ obj' = obj /\ size' = size /\ stab' = stab /\ good' = good
      /\ failure' = failure /\ i' = 0 /\ i = obj.shnum
      /\ pc = from /\ pc' = to
  BY DEF NextLoop
<1>2. obj.shnum \in Nat \ {0}
  BY ObjectFacts DEF ReaderInv, TypeOK
<1>3. TypeOK'
  BY <1>1, <1>2 DEF ReaderInv, TypeOK
<1>4. ReadToTheEnd' /\ NeverBlind'
  BY <1>1, SameFile DEF ReaderInv, ReadToTheEnd, NeverBlind
<1>5. TablesInMemory' /\ TablesSettled' /\ Waiting'
  <2>1. pc' \in {"relocate", "loaded"} => pc \in {"second", "relocate"}
    BY <1>1
  <2>2. pc' \in {"first", "names"} => pc \in {"shtab", "first"}
    BY <1>1
  <2>3. pc' \in {"first", "names", "relocate", "loaded"}
    BY <1>1
  <2> QED BY <1>1, <2>1, <2>2, <2>3, SameFile
          DEF ReaderInv, TablesInMemory, TablesSettled, Waiting
<1>6. TakenSoFar'
  <2>1. \A k \in Indices : Taken(k)' = Taken(k)
    BY <1>1, SameFile DEF Taken
  <2>2. CASE pc' = "relocate"
    BY <1>1, <1>2, <2>2 DEF TakenSoFar
  <2>3. CASE pc' = "loaded"
    <3>1. pc = "relocate"
      BY <1>1, <2>3
    <3>2. \A k \in Indices : Taken(k)
      BY <1>1, <3>1 DEF ReaderInv, TakenSoFar
    <3> QED BY <1>1, <2>1, <2>3, <3>2 DEF TakenSoFar
  <2>4. CASE pc' \notin {"relocate", "loaded"}
    BY <2>4 DEF TakenSoFar
  <2> QED BY <2>2, <2>3, <2>4
<1> QED BY <1>3, <1>4, <1>5, <1>6 DEF ReaderInv

(* A step of one of the passes over the sections, read or passed over.     *)
LEMMA PassKeepsInv ==
  ASSUME ReaderInv, FirstPass \/ SecondPass
  PROVE  ReaderInv'
<1> DEFINE tables == {obj.shstrndx, Named(".symtab"), Named(".strtab")}
<1>1. pc \in {"first", "second"} /\ i \in Indices /\ i < obj.shnum
  BY ObjectFacts DEF ReaderInv, TypeOK, FirstPass, SecondPass
<1>2. /\ obj' = obj /\ size' = size /\ good' \in BOOLEAN
      /\ (Skip /\ failure' = failure /\ stab' = stab /\ pc' = pc /\ i' = i + 1)
         \/ (Stopped /\ stab' = stab) \/ Advanced
      /\ failure' = "blind" =>
           failure = "blind" \/ (Deferred(i) /\ ~Found(".symtab"))
  <2>1. CASE Skip
    BY <2>1 DEF Skip, Continue, ReaderInv, TypeOK
  <2>2. CASE ReadSection
    BY <1>1, <2>2, ReadOne DEF ReaderInv, Stopped
  <2> QED BY <2>1, <2>2 DEF FirstPass, SecondPass
<1>3. \A k \in Indices : k # i => stab'[k] = stab[k]
  BY <1>2 DEF Advanced, BecomesOne, ReaderInv, TypeOK
<1>4. pc = "first" /\ Deferred(i) => stab' = stab
  BY <1>1 DEF FirstPass, SecondPass, Skip
<1>5. pc = "second" /\ ~Deferred(i) => stab' = stab
  BY <1>1 DEF FirstPass, SecondPass, Skip
<1>6. pc = "first" => ~Deferred(i) \/ Skip
  BY <1>1 DEF FirstPass, SecondPass
<1>7. TypeOK'
  <2>1. obj.shnum \in Nat /\ i' \in 0 .. obj.shnum
    BY <1>1, <1>2, ObjectFacts DEF ReaderInv, TypeOK, Stopped, Advanced
  <2>2. stab' \in [Indices -> {"unread", "loaded", "null", "refused"}]
    BY <1>2 DEF ReaderInv, TypeOK, Advanced, BecomesOne
  <2>3. pc' \in {pc, "aborted"}
    BY <1>2 DEF Stopped, Advanced
  <2> QED BY <1>2, <2>1, <2>2, <2>3 DEF ReaderInv, TypeOK
<1>8. ReadToTheEnd'
  BY <1>1, <1>2, <1>3, SameFile
     DEF ReaderInv, ReadToTheEnd, Advanced, BecomesOne, TypeOK
<1>9. pc' \in {pc, "aborted"}
  BY <1>2 DEF Stopped, Advanced
<1>10. tables \subseteq Indices
  BY ObjectFacts, NamedIndex DEF ReaderInv, TypeOK
<1>11. pc = "second" => \A k \in tables : stab'[k] = "loaded" /\ ~Deferred(k)
  BY <1>1, <1>3, <1>5, <1>10 DEF ReaderInv, TablesInMemory, TablesSettled
<1>12. TablesInMemory' /\ TablesSettled'
  BY <1>1, <1>2, <1>9, <1>11, SameFile DEF TablesInMemory, TablesSettled
<1>13. Waiting'
  BY <1>1, <1>2, <1>3, <1>4, <1>9, SameFile DEF ReaderInv, Waiting
<1>14. TakenSoFar'
  BY <1>1, <1>9 DEF TakenSoFar
<1>15. NeverBlind'
  <2>1. failure # "blind"
    BY DEF ReaderInv, NeverBlind
  <2>2. pc = "second" => Found(".symtab")
    BY DEF ReaderInv, TablesInMemory, Found
  <2>3. pc = "first" => ~Deferred(i) \/ failure' = failure
    BY <1>6 DEF Skip, Continue
  <2> QED BY <1>1, <1>2, <2>1, <2>2, <2>3 DEF NeverBlind
<1> QED BY <1>7, <1>8, <1>12, <1>13, <1>14, <1>15 DEF ReaderInv

(* Between the passes: the tables have been found, or the program stops.   *)
LEMMA NameMapsKeepInv ==
  ASSUME ReaderInv, BuildNameMaps
  PROVE  ReaderInv'
<1> DEFINE tables == {obj.shstrndx, Named(".symtab"), Named(".strtab")}
<1>1. /\ pc = "names" /\ obj' = obj /\ size' = size /\ stab' = stab /\ good' = good
      /\ failure' # "blind" /\ i' \in {i, 0} /\ pc' \in {"second", "aborted"}
  BY DEF BuildNameMaps, Abort, ReaderInv, NeverBlind
<1>2. TypeOK'
  BY <1>1, ObjectFacts DEF ReaderInv, TypeOK
<1>3. ReadToTheEnd' /\ NeverBlind' /\ Waiting' /\ TakenSoFar'
  BY <1>1, SameFile DEF ReaderInv, ReadToTheEnd, NeverBlind, Waiting, TakenSoFar
<1>4. pc' = "second" => \A k \in tables : stab[k] = "loaded"
  BY <1>1 DEF BuildNameMaps, Abort, Found
<1>5. \A k \in tables : stab[k] = "loaded" => ~Deferred(k)
  <2>1. tables \subseteq Indices
    BY ObjectFacts, NamedIndex DEF ReaderInv, TypeOK
  <2> QED BY <1>1, <2>1 DEF ReaderInv, Waiting
<1>6. TablesInMemory' /\ TablesSettled'
  BY <1>1, <1>4, <1>5, SameFile DEF TablesInMemory, TablesSettled
<1> QED BY <1>2, <1>3, <1>6 DEF ReaderInv

(* Relocation takes the sections one by one, and stops at a missing one.   *)
LEMMA TakeKeepsInv ==
  ASSUME ReaderInv, TakeSections
  PROVE  ReaderInv'
<1>1. /\ pc = "relocate" /\ i < obj.shnum
      /\ obj' = obj /\ size' = size /\ stab' = stab /\ good' = good
      /\ failure' # "blind"
      /\ \/ pc' = "relocate" /\ i' = i + 1 /\ Taken(i)
         \/ pc' = "aborted" /\ i' = i
  BY DEF TakeSections, Skip, Continue, Abort, ReaderInv, NeverBlind, Found, Taken
<1>2. TypeOK'
  BY <1>1, ObjectFacts DEF ReaderInv, TypeOK
<1>3. ReadToTheEnd' /\ NeverBlind' /\ Waiting'
  BY <1>1, SameFile DEF ReaderInv, ReadToTheEnd, NeverBlind, Waiting
<1>4. TablesInMemory' /\ TablesSettled'
  BY <1>1, SameFile DEF ReaderInv, TablesInMemory, TablesSettled
<1>5. TakenSoFar'
  <2>1. \A k \in 0 .. i - 1 : Taken(k)
    BY <1>1 DEF ReaderInv, TakenSoFar
  <2>2. \A k : Taken(k)' = Taken(k)
    BY <1>1, SameFile DEF Taken
  <2>3. i \in Nat
    BY ObjectFacts DEF ReaderInv, TypeOK
  <2>4. pc' = "relocate" => \A k \in 0 .. i' - 1 : Taken(k)
    BY <1>1, <2>1, <2>3
  <2>5. pc' # "loaded"
    BY <1>1
  <2> QED BY <2>2, <2>4, <2>5 DEF TakenSoFar
<1> QED BY <1>2, <1>3, <1>4, <1>5 DEF ReaderInv

(* A step that changes nothing keeps the invariant.                        *)
LEMMA ReaderStutter ==
  ASSUME ReaderInv, UNCHANGED vars
  PROVE  ReaderInv'
<1>1. /\ obj' = obj /\ size' = size /\ stab' = stab /\ good' = good
      /\ pc' = pc /\ i' = i /\ failure' = failure
  BY DEF vars
<1>2. \A k : Taken(k)' = Taken(k)
  BY <1>1, SameFile DEF Taken
<1> QED BY <1>1, <1>2, SameFile
        DEF ReaderInv, TypeOK, ReadToTheEnd, NeverBlind, TablesInMemory, Waiting,
            TablesSettled, TakenSoFar

-----------------------------------------------------------------------------
(* No section is used before it is in memory, nor kept half read: for      *)
(* every object and wherever its file ends (ELFObject::read).              *)
THEOREM ReaderInvariant == Spec => []ReaderInv
<1>1. ReaderInv /\ [Next]_vars => ReaderInv'
  <2> SUFFICES ASSUME ReaderInv, [Next]_vars PROVE ReaderInv'
    OBVIOUS
  <2>1. CASE ReadHeader \/ ReadSectionHeader
    BY <2>1, HeadersKeepInv
  <2>2. CASE \/ NextLoop("shtab", "first") \/ NextLoop("first", "names")
             \/ NextLoop("second", "relocate") \/ NextLoop("relocate", "loaded")
    BY <2>2, NextLoopKeepsInv
  <2>3. CASE FirstPass \/ SecondPass
    BY <2>3, PassKeepsInv
  <2>4. CASE BuildNameMaps
    BY <2>4, NameMapsKeepInv
  <2>5. CASE TakeSections
    BY <2>5, TakeKeepsInv
  <2>6. CASE UNCHANGED vars
    BY <2>6, ReaderStutter
  <2> QED BY <2>1, <2>2, <2>3, <2>4, <2>5, <2>6 DEF Next
<1> QED BY InitReaderInv, <1>1, PTL DEF Spec

(* None of the sections in memory is half filled                           *)
(* (ELFSectionSymTab.hxx:106-109 and its like).                            *)
THEOREM ReadToTheEndHolds == Spec => []ReadToTheEnd
<1>1. ReaderInv => ReadToTheEnd
  BY DEF ReaderInv
<1> QED BY ReaderInvariant, <1>1, PTL

(* The null symbol table is never used to count stubs                      *)
(* (ELFSectionProgBits.hxx:42-46).                                         *)
THEOREM NeverBlindHolds == Spec => []NeverBlind
<1>1. ReaderInv => NeverBlind
  BY DEF ReaderInv
<1> QED BY ReaderInvariant, <1>1, PTL

(* After read() the tables of names are in memory (ELFObject.hxx:63-67).   *)
THEOREM TablesInMemoryHolds == Spec => []TablesInMemory
<1>1. ReaderInv => TablesInMemory
  BY DEF ReaderInv
<1> QED BY ReaderInvariant, <1>1, PTL

(* What relocation has read and patched came from the file, where offsets  *)
(* are offsets (ELFObject.hxx:455-476).                                    *)
THEOREM PatchedFromFileHolds == Spec => []PatchedFromFile
<1>1. ReaderInv => PatchedFromFile
  <2> SUFFICES ASSUME ReaderInv, pc = "loaded", NEW k \in Indices, Sec(k).type = "REL"
               PROVE  \A m \in {k, Named(Sec(k).target)} : HasPlace(m) => InFile(m)
    BY DEF PatchedFromFile
  <2>1. Taken(k)
    BY DEF ReaderInv, TakenSoFar
  <2>2. Named(Sec(k).target) \in Indices
    BY NamedIndex DEF ReaderInv, TypeOK
  <2> QED BY <2>1, <2>2 DEF Taken, ReaderInv, ReadToTheEnd
<1> QED BY ReaderInvariant, <1>1, PTL

-----------------------------------------------------------------------------
(* A whole file.  Sections are loaded as far as the passes have come, and  *)
(* those they have not come to are untouched.                              *)
Loadable(k) == Sec(k).type \notin {"NULL", "OTHER"}
Passed(k) ==
  \/ pc = "first" /\ k < i /\ ~Deferred(k)
  \/ pc = "names" /\ ~Deferred(k)
  \/ pc = "second" /\ (k < i \/ ~Deferred(k))
  \/ pc \in {"relocate", "loaded"}
Untouched ==
  pc \in {"header", "shtab", "first", "names", "second"} =>
    \A k \in Indices : ~Passed(k) => stab[k] = "unread"
NoneRefused == \A k \in Indices : stab[k] # "refused"
Loading ==
  Whole /\ NoneRefused =>
    /\ good /\ pc \notin {"null", "aborted"}
    /\ \A k \in Indices : Passed(k) /\ Loadable(k) => stab[k] = "loaded"
LoadInv == TypeOK /\ Untouched /\ Loading

(* Whether the file is whole is settled when it is opened.                 *)
LEMMA SameWhole ==
  ASSUME obj' = obj, size' = size
  PROVE  Whole' = Whole /\ \A k : Loadable(k)' = Loadable(k)
<1>1. \A k : Loadable(k)' = Loadable(k)
  BY DEF Loadable
<1>2. \A off, n : Held(off, n)' = Held(off, n) /\ Misaligned(off)' = Misaligned(off)
  BY DEF Held, Misaligned
<1>3. \A name : Named(name)' = Named(name)
  BY SameFile
<1>4. Whole' = Whole
  BY <1>2, <1>3 DEF Whole, Held, Misaligned
<1> QED BY <1>1, <1>4

(* The words of a section header lie in the table.                         *)
LEMMA HeadersHeld ==
  ASSUME TypeOK, i < obj.shnum, Held(obj.shoff, obj.shnum * ShdrSize)
  PROVE  Held(HeaderOff(i), ShdrSize)
<1>1. obj.shnum \in Nat /\ i \in Nat /\ i + 1 <= obj.shnum /\ ShdrSize \in Nat
      /\ obj.shoff \in Nat /\ size \in Nat
  BY ObjectFacts, ReaderAssumption DEF TypeOK
<1>2. PICK n \in Nat, d \in Nat : n = i /\ obj.shnum = n + 1 + d
  <2>1. obj.shnum - (i + 1) \in Nat /\ obj.shnum = i + 1 + (obj.shnum - (i + 1))
    BY <1>1
  <2> QED BY <1>1, <2>1
<1>3. \A w \in Nat : (n + 1 + d) * w = n * w + w + d * w /\ d * w \in Nat /\ n * w \in Nat
  OBVIOUS
<1>4. PICK w \in Nat : w = ShdrSize
  BY <1>1
<1>5. PICK a \in Nat, b \in Nat : a = n * w /\ b = d * w
  BY <1>3
<1>6. obj.shoff + (a + w + b) <= size
  BY <1>2, <1>3, <1>4, <1>5 DEF Held
<1> QED BY <1>1, <1>2, <1>4, <1>5, <1>6 DEF HeaderOff, Held

(* What a section of a whole file becomes.                                 *)
LEMMA ReadWhole ==
  ASSUME TypeOK, i < obj.shnum, ReadSection, Whole, good, stab'[i] # "refused",
         Deferred(i) => Found(".symtab")
  PROVE  good' /\ pc' = pc /\ (Loadable(i) => stab'[i] = "loaded")
<1>1. i \in Indices /\ i \in DOMAIN stab /\ Sec(i).off \in Nat /\ Sec(i).size \in Nat
  BY ObjectFacts DEF TypeOK
<1>2. FromArchive(i) => Held(Sec(i).off, Sec(i).size)
  BY <1>1 DEF Whole, FromArchive
<1>3. Sec(i).type \in {"SYMTAB", "REL"} => ~Misaligned(Sec(i).off)
  BY <1>1 DEF Whole
<1>0. ASSUME FromArchive(i), ReadContents
      PROVE  good' /\ pc' = pc /\ stab'[i] = "loaded"
  <2>1. ~Stray(Sec(i).off, Sec(i).size)
    BY <1>0, <1>1, <1>2, HeldKeeps DEF Stray
  <2>2. good' \in GoodAfter(Sec(i).off, Sec(i).size) /\ Keep(good') /\ Continue
    BY <1>0, <2>1 DEF ReadContents
  <2>3. good'
    BY <1>0, <1>1, <1>2, <2>2, AfterRead
  <2> QED BY <1>1, <2>2, <2>3 DEF Keep, Continue
<1>4. CASE ReadStrTab
  BY <1>0, <1>4 DEF ReadStrTab, FromArchive
<1>5. CASE ReadSymTab \/ ReadRelTable
  <2>1. FromArchive(i) /\ ReadEntries
    BY <1>5 DEF ReadSymTab, ReadRelTable, FromArchive
  <2>2. /\ ~Stray(Sec(i).off, Sec(i).size)
        /\ Sec(i).size > 0 => ~Stray(Sec(i).off, 1)
    <3>1. Sec(i).size > 0 => Held(Sec(i).off, 1)
      BY <1>1, <1>2, <2>1, ReaderAssumption DEF Held, TypeOK
    <3> QED BY <1>1, <1>2, <2>1, <3>1, HeldKeeps DEF Stray
  <2>3. /\ good' \in IF good /\ Sec(i).size > 0
                    THEN GoodAfter(Sec(i).off, Sec(i).size) ELSE {good}
        /\ Keep(good') /\ Continue
    BY <1>3, <1>5, <2>1, <2>2 DEF ReadSymTab, ReadRelTable, ReadEntries
  <2>4. good'
    <3>1. CASE Sec(i).size > 0
      BY <1>1, <1>2, <2>1, <2>3, <3>1, AfterRead
    <3>2. CASE ~(Sec(i).size > 0)
      BY <2>3, <3>2
    <3> QED BY <3>1, <3>2
  <2> QED BY <1>1, <2>3, <2>4 DEF Keep, Continue
<1>6. CASE ReadNoBits
  BY <1>1, <1>6 DEF ReadNoBits, NoMemory, Keep, Continue
<1>7. CASE ReadProgBits
  <2>1. stab' # [stab EXCEPT ![i] = "refused"]
    BY <1>1
  <2>2. FromArchive(i) /\ ReadContents
    BY <1>7, <2>1 DEF ReadProgBits, NoMemory, Deferred, FromArchive
  <2> QED BY <1>0, <2>2
<1>8. CASE ReadUnknown
  BY <1>8 DEF ReadUnknown, Continue, Loadable
<1> QED BY <1>4, <1>5, <1>6, <1>7, <1>8 DEF ReadSection

(* The headers of a whole file are found.                                  *)
LEMMA HeadersLoad ==
  ASSUME LoadInv, TypeOK', ReadHeader \/ ReadSectionHeader
  PROVE  LoadInv'
<1>1. obj' = obj /\ size' = size /\ stab' = stab
      /\ pc \in {"header", "shtab"} /\ pc' \in {"shtab", "null", "aborted"}
  BY DEF ReadHeader, ReadSectionHeader, Abort, Stray
<1>2. Untouched'
  BY <1>1 DEF LoadInv, Untouched, Passed
<1>3. ASSUME Whole PROVE good' /\ pc' = "shtab"
  <2>0. TypeOK
    BY DEF LoadInv
  <2>1. CASE ReadHeader
    <3>1. Held(0, HeaderSize) /\ HeaderSize \in Nat
      BY <1>3, ReaderAssumption DEF Whole
    <3>2. Fits(0, HeaderSize)
      BY <2>0, <3>1, HeldKeeps
    <3> QED BY <1>3, <2>1, <3>2 DEF ReadHeader, Whole
  <2>2. CASE ReadSectionHeader
    <3>1. i < obj.shnum /\ ~Misaligned(obj.shoff) /\ Held(HeaderOff(i), ShdrSize)
      BY <1>3, <2>0, <2>2, HeadersHeld DEF ReadSectionHeader, Whole
    <3>2. ~Stray(HeaderOff(i), ShdrSize)
      BY <2>0, <3>1, HeaderOffNat, HeldKeeps DEF Stray
    <3>3. /\ good' \in GoodAfter(HeaderOff(i), ShdrSize)
          /\ pc' = IF good' THEN pc ELSE "null"
      BY <2>2, <3>1, <3>2 DEF ReadSectionHeader
    <3>4. good
      <4>1. NoneRefused => good
        BY <1>3 DEF LoadInv, Loading
      <4>2. NoneRefused
        BY <2>2 DEF ReadSectionHeader, LoadInv, Untouched, Passed, NoneRefused
      <4> QED BY <4>1, <4>2
    <3>5. good'
      BY <2>0, <3>1, <3>3, <3>4, HeaderOffNat, AfterRead
    <3> QED BY <2>2, <3>3, <3>5 DEF ReadSectionHeader
  <2> QED BY <2>1, <2>2
<1>4. Loading'
  BY <1>1, <1>3, SameWhole DEF Loading, Passed
<1> QED BY <1>2, <1>4 DEF LoadInv

(* At the end of a loop all its sections have been passed.                 *)
LEMMA NextLoopLoads ==
  ASSUME LoadInv, TypeOK', NEW from, NEW to, NextLoop(from, to),
         <<from, to>> \in {<<"shtab", "first">>, <<"first", "names">>,
                          <<"second", "relocate">>, <<"relocate", "loaded">>}
  PROVE  LoadInv'
<1>1. /\ obj' = obj /\ size' = size /\ stab' = stab /\ good' = good
      /\ i' = 0 /\ i = obj.shnum /\ pc = from /\ pc' = to
  BY DEF NextLoop
<1>2. obj.shnum \in Nat
  BY ObjectFacts DEF LoadInv, TypeOK
<1>3. \A k \in Indices : Passed(k)' <=> Passed(k)
  <2> SUFFICES ASSUME NEW k \in Indices PROVE Passed(k)' <=> Passed(k)
    BY <1>1
  <2>1. k < i /\ k >= 0 /\ ~(k < i')
    BY <1>1, <1>2
  <2>2. Deferred(k)' = Deferred(k)
    BY <1>1, SameFile
  <2> QED BY <1>1, <2>1, <2>2 DEF Passed
<1>4. Untouched'
  BY <1>1, <1>3 DEF LoadInv, Untouched
<1>5. NoneRefused' = NoneRefused
  BY <1>1 DEF NoneRefused
<1>6. Loading'
  BY <1>1, <1>3, <1>5, SameWhole DEF LoadInv, Loading
<1> QED BY <1>4, <1>6 DEF LoadInv

(* The passes load one section more.                                       *)
LEMMA PassLoads ==
  ASSUME LoadInv, ReaderInv, TypeOK', FirstPass \/ SecondPass
  PROVE  LoadInv'
<1>1. /\ pc \in {"first", "second"} /\ i \in Indices /\ i < obj.shnum
      /\ i \in DOMAIN stab /\ obj.shnum \in Nat
  BY ObjectFacts DEF LoadInv, TypeOK, FirstPass, SecondPass
<1>2. /\ obj' = obj /\ size' = size
      /\ \/ Skip
         \/ Stopped
         \/ Advanced
  <2>1. CASE Skip
    BY <2>1 DEF Skip
  <2>2. CASE ReadSection
    BY <1>1, <2>2, ReadOne DEF LoadInv
  <2> QED BY <2>1, <2>2 DEF FirstPass, SecondPass
<1>3. /\ \A k \in Indices : k # i => stab'[k] = stab[k]
      /\ pc' # "aborted" => pc' = pc /\ i' = i + 1
      /\ pc' \in {pc, "aborted"}
  BY <1>1, <1>2 DEF Skip, Continue, Stopped, Advanced, BecomesOne, LoadInv, TypeOK
<1>4. pc' # "aborted" => \A k \in Indices : k # i => (Passed(k)' <=> Passed(k))
  <2> SUFFICES ASSUME pc' # "aborted", NEW k \in Indices, k # i
               PROVE  Passed(k)' <=> Passed(k)
    OBVIOUS
  <2>1. k < i' <=> k < i
    BY <1>1, <1>3
  <2>2. Deferred(k)' = Deferred(k)
    BY <1>2, SameFile
  <2> QED BY <1>3, <2>1, <2>2 DEF Passed
<1>5. \A k \in Indices :
        k = i /\ pc' # "aborted" /\ ~Passed(k)' => stab'[k] = stab[k] /\ ~Passed(k)
  <2> SUFFICES ASSUME NEW k \in Indices, k = i, pc' # "aborted", ~Passed(k)'
               PROVE  stab'[k] = stab[k] /\ ~Passed(k)
    OBVIOUS
  <2>1. k < i'
    BY <1>1, <1>3
  <2>2. Deferred(k)' = Deferred(k)
    BY <1>2, SameFile
  <2>3. pc = "first" /\ Deferred(k)
    BY <1>1, <1>3, <2>1, <2>2 DEF Passed
  <2> QED BY <2>3 DEF FirstPass, SecondPass, Skip, Passed
<1>6. Untouched'
  <2>1. CASE pc' = "aborted"
    BY <2>1 DEF Untouched
  <2>2. CASE pc' # "aborted"
    BY <1>1, <1>2, <1>3, <1>4, <1>5, <2>2 DEF LoadInv, Untouched
  <2> QED BY <2>1, <2>2
<1>7. Loading'
  <2> SUFFICES ASSUME Whole, NoneRefused'
               PROVE  /\ good' /\ pc' \notin {"null", "aborted"}
                      /\ \A k \in Indices : Passed(k)' /\ Loadable(k) => stab'[k] = "loaded"
    BY <1>2, SameWhole DEF Loading
  <2>1. stab'[i] # "refused"
    BY <1>1, <1>2 DEF NoneRefused
  <2>2. stab[i] # "refused"
    <3>1. CASE Passed(i)
      <4>1. pc = "second" /\ ~Deferred(i)
        BY <1>1, <3>1 DEF Passed
      <4> QED BY <2>1, <4>1 DEF FirstPass, SecondPass, Skip
    <3>2. CASE ~Passed(i)
      BY <1>1, <3>2 DEF LoadInv, Untouched
    <3> QED BY <3>1, <3>2
  <2>3. NoneRefused
    BY <1>2, <1>3, <2>2 DEF NoneRefused
  <2>4. good /\ \A k \in Indices : Passed(k) /\ Loadable(k) => stab[k] = "loaded"
    BY <2>3 DEF LoadInv, Loading
  <2>5. CASE (pc = "first" /\ Deferred(i)) \/ (pc = "second" /\ ~Deferred(i))
    <3>1. good' = good /\ pc' = pc /\ stab' = stab
      BY <2>5 DEF FirstPass, SecondPass, Skip, Continue
    <3>2. \A k \in Indices : k = i /\ Passed(k)' => Passed(k)
      BY <1>2, <2>5, <3>1, SameFile DEF Passed
    <3> QED BY <1>1, <1>4, <2>4, <3>1, <3>2
  <2>6. CASE (pc = "first" /\ ~Deferred(i)) \/ (pc = "second" /\ Deferred(i))
    <3>1. ReadSection
      BY <2>6 DEF FirstPass, SecondPass
    <3>2. Deferred(i) => Found(".symtab")
      BY <2>6 DEF ReaderInv, TablesInMemory, Found
    <3>3. good' /\ pc' = pc /\ (Loadable(i) => stab'[i] = "loaded")
      BY <1>1, <2>1, <2>4, <3>1, <3>2, ReadWhole DEF LoadInv
    <3> QED BY <1>1, <1>3, <1>4, <2>4, <3>3
  <2> QED BY <1>1, <2>5, <2>6
<1> QED BY <1>6, <1>7 DEF LoadInv

(* The tables of a whole file are there between the passes.                *)
LEMMA NameMapsLoad ==
  ASSUME LoadInv, TypeOK', BuildNameMaps
  PROVE  LoadInv'
<1>1. /\ pc = "names" /\ obj' = obj /\ size' = size /\ stab' = stab /\ good' = good
      /\ pc' \in {"second", "aborted"} /\ (pc' = "second" => i' = 0)
  BY DEF BuildNameMaps, Abort
<1>2. pc' = "second" => \A k \in Indices : Passed(k)' <=> Passed(k)
  <2> SUFFICES ASSUME pc' = "second", NEW k \in Indices PROVE Passed(k)' <=> Passed(k)
    OBVIOUS
  <2>1. ~(k < i')
    BY <1>1, ObjectFacts DEF LoadInv, TypeOK
  <2> QED BY <1>1, <2>1, SameFile DEF Passed
<1>3. Untouched'
  BY <1>1, <1>2 DEF LoadInv, Untouched
<1>4. Loading'
  <2> SUFFICES ASSUME Whole, NoneRefused'
               PROVE  /\ good' /\ pc' \notin {"null", "aborted"}
                      /\ \A k \in Indices : Passed(k)' /\ Loadable(k) => stab'[k] = "loaded"
    BY <1>1, SameWhole DEF Loading
  <2>1. good /\ \A k \in Indices : Passed(k) /\ Loadable(k) => stab[k] = "loaded"
    BY <1>1 DEF LoadInv, Loading, NoneRefused
  <2>2. \A k \in {obj.shstrndx, Named(".symtab"), Named(".strtab")} :
          k \in Indices /\ Sec(k).type \in {"STRTAB", "SYMTAB"}
    BY ObjectFacts, NamedIndex DEF LoadInv, TypeOK, Whole
  <2>3. \A k \in {obj.shstrndx, Named(".symtab"), Named(".strtab")} : stab[k] = "loaded"
    BY <1>1, <2>1, <2>2 DEF Passed, Loadable, Deferred
  <2>4. pc' = "second"
    BY <1>1, <2>3 DEF BuildNameMaps, Found
  <2> QED BY <1>1, <1>2, <2>1, <2>4
<1> QED BY <1>3, <1>4 DEF LoadInv

(* Relocation finds the sections of a whole file.                          *)
LEMMA TakeLoads ==
  ASSUME LoadInv, TypeOK', TakeSections
  PROVE  LoadInv'
<1>1. /\ pc = "relocate" /\ obj' = obj /\ size' = size /\ stab' = stab /\ good' = good
      /\ pc' \in {"relocate", "aborted"} /\ i \in Indices
  BY ObjectFacts DEF TakeSections, Skip, Continue, Abort, LoadInv, TypeOK
<1>2. Untouched'
  BY <1>1 DEF Untouched
<1>3. Loading'
  <2> SUFFICES ASSUME Whole, NoneRefused'
               PROVE  /\ good' /\ pc' = "relocate"
                      /\ \A k \in Indices : Loadable(k) => stab'[k] = "loaded"
    BY <1>1, SameWhole DEF Loading
  <2>1. good /\ \A k \in Indices : Loadable(k) => stab[k] = "loaded"
    BY <1>1 DEF LoadInv, Loading, NoneRefused, Passed
  <2>2. Sec(i).type = "REL" => stab[i] = "loaded" /\ Found(Sec(i).target)
    <3> SUFFICES ASSUME Sec(i).type = "REL"
                 PROVE  stab[i] = "loaded" /\ Found(Sec(i).target)
      OBVIOUS
    <3>1. Named(Sec(i).target) \in Indices
      BY NamedIndex DEF LoadInv, TypeOK
    <3>2. Sec(Named(Sec(i).target)).type = "PROGBITS"
      BY <1>1 DEF Whole
    <3> QED BY <1>1, <2>1, <3>1, <3>2 DEF Found, Loadable
  <2>3. pc' = "relocate"
    BY <1>1, <2>2 DEF TakeSections, Skip, Continue
  <2> QED BY <1>1, <2>1, <2>3
<1> QED BY <1>2, <1>3 DEF LoadInv

(* The passes go through the sections once, and load a whole file.         *)
THEOREM LoadInvariant == Spec => []LoadInv
<1>1. Init => LoadInv
  <2> SUFFICES ASSUME Init PROVE LoadInv
    OBVIOUS
  <2>1. TypeOK /\ pc = "header" /\ good /\ \A k \in Indices : stab[k] = "unread"
    BY InitReaderInv DEF Init, ReaderInv
  <2> QED BY <2>1 DEF LoadInv, Untouched, Loading, Passed
<1>2. ReaderInv /\ ReaderInv' /\ LoadInv /\ [Next]_vars => LoadInv'
  <2> SUFFICES ASSUME ReaderInv, ReaderInv', LoadInv, [Next]_vars PROVE LoadInv'
    OBVIOUS
  <2> TypeOK'
    BY DEF ReaderInv
  <2>1. CASE ReadHeader \/ ReadSectionHeader
    BY <2>1, HeadersLoad
  <2>2. CASE \/ NextLoop("shtab", "first") \/ NextLoop("first", "names")
             \/ NextLoop("second", "relocate") \/ NextLoop("relocate", "loaded")
    BY <2>2, NextLoopLoads
  <2>3. CASE FirstPass \/ SecondPass
    BY <2>3, PassLoads
  <2>4. CASE BuildNameMaps
    BY <2>4, NameMapsLoad
  <2>5. CASE TakeSections
    BY <2>5, TakeLoads
  <2>6. CASE UNCHANGED vars
    <3>1. /\ obj' = obj /\ size' = size /\ stab' = stab /\ good' = good
          /\ pc' = pc /\ i' = i
      BY <2>6 DEF vars
    <3>2. \A k \in Indices : Passed(k)' <=> Passed(k)
      BY <3>1, SameFile DEF Passed
    <3> QED BY <3>1, <3>2, SameWhole DEF LoadInv, Untouched, Loading, NoneRefused
  <2> QED BY <2>1, <2>2, <2>3, <2>4, <2>5, <2>6 DEF Next
<1> QED BY ReaderInvariant, <1>1, <1>2, PTL DEF Spec

(* A complete and aligned file is never refused, wherever it ends, unless  *)
(* mmap refuses memory (serialize.h:94-100, ELFObject.hxx:34-77).          *)
THEOREM WholeFileLoadsHolds == Spec => []WholeFileLoads
<1>1. LoadInv => WholeFileLoads
  BY DEF LoadInv, Loading, NoneRefused, WholeFileLoads, Passed, Loadable
<1> QED BY LoadInvariant, <1>1, PTL

-----------------------------------------------------------------------------
(* A section that has been given up for the archive's sake leaves the      *)
(* archive bad.                                                            *)
GivenUp(m) == FromArchive(m) /\ stab[m] = "null"
CutInv == (\A m \in Indices : GivenUp(m) => ~good) /\ NothingAfterACut

(* A step that reads no section changes nothing of this.                   *)
LEMMA CutStays ==
  ASSUME CutInv, obj' = obj, stab' = stab, good' \in {good, FALSE}
  PROVE  CutInv'
<1>1. \A m, k : Before(m, k)' = Before(m, k) /\ FromArchive(k)' = FromArchive(k)
  BY DEF Before, Deferred, FromArchive
<1>2. NothingAfterACut'
  BY <1>1 DEF CutInv, NothingAfterACut
<1>3. \A m \in Indices : GivenUp(m)' => ~good'
  BY <1>1 DEF CutInv, GivenUp
<1> QED BY <1>2, <1>3 DEF CutInv

(* Nor does one that reads a section: nothing that comes behind it has     *)
(* been touched, and nothing is kept once the archive is bad.              *)
LEMMA CutPass ==
  ASSUME TypeOK, LoadInv, CutInv, FirstPass \/ SecondPass, ReadSection
  PROVE  CutInv'
<1>1. /\ pc \in {"first", "second"} /\ i \in Indices /\ i < obj.shnum
      /\ i \in DOMAIN stab /\ obj.shnum \in Nat
  BY ObjectFacts DEF TypeOK, FirstPass, SecondPass
<1>2. obj' = obj /\ (Stopped \/ Advanced)
  BY <1>1, ReadOne
<1>3. CASE Stopped
  BY <1>2, <1>3, CutStays DEF Stopped
<1>4. CASE Advanced
  <2>1. PICK v : BecomesOne(v)
    BY <1>4 DEF Advanced
  <2>2. /\ stab'[i] = v /\ \A k \in Indices : k # i => stab'[k] = stab[k]
        /\ FromArchive(i) => (v = "loaded" => good') /\ (v = "null" => ~good')
        /\ good' => good
    BY <1>1, <1>4, <2>1 DEF BecomesOne, Advanced, TypeOK
  <2>3. \A m, k : Before(m, k)' = Before(m, k) /\ FromArchive(k)' = FromArchive(k)
    BY <1>2 DEF Before, Deferred, FromArchive
  <2>4. \A m \in Indices : GivenUp(m)' => ~good'
    BY <2>2, <2>3 DEF CutInv, GivenUp
  <2>5. \/ pc = "first" /\ ~Deferred(i)
        \/ pc = "second" /\ Deferred(i)
        \/ UNCHANGED stab
    BY <1>1 DEF FirstPass, SecondPass, Skip
  <2>6. ASSUME NEW m \in Indices, NEW k \in Indices, FromArchive(m), FromArchive(k),
               Before(m, k), stab'[m] = "null"
        PROVE  stab'[k] # "loaded"
    <3>1. CASE m = i /\ stab' # stab
      <4>1. ~Passed(k) /\ k # i
        BY <1>1, <2>5, <2>6, <3>1 DEF Passed, Before
      <4>2. stab[k] = "unread"
        BY <1>1, <4>1 DEF LoadInv, Untouched
      <4> QED BY <2>2, <4>1, <4>2
    <3>2. CASE m # i /\ k = i
      <4>1. ~good
        BY <2>2, <2>6, <3>2 DEF CutInv, GivenUp
      <4> QED BY <2>2, <2>6, <3>2, <4>1
    <3>3. CASE (m # i /\ k # i) \/ stab' = stab
      BY <2>2, <2>6, <3>3 DEF CutInv, NothingAfterACut
    <3> QED BY <3>1, <3>2, <3>3
  <2>7. NothingAfterACut'
    BY <1>2, <2>3, <2>6 DEF NothingAfterACut
  <2> QED BY <1>2, <2>4, <2>7 DEF CutInv
<1> QED BY <1>2, <1>3, <1>4

(* Behind a section that the archive has given up nothing is read any      *)
(* more, for every object, offset and cut (serialize.h:94-100).            *)
THEOREM NothingAfterACutHolds == Spec => []NothingAfterACut
<1>1. Init => CutInv
  BY DEF Init, CutInv, GivenUp, NothingAfterACut
<1>2. LoadInv /\ CutInv /\ [Next]_vars => CutInv'
  <2> SUFFICES ASSUME LoadInv, CutInv, [Next]_vars PROVE CutInv'
    OBVIOUS
  <2> TypeOK
    BY DEF LoadInv
  <2>1. CASE (FirstPass \/ SecondPass) /\ ReadSection
    BY <2>1, CutPass
  <2>2. CASE ReadHeader \/ ReadSectionHeader
    <3>1. obj' = obj /\ stab' = stab
      BY <2>2 DEF ReadHeader, ReadSectionHeader
    <3>2. pc \in {"header", "shtab"}
      BY <2>2 DEF ReadHeader, ReadSectionHeader
    <3>3. \A k \in Indices : stab[k] = "unread"
      BY <3>2 DEF LoadInv, Untouched, Passed
    <3>4. \A m : FromArchive(m)' = FromArchive(m)
      BY <3>1 DEF FromArchive
    <3> QED BY <3>1, <3>3, <3>4 DEF CutInv, GivenUp, NothingAfterACut
  <2>3. CASE Skip \/ BuildNameMaps \/ TakeSections \/ UNCHANGED vars
             \/ \E from, to : NextLoop(from, to)
    <3>1. obj' = obj /\ stab' = stab /\ good' = good
      BY <2>3 DEF Skip, BuildNameMaps, TakeSections, NextLoop, vars
    <3> QED BY <3>1, CutStays
  <2>4. CASE \/ NextLoop("shtab", "first") \/ NextLoop("first", "names")
             \/ NextLoop("second", "relocate") \/ NextLoop("relocate", "loaded")
    BY <2>3, <2>4
  <2> QED BY <2>1, <2>2, <2>3, <2>4 DEF Next, FirstPass, SecondPass
<1>3. CutInv => NothingAfterACut
  BY DEF CutInv
<1> QED BY LoadInvariant, <1>1, <1>2, <1>3, PTL DEF Spec

-----------------------------------------------------------------------------
(* What the reader has yet to do at most: the loops that are ahead of it,  *)
(* each over all sections, and the rest of the present one.                *)
LoopsAhead ==
  CASE pc = "header"   -> 6 * (obj.shnum + 1)
    [] pc = "shtab"    -> 5 * (obj.shnum + 1)
    [] pc = "first"    -> 4 * (obj.shnum + 1)
    [] pc = "names"    -> 3 * (obj.shnum + 1)
    [] pc = "second"   -> 2 * (obj.shnum + 1)
    [] pc = "relocate" -> obj.shnum + 1
    [] OTHER           -> 0
Effort == LoopsAhead + (obj.shnum - i)

LEMMA EffortBound ==
  ASSUME ReaderInv
  PROVE  Effort \in 0 .. 7 * (obj.shnum + 1) /\ LoopsAhead \in Nat
<1>1. obj.shnum \in Nat /\ i \in 0 .. obj.shnum
  BY ObjectFacts DEF ReaderInv, TypeOK
<1>2. LoopsAhead \in 0 .. 6 * (obj.shnum + 1)
  BY <1>1 DEF LoopsAhead
<1> QED BY <1>1, <1>2 DEF Effort

(* Every step of the reader lowers it, or the reader would go round.       *)
LEMMA StepLowersEffort ==
  ASSUME ReaderInv, ReaderInv', Next
  PROVE  Effort' < Effort
<1>1. /\ obj.shnum \in Nat /\ i \in 0 .. obj.shnum /\ i' \in 0 .. obj'.shnum
      /\ LoopsAhead \in Nat
  BY ObjectFacts, EffortBound DEF ReaderInv, TypeOK
<1>2. ASSUME obj' = obj, pc' = pc, i' = i + 1 PROVE Effort' < Effort
  BY <1>1, <1>2 DEF Effort, LoopsAhead
<1>3. ASSUME obj' = obj, i' = i, pc' \in {"null", "aborted"},
             pc \in {"header", "shtab", "first", "names", "second", "relocate"}
      PROVE  Effort' < Effort
  BY <1>1, <1>3 DEF Effort, LoopsAhead
<1>4. CASE ReadHeader
  BY <1>1, <1>3, <1>4 DEF ReadHeader, Effort, LoopsAhead
<1>5. CASE ReadSectionHeader
  BY <1>2, <1>3, <1>5 DEF ReadSectionHeader, Abort, Stray
<1>6. CASE NextLoop("shtab", "first") \/ NextLoop("first", "names")
             \/ NextLoop("second", "relocate") \/ NextLoop("relocate", "loaded")
  BY <1>1, <1>6 DEF NextLoop, Effort, LoopsAhead
<1>7. CASE FirstPass \/ SecondPass
  <2>1. pc \in {"first", "second"} /\ i < obj.shnum
    BY <1>7 DEF FirstPass, SecondPass
  <2>2. CASE Skip
    BY <1>2, <2>2 DEF Skip, Continue
  <2>3. CASE ReadSection
    <3>1. obj' = obj /\ (Stopped \/ Advanced)
      BY <2>1, <2>3, ReadOne DEF ReaderInv
    <3> QED BY <1>2, <1>3, <2>1, <3>1 DEF Stopped, Advanced
  <2> QED BY <1>7, <2>2, <2>3 DEF FirstPass, SecondPass
<1>8. CASE BuildNameMaps
  <2>1. pc = "names" /\ obj' = obj
    BY <1>8 DEF BuildNameMaps
  <2>2. CASE pc' = "second" /\ i' = 0
    BY <1>1, <2>1, <2>2 DEF Effort, LoopsAhead
  <2>3. CASE pc' = "aborted" /\ i' = i
    BY <1>3, <2>1, <2>3
  <2> QED BY <1>8, <2>2, <2>3 DEF BuildNameMaps, Abort
<1>9. CASE TakeSections
  BY <1>2, <1>3, <1>9 DEF TakeSections, Skip, Continue, Abort
<1> QED BY <1>4, <1>5, <1>6, <1>7, <1>8, <1>9 DEF Next

(* No file keeps the reader busy for ever: it ends within seven rounds of  *)
(* the sections, as many as the file says, for every object and every cut  *)
(* (ELFObject.hxx:49-75 and 455-476, ELFSectionHeaderTable.hxx:55).        *)
THEOREM ReaderProgress ==
  Spec => [](Effort \in 0 .. 7 * (obj.shnum + 1)) /\ [][Effort' < Effort]_vars
<1>1. ReaderInv /\ ReaderInv' /\ [Next]_vars => [Effort' < Effort]_vars
  BY StepLowersEffort
<1>2. ReaderInv => Effort \in 0 .. 7 * (obj.shnum + 1)
  BY EffortBound
<1> QED BY <1>1, <1>2, ReaderInvariant, PTL DEF Spec
===============================================================================
