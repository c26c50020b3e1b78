----------------------------- MODULE ObjectReader -----------------------------
(***************************************************************************)
(* Reading an object file: ELFObject::read (include/impl/ELFObject.hxx)    *)
(* over an ArchiveReader (utils/serialize.h), as rsloaderCreateExec drives *)
(* it, up to the point where relocate() takes the sections.                *)
(*                                                                         *)
(* The archive remembers the first read that ended behind the file, and    *)
(* refuses all later ones.  It tests nothing else: offsets become pointers *)
(* as in Archive, and one that leads out of the address space and back to  *)
(* before the file is followed there.  What is found before the file is    *)
(* read, or the access ends the process.                                   *)
(*                                                                         *)
(* The sections are read in two passes: what is not SHT_PROGBITS first,    *)
(* since a PROGBITS section of an ARM build is given room for as many      *)
(* stubs as the symbol table has external functions.                       *)
(*                                                                         *)
(* A file is an object cut off at some size.  Contents are left out: what  *)
(* matters of a section is its type, its name, where it lies in the file   *)
(* and, of a relocation section, the name of the section it patches.       *)
(* Header magic and entry sizes are those of the ABI (valid), or not;      *)
(* tables hold whole entries, the symbol table at least its null entry.    *)
(* There is a section 0, and the section of the names is one of the        *)
(* sections, as the ABI has it: the code does not look (e_shnum and        *)
(* e_shstrndx), and what it does without them is left out.                 *)
(***************************************************************************)
EXTENDS Integers, FiniteSets

CONSTANTS
  Objects,     \* the objects a file may be cut from
  FileSizes,   \* where it may be cut
  HeaderSize,  \* size of the ELF header
  ShdrSize,    \* size of an entry of the section header table
  WordAlign,   \* alignment of the words of headers and tables
  Buf,         \* where the file is in memory
  AddrMod,     \* addresses the processor has
  HasStubs     \* built for ARM

(* No file ends in the last page of the address space, where there is room *)
(* for two of the largest structure.                                       *)
Margin == 2 * HeaderSize

ShTypes == {"NULL", "STRTAB", "SYMTAB", "PROGBITS", "NOBITS", "REL", "OTHER"}

ASSUME ReaderAssumption ==
  /\ \A o \in Objects :
       /\ o.valid \in BOOLEAN /\ o.shoff \in Nat
       /\ o.shnum \in Nat \ {0} /\ o.shstrndx \in 0 .. o.shnum - 1
       /\ o.externs \in Nat
       /\ DOMAIN o.secs = 0 .. o.shnum - 1
       /\ \A k \in 0 .. o.shnum - 1 :
            /\ o.secs[k].type \in ShTypes
            /\ o.secs[k].off \in Nat /\ o.secs[k].size \in Nat
       /\ o.secs[0].type = "NULL"
  /\ FileSizes \subseteq Nat
  /\ HeaderSize \in Nat \ {0} /\ ShdrSize \in 0 .. HeaderSize
  /\ WordAlign \in Nat \ {0}
  /\ Buf \in Nat \ {0} /\ AddrMod \in Nat \ {0} /\ AddrMod % WordAlign = 0
  /\ \A n \in FileSizes : Buf + n + Margin <= AddrMod
  /\ HasStubs \in BOOLEAN

VARIABLES
  obj,       \* the object, fixed
  size,      \* bytes of it that are in the file, fixed
  pc,        \* "header", "shtab", "first", "names", "second", "relocate",
             \* then "loaded", "null" (read has returned 0) or "aborted"
  failure,   \* what aborted the program
  i,         \* index of the current loop
  good,      \* ArchiveReader::good
  stab       \* the sections: "unread"; "loaded"; "null", or "refused" for the
             \* NULL that is left when mmap gives no memory

vars == <<obj, size, pc, failure, i, good, stab>>

Indices == 0 .. obj.shnum - 1
Sec(k)  == obj.secs[k]

Abort(why) == pc' = "aborted" /\ failure' = why

(* A pointer p bytes from the start of the buffer, by its place from there *)
(* (seek, with an off_t): it comes back from the end of the address space  *)
(* to its start, which is before the buffer.                               *)
Position(p) == ((Buf + p) % AddrMod) - Buf

(* readBytes of n bytes at off does not end behind the buffer; and a test  *)
(* that is off by one (for the sensitivity runs).                          *)
FitsStrictly(off, n) == Position(off + n) < size
Fits(off, n) == Position(off + n) <= size

(* No pointer of the read is null, nor passes the end of the address       *)
(* space.  Where one does, the tests and the assertions of epilogue() may  *)
(* come out either way; Archive follows them.                              *)
Straight(off, n) ==
  Position(off) # -Buf /\ Buf + Position(off) + n + Margin <= AddrMod
Tests(off, n) == IF Straight(off, n) THEN {Fits(off, n)} ELSE BOOLEAN

(* ArchiveReader::good behind a read; and an archive that forgets the      *)
(* first bad one (for the sensitivity runs).                               *)
GoodByTheLast(off, n) == Tests(off, n)
GoodAfter(off, n) == {good /\ ok : ok \in Tests(off, n)}

(* A read that passes the test before the file.                            *)
MayStray(off, n) ==
  ~Straight(off, n) \/ (good /\ n > 0 /\ Fits(off, n) /\ Position(off) < 0)
Stray(off, n) == MayStray(off, n) /\ Abort("stray")

(* A structure that starts at off: seekAlignment moves its first word, so  *)
(* that it ends behind the size epilogue() asserts.                        *)
Misaligned(off) == off % WordAlign # 0

-----------------------------------------------------------------------------
Init ==
  /\ obj \in Objects /\ size \in FileSizes
  /\ pc = "header" /\ failure = "none" /\ i = 0
  /\ good = TRUE
  /\ stab = [k \in Indices |-> "unread"]

(* ELFHeader::read, at offset 0. *)
ReadHeader ==
  /\ pc = "header"
  /\ good' = Fits(0, HeaderSize)
  /\ pc' = IF good' /\ obj.valid THEN "shtab" ELSE "null"
  /\ UNCHANGED <<obj, size, failure, i, stab>>

(* ELFSectionHeaderTable::read, one entry.                                 *)
HeaderOff(k) == obj.shoff + k * ShdrSize
ReadSectionHeader ==
  /\ pc = "shtab" /\ i < obj.shnum
  /\ \/ /\ \/ Misaligned(obj.shoff) /\ Abort("unaligned")
           \/ Stray(HeaderOff(i), ShdrSize)
        /\ UNCHANGED <<i, good>>
     \/ /\ ~(Misaligned(obj.shoff) /\ Straight(HeaderOff(i), ShdrSize))
        /\ good' \in GoodAfter(HeaderOff(i), ShdrSize)
        /\ i' = IF good' THEN i + 1 ELSE i
        /\ pc' = IF good' THEN pc ELSE "null"
        /\ UNCHANGED failure
  /\ UNCHANGED <<obj, size, stab>>

(* A loop over the sections is done.                                       *)
NextLoop(from, to) ==
  /\ pc = from /\ i = obj.shnum
  /\ pc' = to /\ i' = 0
  /\ UNCHANGED <<obj, size, failure, good, stab>>

-----------------------------------------------------------------------------
(* What is pushed for section i when the archive has, or has not, remained *)
(* good; and a reader that does not look (for the sensitivity runs).       *)
KeepAlways(ok) == stab' = [stab EXCEPT ![i] = "loaded"]
Keep(ok) == stab' = [stab EXCEPT ![i] = IF ok THEN "loaded" ELSE "null"]

(* On to the next section; and a loop that forgets to (for the sensitivity *)
(* runs).                                                                  *)
StayPut  == UNCHANGED <<i, pc, failure>>
Continue == i' = i + 1 /\ UNCHANGED <<pc, failure>>

(* getByName: the last section of a name, or section 0 for none.           *)
Named(name) ==
  LET all == {k \in Indices : Sec(k).type # "NULL" /\ Sec(k).name = name}
  IN IF all = {} THEN 0 ELSE CHOOSE k \in all : \A j \in all : j <= k

(* getSectionByName, once the name map exists, finds a section in memory.  *)
Found(name) == pc \notin {"header", "shtab", "first"} /\ stab[Named(name)] = "loaded"

(* The contents of a section in one read.                                  *)
ReadContents ==
  \/ Stray(Sec(i).off, Sec(i).size) /\ UNCHANGED <<i, good, stab>>
  \/ good' \in GoodAfter(Sec(i).off, Sec(i).size) /\ Keep(good') /\ Continue

(* ELFSectionStrTab::read *)
ReadStrTab == Sec(i).type = "STRTAB" /\ ReadContents

(* The entries of a table, one after the other for as long as the archive  *)
(* is good; already the first one may lie before the file.                 *)
ReadEntries ==
  LET entries == good /\ Sec(i).size > 0 IN
  \/ /\ entries
     /\ \/ Misaligned(Sec(i).off) /\ Abort("unaligned")
        \/ Stray(Sec(i).off, Sec(i).size)
        \/ Stray(Sec(i).off, 1)
     /\ UNCHANGED <<i, good, stab>>
  \/ /\ ~(entries /\ Misaligned(Sec(i).off) /\ Straight(Sec(i).off, Sec(i).size))
     /\ good' \in IF entries THEN GoodAfter(Sec(i).off, Sec(i).size) ELSE {good}
     /\ Keep(good') /\ Continue

(* ELFSectionSymTab::read and ELFSectionRelTable::read                     *)
ReadSymTab   == Sec(i).type = "SYMTAB" /\ ReadEntries
ReadRelTable == Sec(i).type = "REL" /\ ReadEntries

(* MemChunk::allocate: mmap may refuse, and always refuses 0 bytes.        *)
NoMemory == stab' = [stab EXCEPT ![i] = "refused"] /\ UNCHANGED good /\ Continue

(* ELFSectionNoBits::read does not look at the archive.                    *)
ReadNoBits ==
  /\ Sec(i).type = "NOBITS"
  /\ \/ NoMemory
     \/ Sec(i).size > 0 /\ Keep(TRUE) /\ UNCHANGED good /\ Continue

(* ELFSectionProgBits::read: the external functions are counted in the     *)
(* symbol table, which has to be there.                                    *)
ReadProgBits ==
  /\ Sec(i).type = "PROGBITS"
  /\ \/ /\ HasStubs /\ ~Found(".symtab")
        /\ Abort("blind")
        /\ UNCHANGED <<i, good, stab>>
     \/ /\ HasStubs => Found(".symtab")
        /\ \/ NoMemory
           \/ /\ Sec(i).size > 0 \/ (HasStubs /\ obj.externs > 0)
              /\ ReadContents

(* A section that has no representation in memory.                         *)
ReadUnknown ==
  /\ Sec(i).type \in {"NULL", "OTHER"}
  /\ Keep(FALSE) /\ UNCHANGED good /\ Continue

(* ELFSection::read *)
ReadSection ==
  /\ \/ ReadStrTab \/ ReadSymTab \/ ReadRelTable
     \/ ReadNoBits \/ ReadProgBits \/ ReadUnknown
  /\ UNCHANGED <<obj, size>>

Skip == Continue /\ UNCHANGED <<obj, size, good, stab>>

(* Sections that wait for the second pass; and a reader with one pass.     *)
NothingDeferred(k) == FALSE
Deferred(k) == Sec(k).type = "PROGBITS"

FirstPass ==
  /\ pc = "first" /\ i < obj.shnum
  /\ \/ ~Deferred(i) /\ ReadSection
     \/ Deferred(i) /\ Skip

(* A reader that trusts the file to have its tables (for the sensitivity   *)
(* runs).                                                                  *)
BuildBlindly ==
  /\ pc = "names"
  /\ pc' = "second" /\ i' = 0
  /\ UNCHANGED <<obj, size, failure, good, stab>>

(* buildNameMap of the sections, the assertion "Symtab is required.", and  *)
(* buildNameMap of the symbols.  A string table that is NULL is            *)
(* dereferenced.                                                           *)
BuildNameMaps ==
  /\ pc = "names"
  /\ \/ stab[obj.shstrndx] # "loaded" /\ Abort("shstrtab") /\ UNCHANGED i
     \/ /\ stab[obj.shstrndx] = "loaded" /\ ~Found(".symtab")
        /\ Abort("symtab") /\ UNCHANGED i
     \/ /\ stab[obj.shstrndx] = "loaded" /\ Found(".symtab") /\ ~Found(".strtab")
        /\ Abort("strtab") /\ UNCHANGED i
     \/ /\ stab[obj.shstrndx] = "loaded" /\ Found(".symtab") /\ Found(".strtab")
        /\ pc' = "second" /\ i' = 0 /\ UNCHANGED failure
  /\ UNCHANGED <<obj, size, good, stab>>

SecondPass ==
  /\ pc = "second" /\ i < obj.shnum
  /\ \/ Deferred(i) /\ ReadSection
     \/ ~Deferred(i) /\ Skip

(* A loop that passes over what is missing (for the sensitivity runs).     *)
TakeWhatIsThere == pc = "relocate" /\ i < obj.shnum /\ Skip

(* relocate() takes a relocation section and the section it patches; both  *)
(* have to be in memory.                                                   *)
TakeSections ==
  /\ pc = "relocate" /\ i < obj.shnum
  /\ \/ Sec(i).type # "REL" /\ Skip
     \/ Sec(i).type = "REL" /\ stab[i] = "loaded" /\ Found(Sec(i).target) /\ Skip
     \/ /\ Sec(i).type = "REL" /\ ~(stab[i] = "loaded" /\ Found(Sec(i).target))
        /\ Abort("relocation")
        /\ UNCHANGED <<obj, size, i, good, stab>>

Next ==
  \/ ReadHeader \/ ReadSectionHeader \/ NextLoop("shtab", "first")
  \/ FirstPass \/ NextLoop("first", "names") \/ BuildNameMaps
  \/ SecondPass \/ NextLoop("second", "relocate")
  \/ TakeSections \/ NextLoop("relocate", "loaded")

Spec == Init /\ [][Next]_vars

-----------------------------------------------------------------------------
(* Every variable holds a value of its type, and a loop never runs past    *)
(* the section header table (ELFSectionHeaderTable.hxx:55).                *)
TypeOK ==
  /\ obj \in Objects /\ size \in FileSizes
  /\ pc \in {"header", "shtab", "first", "names", "second", "relocate",
             "loaded", "null", "aborted"}
  /\ i \in 0 .. obj.shnum
  /\ good \in BOOLEAN
  /\ stab \in [Indices -> {"unread", "loaded", "null", "refused"}]

(* The file has these bytes; they are where their offset says, in front of *)
(* the end of the address space.                                           *)
Held(off, n) == off + n <= size
Addressable(off, n) == Buf + off + n + Margin <= AddrMod

InFile(k) == Sec(k).type = "NOBITS" \/ Sec(k).size = 0 \/ Held(Sec(k).off, Sec(k).size)
HasPlace(k) == Addressable(Sec(k).off, Sec(k).size)

(* A section that is in memory, and whose offset is one in the address     *)
(* space, has been read from the file to its last byte: none is kept half  *)
(* filled when the file ends early (ELFSectionSymTab.hxx:106-109 and its   *)
(* like).                                                                  *)
ReadToTheEnd == \A k \in Indices : stab[k] = "loaded" /\ HasPlace(k) => InFile(k)

(* The external functions are never counted before the symbol table is in  *)
(* memory (ELFSectionProgBits.hxx:42-46), since PROGBITS sections wait     *)
(* (ELFObject.hxx:51-74).                                                  *)
NeverBlind == failure # "blind"

(* When read() has returned, the tables the names come from are in memory, *)
(* so that the tests for a NULL symbol table in the API                    *)
(* (librsloader.cpp:69) never have to catch anything.                      *)
TablesInMemory ==
  pc \in {"second", "relocate", "loaded"} =>
    \A k \in {obj.shstrndx, Named(".symtab"), Named(".strtab")} : stab[k] = "loaded"

(* Everything that relocation reads and patches has come from the file, if *)
(* its offset is one in the address space.                                 *)
PatchedFromFile ==
  pc = "loaded" =>
    \A k \in Indices : Sec(k).type = "REL" =>
      \A m \in {k, Named(Sec(k).target)} : HasPlace(m) => InFile(m)

(* Once a section has been given up because the archive is bad, nothing    *)
(* that is read later is kept, in either of the passes: a file that is     *)
(* damaged in the middle is not patched up from behind the damage          *)
(* (serialize.h:94-100, ELFObject.hxx:51-74).                              *)
FromArchive(k) == Sec(k).type \in {"STRTAB", "SYMTAB", "PROGBITS", "REL"}
Before(m, k) == \/ Deferred(m) = Deferred(k) /\ m < k
                \/ ~Deferred(m) /\ Deferred(k)
NothingAfterACut ==
  \A m, k \in Indices :
    FromArchive(m) /\ FromArchive(k) /\ Before(m, k) /\ stab[m] = "null" => stab[k] # "loaded"

(* A file that holds an object to its end, with its structures aligned,    *)
(* loads completely, unless mmap refuses memory for one of its sections.   *)
Whole ==
  /\ obj.valid /\ Held(0, HeaderSize) /\ Held(obj.shoff, obj.shnum * ShdrSize)
  /\ ~Misaligned(obj.shoff)
  /\ \A k \in Indices :
       Sec(k).type \in {"STRTAB", "SYMTAB", "PROGBITS", "REL"} =>
         /\ Held(Sec(k).off, Sec(k).size)
         /\ Sec(k).type \in {"SYMTAB", "REL"} => ~Misaligned(Sec(k).off)
  /\ Sec(obj.shstrndx).type = "STRTAB"
  /\ Sec(Named(".symtab")).type = "SYMTAB" /\ Sec(Named(".strtab")).type = "STRTAB"
  /\ \A k \in Indices :
       Sec(k).type = "REL" => Sec(Named(Sec(k).target)).type = "PROGBITS"
WholeFileLoads ==
  Whole /\ (\A k \in Indices : stab[k] # "refused") =>
    /\ pc \notin {"null", "aborted"}
    /\ pc \in {"relocate", "loaded"} =>
         \A k \in Indices :
           Sec(k).type \notin {"NULL", "OTHER"} => stab[k] = "loaded"
===============================================================================
