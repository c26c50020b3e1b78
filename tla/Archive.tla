------------------------------- MODULE Archive -------------------------------
(***************************************************************************)
(* One read of an ArchiveReader (utils/serialize.h): the ELF header, or a  *)
(* table of section headers, symbols or relocation entries, field by field *)
(* as the serialize() functions list them, each moved to its alignment,    *)
(* copied, and swapped if the archive is not in the byte order of the      *)
(* host.  Module ObjectReader takes such a read for one step, which fits   *)
(* the file or not; here is why it may.                                    *)
(*                                                                         *)
(* The bytes of a file are represented by their positions: a number is the *)
(* sequence of the positions of its bytes, the least significant first.    *)
(* The reader keeps pointers and compares them with the end of the buffer  *)
(* only.  A position is where a pointer is, from the start of the buffer:  *)
(* negative before it, and from the end of the address space back to its   *)
(* start, which is where the arithmetic of pointers leads.                 *)
(***************************************************************************)
EXTENDS Integers, SequencesExt

CONSTANTS
  Jobs,      \* what is read, by which reader, from which file
  AddrMod    \* addresses the processor has

Kinds  == {"ELFHeader", "ELFSectionHeader", "ELFSymbol", "ELFRelocRel", "ELFRelocRela"}
Widths == {32, 64}
Orders == {"little", "big"}

(* The file, by its class and byte order, is read as what it is by the     *)
(* client, and as a 32 bit little endian one by the library.  A table is   *)
(* read when the header has been accepted.                                 *)
ClientReads(j)  == j.bits = j.class /\ j.order = j.data
LibraryReads(j) == j.bits = 32 /\ j.order = "little"

(* The largest structure; the last page of the address space, where there  *)
(* is room for two of them, belongs to the system.                         *)
Largest == 64

ASSUME AddrModAssumption == AddrMod \in Nat \ {0} /\ AddrMod % 8 = 0

ASSUME JobsAssumption ==
  \A j \in Jobs :
    /\ j.kind \in Kinds
    /\ j.bits \in Widths /\ j.order \in Orders   \* ELFObject<bits>, ArchiveReaderLE or BE
    /\ j.class \in Widths /\ j.data \in Orders   \* EI_CLASS and EI_DATA of the file
    /\ j.host \in Orders                         \* byte order of the processor
    /\ j.start \in Nat /\ j.count \in Nat        \* offset and entries of the table
    /\ j.buf \in Nat \ {0} /\ j.size \in Nat     \* address and bytes of the file
    /\ j.buf + j.size + 2 * Largest <= AddrMod
    /\ ClientReads(j) \/ (j.kind = "ELFHeader" /\ LibraryReads(j))
    /\ j.kind = "ELFHeader" => j.start = 0 /\ j.count = 1

VARIABLES
  job,          \* one of Jobs, fixed
  pc,           \* "loop", "fields", then "read", "null", "aborted" or "died"
  cursor,       \* the next byte
  cursor_base,  \* where the entry being read starts
  good,         \* no read has ended behind the file
  value,        \* the fields of the entry that have been read
  table         \* the entries that have been read

vars == <<job, pc, cursor, cursor_base, good, value, table>>

-----------------------------------------------------------------------------
(* ELFPrimitiveTypes<b>: bytes of a number.  Addresses, offsets and the    *)
(* sizes that go with them are as wide as the object.                      *)
Byte == 1
Half == 2
Word == 4
Native(b) == b \div 8

Field(name, width) == [name |-> name, width |-> width]

(* The fields of every structure, in the order of its serialize().         *)
HeaderFields(b) == <<
  Field("e_ident", 16),     Field("e_type", Half),        Field("e_machine", Half),
  Field("e_version", Word), Field("e_entry", Native(b)),  Field("e_phoff", Native(b)),
  Field("e_shoff", Native(b)), Field("e_flags", Word),    Field("e_ehsize", Half),
  Field("e_phentsize", Half),  Field("e_phnum", Half),    Field("e_shentsize", Half),
  Field("e_shnum", Half),      Field("e_shstrndx", Half)>>

SectionHeaderFields(b) == <<
  Field("sh_name", Word),        Field("sh_type", Word),
  Field("sh_flags", Native(b)),  Field("sh_addr", Native(b)),
  Field("sh_offset", Native(b)), Field("sh_size", Native(b)),
  Field("sh_link", Word),        Field("sh_info", Word),
  Field("sh_addralign", Native(b)), Field("sh_entsize", Native(b))>>

SymbolFields(b) ==
  IF b = 32
  THEN <<Field("st_name", Word), Field("st_value", Native(b)), Field("st_size", Native(b)),
         Field("st_info", Byte), Field("st_other", Byte),      Field("st_shndx", Half)>>
  ELSE <<Field("st_name", Word), Field("st_info", Byte), Field("st_other", Byte),
         Field("st_shndx", Half), Field("st_value", Native(b)), Field("st_size", Native(b))>>

RelFields(b)  == <<Field("r_offset", Native(b)), Field("r_info", Native(b))>>
RelaFields(b) == <<Field("r_offset", Native(b)), Field("r_info", Native(b)),
                   Field("r_addend", Native(b))>>

FieldsOf(kind, b) ==
  CASE kind = "ELFHeader"        -> HeaderFields(b)
    [] kind = "ELFSectionHeader" -> SectionHeaderFields(b)
    [] kind = "ELFSymbol"        -> SymbolFields(b)
    [] kind = "ELFRelocRel"      -> RelFields(b)
    [] kind = "ELFRelocRela"     -> RelaFields(b)

(* TypeTraits of the structures: what epilogue() advances by.              *)
SizeOf(kind, b) ==
  CASE kind = "ELFHeader"        -> IF b = 32 THEN 52 ELSE 64
    [] kind = "ELFSectionHeader" -> IF b = 32 THEN 40 ELSE 64
    [] kind = "ELFSymbol"        -> IF b = 32 THEN 16 ELSE 24
    [] kind = "ELFRelocRel"      -> IF b = 32 THEN 8 ELSE 16
    [] kind = "ELFRelocRela"     -> IF b = 32 THEN 12 ELSE 24
AlignOf(b) == b \div 8

(* TypeTraits of the numbers; e_ident is an array of bytes, which          *)
(* operator& neither moves nor swaps.                                      *)
IsArray(fld) == fld.name = "e_ident"
Align(fld) == IF IsArray(fld) THEN Byte ELSE fld.width

Fields == FieldsOf(job.kind, job.bits)
Size == SizeOf(job.kind, job.bits)

-----------------------------------------------------------------------------
(* A pointer p bytes from the start of the buffer.                         *)
Position(p) == ((job.buf + p) % AddrMod) - job.buf

(* seekAlignment                                                           *)
Aligned(at, align) == IF at % align = 0 THEN at ELSE at + (align - (at % align))

(* The w bytes memcpy takes from at, swapped where byte orders differ; and *)
(* an archive that does not look at the host, which nobody would notice on *)
(* a little endian one (for the sensitivity runs).                         *)
SwapIfBig(bytes) == IF job.order = "big" THEN Reverse(bytes) ELSE bytes
SwapByteOrder(bytes) == IF job.order # job.host THEN Reverse(bytes) ELSE bytes
ReadBytes(at, w) == [k \in 1 .. w |-> at + k - 1]

(* The number the processor finds in these bytes of memory.                *)
NumberIn(bytes) == IF job.host = "little" THEN bytes ELSE Reverse(bytes)

Stored(fld, at) ==
  IF IsArray(fld) THEN ReadBytes(at, fld.width)
  ELSE NumberIn(SwapByteOrder(ReadBytes(at, fld.width)))

Init ==
  /\ job \in Jobs
  /\ pc = "loop"
  /\ cursor = Position(job.start)       \* seek(offset, true)
  /\ cursor_base = Position(job.start)
  /\ good = TRUE
  /\ value = <<>> /\ table = <<>>

(* The next entry, for as long as the archive is good: prologue(). After a *)
(* bad read the loops over symbols and relocation entries go on and add    *)
(* NULL for every entry left, then drop the table; that is left out.       *)
Prologue ==
  /\ pc = "loop" /\ good /\ Len(table) < job.count
  /\ cursor_base' = cursor
  /\ value' = <<>>
  /\ pc' = "fields"
  /\ UNCHANGED <<job, cursor, good, table>>

(* operator& of the next field.  The cursor moves on although a read has   *)
(* failed; a field that is not read keeps what it was made with.  Of bytes *)
(* that are not in the file, memcpy takes what is there, or the process    *)
(* ends.                                                                   *)
ReadField ==
  /\ pc = "fields" /\ Len(value) < Len(Fields)
  /\ LET fld == Fields[Len(value) + 1]
         at  == Position(Aligned(cursor, Align(fld)))
     IN /\ good'   = (good /\ Position(at + fld.width) <= job.size)
        /\ value'  = Append(value, IF good' THEN Stored(fld, at) ELSE <<>>)
        /\ cursor' = Position(at + fld.width)
        /\ \/ pc' = pc
           \/ /\ good' /\ ~(0 <= at /\ at + fld.width <= job.size)
              /\ pc' = "died"
  /\ UNCHANGED <<job, cursor_base, table>>

(* epilogue(), and serialize() returns whether the archive is good; an     *)
(* entry must not start at NULL, nor its fields end behind it.  And an     *)
(* epilogue that goes on behind the last field (for the sensitivity runs). *)
EpilogueUnchecked ==
  /\ pc = "fields" /\ Len(value) = Len(Fields)
  /\ pc' = "loop"
  /\ table' = IF good THEN Append(table, value) ELSE table
  /\ UNCHANGED <<job, cursor, cursor_base, good, value>>

Epilogue ==
  /\ pc = "fields" /\ Len(value) = Len(Fields)
  /\ \/ /\ cursor_base # -job.buf /\ cursor <= Position(cursor_base + Size)
        /\ cursor' = Position(cursor_base + Size)
        /\ pc' = "loop"
        /\ table' = IF good THEN Append(table, value) ELSE table
     \/ /\ cursor_base = -job.buf \/ cursor > Position(cursor_base + Size)
        /\ pc' = "aborted"
        /\ UNCHANGED <<cursor, table>>
  /\ UNCHANGED <<job, cursor_base, good, value>>

-----------------------------------------------------------------------------
(* Where the System V ABI has the fields of a structure.                   *)
ABIOffset(kind, b) ==
  CASE kind = "ELFHeader" /\ b = 32 ->
         [e_ident |-> 0, e_type |-> 16, e_machine |-> 18, e_version |-> 20, e_entry |-> 24,
          e_phoff |-> 28, e_shoff |-> 32, e_flags |-> 36, e_ehsize |-> 40, e_phentsize |-> 42,
          e_phnum |-> 44, e_shentsize |-> 46, e_shnum |-> 48, e_shstrndx |-> 50]
    [] kind = "ELFHeader" /\ b = 64 ->
         [e_ident |-> 0, e_type |-> 16, e_machine |-> 18, e_version |-> 20, e_entry |-> 24,
          e_phoff |-> 32, e_shoff |-> 40, e_flags |-> 48, e_ehsize |-> 52, e_phentsize |-> 54,
          e_phnum |-> 56, e_shentsize |-> 58, e_shnum |-> 60, e_shstrndx |-> 62]
    [] kind = "ELFSectionHeader" /\ b = 32 ->
         [sh_name |-> 0, sh_type |-> 4, sh_flags |-> 8, sh_addr |-> 12, sh_offset |-> 16,
          sh_size |-> 20, sh_link |-> 24, sh_info |-> 28, sh_addralign |-> 32, sh_entsize |-> 36]
    [] kind = "ELFSectionHeader" /\ b = 64 ->
         [sh_name |-> 0, sh_type |-> 4, sh_flags |-> 8, sh_addr |-> 16, sh_offset |-> 24,
          sh_size |-> 32, sh_link |-> 40, sh_info |-> 44, sh_addralign |-> 48, sh_entsize |-> 56]
    [] kind = "ELFSymbol" /\ b = 32 ->
         [st_name |-> 0, st_value |-> 4, st_size |-> 8, st_info |-> 12, st_other |-> 13,
          st_shndx |-> 14]
    [] kind = "ELFSymbol" /\ b = 64 ->
         [st_name |-> 0, st_info |-> 4, st_other |-> 5, st_shndx |-> 6, st_value |-> 8,
          st_size |-> 16]
    [] kind \in {"ELFRelocRel", "ELFRelocRela"} ->
         [r_offset |-> 0, r_info |-> b \div 8, r_addend |-> 2 * (b \div 8)]

(* The number of w bytes that a file of a byte order has at a position.    *)
NumberAt(at, w, order) ==
  [k \in 1 .. w |-> IF order = "little" THEN at + k - 1 ELSE at + w - k]

(* What the ABI has in a field of an entry at base, in a file of the class *)
(* and byte order given.                                                   *)
InFile(fld, base, kind, b, order) ==
  NumberAt(base + ABIOffset(kind, b)[fld.name], fld.width, IF IsArray(fld) THEN "little" ELSE order)

(* isValid of a header: the class, which is a byte, and the numbers the    *)
(* ABI prescribes (e_version, e_ehsize, e_shentsize), none of which reads  *)
(* the same in the other byte order.  Other faults of a header are in      *)
(* ObjectReader.  And a header that only looks at its identification (for  *)
(* the sensitivity runs).                                                  *)
Prescribed == {"e_version", "e_ehsize", "e_shentsize"}
HasOwnIdent == job.class = job.bits
IsValid ==
  /\ job.class = job.bits
  /\ \A f \in DOMAIN Fields :
       Fields[f].name \in Prescribed =>
         value[f] = InFile(Fields[f], 0, "ELFHeader", job.class, job.data)

(* The loop is over: the header, or the table, is kept or given up.        *)
Finish ==
  /\ pc = "loop" /\ (good => Len(table) = job.count)
  /\ pc' = IF good /\ (job.kind = "ELFHeader" => IsValid) THEN "read" ELSE "null"
  /\ UNCHANGED <<job, cursor, cursor_base, good, value, table>>

Next == Prologue \/ ReadField \/ Epilogue \/ Finish

Spec == Init /\ [][Next]_vars

-----------------------------------------------------------------------------
(* The table is where its offset says: it ends before the address space    *)
(* does, with room for the steps of a table that is not aligned.  A header *)
(* always is.  Of an offset that leads elsewhere, the reader follows the   *)
(* pointer and tests the end of the buffer alone; nothing is promised.     *)
Addressable == job.buf + job.start + job.count * Size + Largest <= AddrMod

(* Every field of every entry that is kept has come from where the ABI has *)
(* it, with its bytes in the order the archive was opened for, whatever    *)
(* the processor's is.                                                     *)
AsTheABI ==
  Addressable /\ pc = "read" =>
    /\ Len(table) = job.count
    /\ \A k \in 1 .. job.count : \A f \in DOMAIN Fields :
         table[k][f] = InFile(Fields[f], job.start + (k - 1) * Size,
                              job.kind, job.bits, job.order)

(* A read of a table in the address space is what ObjectReader takes it    *)
(* for: the process stops if and only if there is an entry and the table   *)
(* is not aligned, however short the file is; else the table is kept if    *)
(* and only if the file holds all of it.  Nothing outside the file is      *)
(* touched.                                                                *)
Misaligned == job.count > 0 /\ job.start % AlignOf(job.bits) # 0
Held == job.count = 0 \/ job.start + job.count * Size <= job.size
ReadsAsAssumed ==
  Addressable =>
    /\ pc = "aborted" => Misaligned
    /\ pc = "read"    => ~Misaligned /\ Held
    /\ pc = "null"    => ~Misaligned /\ (job.kind = "ELFHeader" \/ ~Held)
    /\ pc # "died"

(* A header is accepted only by a reader for its class and byte order: the *)
(* library, which reads everything as 32 bit little endian without a look  *)
(* at the identification (librsloader.cpp:44-46), never goes on with       *)
(* numbers it has read the wrong way round.  No whole header of the        *)
(* reader's own kind is refused.                                           *)
OnlyOwnKind ==
  job.kind = "ELFHeader" =>
    /\ pc = "read" => job.class = job.bits /\ job.data = job.order
    /\ pc = "null" => ~(job.class = job.bits /\ job.data = job.order /\ Held)
=============================================================================
