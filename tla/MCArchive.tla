----------------------------- MODULE MCArchive -----------------------------
(* Every structure in both classes and byte orders, read on both kinds of  *)
(* processor, in tables of up to two entries, at offsets that suit all     *)
(* structures, only the 32 bit ones, or none, from a file that ends at any *)
(* byte up to one behind the table; and tables whose offset leads out of   *)
(* the address space and back, before the file, into it or across its      *)
(* start.                                                                  *)
EXTENDS Archive

Job(kind, bits, order, class, data, host, start, count, size) ==
  [kind |-> kind, bits |-> bits, order |-> order, class |-> class, data |-> data,
   host |-> host, buf |-> 256, start |-> start, count |-> count, size |-> size]

Headers ==
  UNION {{Job("ELFHeader", b, o, c, d, h, 0, 1, n) : n \in 0 .. SizeOf("ELFHeader", b) + 1} :
           b \in Widths, o \in Orders, c \in Widths, d \in Orders, h \in Orders}

Tables ==
  UNION {{Job(kind, b, o, b, o, h, s, c, n) : n \in 0 .. s + c * SizeOf(kind, b) + 1} :
           kind \in Kinds \ {"ELFHeader"}, b \in Widths, o \in Orders, h \in Orders,
           s \in {0, 4, 6}, c \in 0 .. 2}

(* 8192 is AddrMod.  Only an offset of a 64 bit object may be greater.     *)
Elsewhere ==
  {Job(kind, 32, "little", 32, "little", "little", 8192 + s, c, n) :
     kind \in {"ELFSymbol", "ELFRelocRel"}, c \in {1, 2},
     s \in {-300, -264, -256, -64, -16, -6}, n \in {0, 16, 40}}
  \cup
  {Job(kind, 64, "little", 64, "little", "little", 8192 + s, c, n) :
     kind \in {"ELFSymbol", "ELFRelocRel"}, c \in {1, 2},
     s \in {-264, -256, -16, -6, 0, 8}, n \in {0, 16, 56}}

MCJobs == {j \in Headers : ClientReads(j) \/ LibraryReads(j)} \cup Tables \cup Elsewhere
============================================================================
