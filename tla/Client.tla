-------------------------------- MODULE Client --------------------------------
(***************************************************************************)
(* The command line client (main.cpp): it maps a file, has an object read  *)
(* and relocated from the mapping, calls the object's main, and gives the  *)
(* mapping back.                                                           *)
(*                                                                         *)
(* The reading is that of ObjectReader, with its loops.  The pages of the  *)
(* sections are followed from mmap to munmap: what may be read, written or *)
(* executed, and whether the instruction cache has seen the last change.   *)
(* Objects have two more fields here: asks, the names they leave           *)
(* undefined, and main, the section main lies in (0: no such symbol); and  *)
(* sections have flags.  What main itself does to the process is a choice. *)
(***************************************************************************)
EXTENDS ObjectReader

CONSTANTS
  IdentSize,   \* EI_NIDENT
  Provided     \* the names in the table of find_sym

ASSUME ClientAssumption ==
  /\ IdentSize \in Nat
  /\ \A o \in Objects :
       /\ o.main \in DOMAIN o.secs
       /\ \A k \in DOMAIN o.secs : o.secs[k].flags \subseteq {"SHF_WRITE", "SHF_EXECINSTR"}

VARIABLES
  stage,   \* "start", "opened", "object", "protect", "relocated", "running",
           \* "close", "exit", "failed" for exit(EXIT_FAILURE), "died" for an
           \* abort or an invalid access
  fd,      \* the descriptor: "none", "open" or "closed"
  image,   \* "none", "mapped" or "unmapped"
  mem,     \* the protection of the memory of every section, {} if unmapped
  dirty,   \* sections written to since the instruction cache was flushed
  common,  \* the chunk of the variables: "none" or "mapped"
  j        \* index of the loop that protects

fileVars == <<stage, fd, image>>
memVars  == <<mem, dirty, common, j>>
clientVars == <<vars, fileVars, memVars>>

ClientInit ==
  /\ Init
  /\ stage = "start" /\ fd = "none" /\ image = "none"
  /\ mem = [k \in Indices |-> {}] /\ dirty = {} /\ common = "none" /\ j = 0

(* Without an argument there is only the usage.                            *)
Usage ==
  /\ stage = "start" /\ stage' = "failed"
  /\ UNCHANGED <<vars, fd, image, memVars>>

(* open_mmap_file: stat and open may fail, and then mmap, as it does for   *)
(* an empty file.                                                          *)
OpenMmapFile ==
  /\ stage = "start"
  /\ \/ stage' = "failed" /\ UNCHANGED <<fd, image>>
     \/ stage' = "failed" /\ fd' = "closed" /\ UNCHANGED image
     \/ size > 0 /\ stage' = "opened" /\ fd' = "open" /\ image' = "mapped"
  /\ UNCHANGED <<vars, memVars>>

(* dump_and_run_file looks at byte order and class before it chooses an    *)
(* archive; what is no ELF object may have those of one.                   *)
DumpAndRunFile ==
  /\ stage = "opened"
  /\ \/ size >= IdentSize /\ stage' = "object"
     \/ (size < IdentSize \/ ~obj.valid) /\ stage' = "close"
  /\ UNCHANGED <<vars, fd, image, memVars>>

(* MemChunk::allocate of a section, and ~MemChunk of one that is dropped.  *)
InChunk(k) == Sec(k).type \in {"PROGBITS", "NOBITS"} /\ stab[k] = "loaded"

(* dump_and_run_object, up to the sections relocate() takes.               *)
ReadObject ==
  /\ stage = "object"
  /\ Next
  /\ stage' = IF pc' = "aborted" THEN "died" ELSE stage
  /\ mem' = [k \in Indices |-> IF InChunk(k)' THEN {"READ", "WRITE"} ELSE {}]
  /\ dirty' = {k \in Indices : InChunk(k)'}
  /\ UNCHANGED <<fd, image, common, j>>

(* After "Unable to load object" the client uses the object all the same.  *)
UseNoObject ==
  /\ stage = "object" /\ pc = "null"
  /\ stage' = "died"
  /\ UNCHANGED <<vars, fd, image, memVars>>

(* find_sym stops the program when it does not know a name.                *)
FindSym(name) == name \in Provided

(* relocate(): the chunk of the variables, if mmap gives one, then the     *)
(* entries, which write to the sections in memory and may stop the process *)
(* as Relocate says.                                                       *)
RelocateEntries ==
  /\ stage = "object" /\ pc = "loaded"
  /\ common' \in {"none", "mapped"}
  /\ dirty' = {k \in Indices : InChunk(k)}
  /\ \/ stage' = "died"
     \/ (\A name \in obj.asks : FindSym(name)) /\ stage' = "protect"
  /\ UNCHANGED <<vars, fd, image, mem, j>>

(* ELFSectionBits::protect *)
Prot(k) == {"READ"} \cup (IF "SHF_WRITE" \in Sec(k).flags THEN {"WRITE"} ELSE {})
                    \cup (IF "SHF_EXECINSTR" \in Sec(k).flags THEN {"EXEC"} ELSE {})

(* The sections whose change the instruction cache sees when k is          *)
(* protected; and a flush of pages that are not writable only (for the     *)
(* sensitivity runs).                                                      *)
FlushedIfConstant(k) == IF Prot(k) = {"READ", "EXEC"} THEN {k} ELSE {}
Flushed(k) == IF "EXEC" \in Prot(k) THEN {k} ELSE {}

(* MemChunk::protect: mprotect may refuse, and nobody looks at the result. *)
ProtectChunk(k) ==
  \/ UNCHANGED <<mem, dirty>>
  \/ mem' = [mem EXCEPT ![k] = Prot(k)] /\ dirty' = dirty \ Flushed(k)

(* The loop at the end of relocate().                                      *)
Protect ==
  /\ stage = "protect"
  /\ \/ /\ j \in Indices /\ j' = j + 1
        /\ \/ InChunk(j) /\ ProtectChunk(j)
           \/ ~InChunk(j) /\ UNCHANGED <<mem, dirty>>
        /\ UNCHANGED stage
     \/ j = obj.shnum /\ stage' = "relocated" /\ UNCHANGED <<mem, dirty, j>>
  /\ UNCHANGED <<vars, fd, image, common>>

(* main is looked up, and called: a NULL symbol, a section without memory  *)
(* or one that may not be executed ends the process.                       *)
CallMain ==
  /\ stage = "relocated"
  /\ stage' = IF obj.main # 0 /\ "EXEC" \in mem[obj.main] THEN "running" ELSE "died"
  /\ UNCHANGED <<vars, fd, image, memVars>>

(* An object whose section chunks are not given back (for the sensitivity  *)
(* runs).                                                                  *)
ForgetSections == common' = "none" /\ UNCHANGED <<mem, dirty>>

(* ~ELFObject, which deletes its sections, and ~MemChunk of each.          *)
DeleteObject ==
  mem' = [k \in Indices |-> {}] /\ dirty' = {} /\ common' = "none"

(* main returns, and with dump_and_run_object the object goes; or main     *)
(* ends the process.                                                       *)
MainReturns ==
  /\ stage = "running"
  /\ \/ stage' = "close" /\ DeleteObject
     \/ stage' = "died" /\ UNCHANGED <<mem, dirty, common>>
  /\ UNCHANGED <<vars, fd, image, j>>

CloseMmapFile ==
  /\ stage = "close"
  /\ stage' = "exit" /\ fd' = "closed" /\ image' = "unmapped"
  /\ UNCHANGED <<vars, memVars>>

ClientNext ==
  \/ Usage \/ OpenMmapFile \/ DumpAndRunFile \/ ReadObject \/ UseNoObject
  \/ RelocateEntries \/ Protect \/ CallMain \/ MainReturns \/ CloseMmapFile

(* The process is scheduled for as long as it can go on; main may run for  *)
(* ever.                                                                   *)
ClientSpec ==
  ClientInit /\ [][ClientNext]_clientVars
             /\ WF_clientVars(ClientNext /\ stage # "running")

-----------------------------------------------------------------------------
(* However a run ends that the client itself ends, nothing is held any     *)
(* more: not the file, nor the memory of a section or of the variables     *)
(* (main.cpp:60-72, 235-257, ELFObject.h:107-112, MemChunk.cpp:41-45).     *)
NothingHeld ==
  stage \in {"exit", "failed"} =>
    /\ fd # "open" /\ image # "mapped"
    /\ common = "none" /\ \A k \in Indices : mem[k] = {}

(* When main runs, it runs in executable pages, and the processor has seen *)
(* the last change of everything that can be executed: although sections   *)
(* are written to until the last entry, are not flushed one by one as they *)
(* are patched, and mprotect may refuse any of them, which nobody notices  *)
(* (ELFObject.hxx:498-506, MemChunk.cpp:78-92).                            *)
RunsFresh ==
  stage = "running" =>
    /\ "EXEC" \in mem[obj.main]
    /\ \A k \in Indices : "EXEC" \in mem[k] => k \notin dirty

(* Code that may be executed has come from the file to its last byte, and  *)
(* so has every relocation table that patches it: none is half an object,  *)
(* wherever the file was cut, although the loader marks the sections it    *)
(* could not read by NULL only and goes on (ELFObject.hxx:51-77, 455-506,  *)
(* main.cpp:141-167).  Of an offset outside the address space, which       *)
(* seek() follows to what lies before the file, nothing is promised        *)
(* (serialize.h:86-99).                                                    *)
FromFile(k) == HasPlace(k) => InFile(k)
ExecutesWhole ==
  \A k \in Indices : "EXEC" \in mem[k] =>
    /\ pc = "loaded" /\ FromFile(k)
    /\ \A r \in Indices :
         Sec(r).type = "REL" /\ Named(Sec(r).target) = k => FromFile(r)

(* No file keeps the client from calling main or ending: the loops over    *)
(* the sections, as many as the file says, end on every path               *)
(* (ELFObject.hxx:49-75, 498-506, ELFSectionHeaderTable.hxx:55).           *)
Ends == <>(stage \in {"exit", "failed", "died", "running"})

(* A file that is no object is reported and refused: "ERROR: Unable to     *)
(* load object" (main.cpp:148).  The code goes on with a null pointer.     *)
RefusedIfNotLoaded == ~(stage = "died" /\ pc = "null")
===============================================================================
