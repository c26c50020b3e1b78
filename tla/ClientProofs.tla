----------------------------- MODULE ClientProofs -----------------------------
(***************************************************************************)
(* The command line client holds nothing when it ends, and runs nothing    *)
(* the processor has an old copy of: for every file, every refusal of      *)
(* memory and of protection.                                               *)
(***************************************************************************)
EXTENDS Client, ObjectReaderProofs

(* Nothing of an object is in memory.                                      *)
NoObject == common = "none" /\ \A k \in Indices : mem[k] = {}

(* The file is open and the object in memory between the right stages; no  *)
(* page is executable before the last entry is patched, and none is dirty  *)
(* from the moment it becomes executable.                                  *)
ClientInv ==
  /\ mem \in [Indices -> SUBSET {"READ", "WRITE", "EXEC"}]
  /\ stage = "start" => fd = "none" /\ image = "none"
  /\ stage \in {"exit", "failed"} => fd # "open" /\ image # "mapped"
  /\ stage \in {"start", "opened", "close", "exit", "failed"} => NoObject
  /\ stage \in {"start", "opened", "object"} => \A k \in Indices : "EXEC" \notin mem[k]
  /\ \A k \in Indices : "EXEC" \in mem[k] => k \notin dirty
  /\ stage = "running" => "EXEC" \in mem[obj.main]

(* Reading never exchanges the object.                                     *)
LEMMA SameObject == Next => obj' = obj
  BY DEF Next, ReadHeader, ReadSectionHeader, NextLoop, FirstPass, BuildNameMaps,
         SecondPass, TakeSections, ReadSection, Skip

(* Before the object is read, and where only the file is handled.          *)
LEMMA FileSteps ==
  ASSUME ClientInv, Usage \/ OpenMmapFile \/ DumpAndRunFile \/ UseNoObject \/ CloseMmapFile
  PROVE  ClientInv'
<1>1. /\ obj' = obj /\ mem' = mem /\ dirty' = dirty /\ common' = common
      /\ Indices' = Indices
  BY DEF Usage, OpenMmapFile, DumpAndRunFile, UseNoObject, CloseMmapFile, vars, memVars,
         Indices
<1>2. NoObject' <=> NoObject
  BY <1>1 DEF NoObject
<1>3. CASE Usage
  BY <1>1, <1>2, <1>3 DEF Usage, ClientInv
<1>4. CASE OpenMmapFile
  BY <1>1, <1>2, <1>4 DEF OpenMmapFile, ClientInv
<1>5. CASE DumpAndRunFile
  BY <1>1, <1>2, <1>5 DEF DumpAndRunFile, ClientInv
<1>6. CASE UseNoObject
  BY <1>1, <1>2, <1>6 DEF UseNoObject, ClientInv
<1>7. CASE CloseMmapFile
  BY <1>1, <1>2, <1>7 DEF CloseMmapFile, ClientInv
<1> QED BY <1>3, <1>4, <1>5, <1>6, <1>7

(* While the object is read its pages are not executable.                  *)
LEMMA ReadObjectInv ==
  ASSUME ClientInv, ReadObject
  PROVE  ClientInv'
<1>1. obj' = obj /\ Indices' = Indices
  BY SameObject DEF ReadObject, Indices
<1>2. mem' = [k \in Indices |-> IF InChunk(k)' THEN {"READ", "WRITE"} ELSE {}]
  BY DEF ReadObject
<1>3. \A k \in Indices : mem'[k] \in SUBSET {"READ", "WRITE"}
  BY <1>2
<1>4. mem' \in [Indices' -> SUBSET {"READ", "WRITE", "EXEC"}]
  BY <1>1, <1>2
<1>5. \A k \in Indices' : "EXEC" \notin mem'[k]
  BY <1>1, <1>3
<1>6. stage' \in {"object", "died"}
  BY DEF ReadObject
<1> QED BY <1>4, <1>5, <1>6 DEF ClientInv

(* A section becomes executable and clean at once, or stays as it was.     *)
LEMMA ProtectInv ==
  ASSUME ClientInv, Protect
  PROVE  ClientInv'
<1>1. /\ obj' = obj /\ Indices' = Indices /\ stage' \in {"protect", "relocated"}
  BY DEF Protect, vars, Indices
<1>2. CASE UNCHANGED <<mem, dirty>>
  BY <1>1, <1>2 DEF ClientInv
<1>3. ASSUME j \in Indices, mem' = [mem EXCEPT ![j] = Prot(j)],
             dirty' = dirty \ Flushed(j)
      PROVE  ClientInv'
  <2>1. Prot(j) \in SUBSET {"READ", "WRITE", "EXEC"}
    BY DEF Prot
  <2>2. mem' \in [Indices -> SUBSET {"READ", "WRITE", "EXEC"}]
    BY <1>3, <2>1 DEF ClientInv
  <2>3. \A k \in Indices : "EXEC" \in mem'[k] => k \notin dirty'
    <3> SUFFICES ASSUME NEW k \in Indices, "EXEC" \in mem'[k] PROVE k \notin dirty'
      OBVIOUS
    <3>1. CASE k = j
      BY <1>3, <3>1 DEF ClientInv, Flushed
    <3>2. CASE k # j
      BY <1>3, <3>2 DEF ClientInv
    <3> QED BY <3>1, <3>2
  <2> QED BY <1>1, <2>2, <2>3 DEF ClientInv
<1> QED BY <1>2, <1>3 DEF Protect, ProtectChunk

(* From the entries to the call, and back.                                 *)
LEMMA RunSteps ==
  ASSUME ClientInv, RelocateEntries \/ CallMain \/ MainReturns
  PROVE  ClientInv'
<1>1. obj' = obj /\ Indices' = Indices
  BY DEF RelocateEntries, CallMain, MainReturns, vars, Indices
<1>2. CASE RelocateEntries
  BY <1>1, <1>2 DEF RelocateEntries, ClientInv
<1>3. CASE CallMain
  BY <1>1, <1>3 DEF CallMain, memVars, ClientInv
<1>4. CASE MainReturns
  <2>1. CASE DeleteObject
    <3>1. mem' = [k \in Indices |-> {}] /\ dirty' = {} /\ common' = "none"
      BY <2>1 DEF DeleteObject
    <3>2. NoObject'
      BY <1>1, <3>1 DEF NoObject
    <3> QED BY <1>1, <1>4, <2>1, <3>1, <3>2 DEF MainReturns, ClientInv
  <2>2. CASE UNCHANGED <<mem, dirty, common>>
    BY <1>1, <1>4, <2>2 DEF MainReturns, ClientInv, NoObject, DeleteObject
  <2> QED BY <1>4, <2>1, <2>2 DEF MainReturns
<1> QED BY <1>2, <1>3, <1>4

(* The invariant of the client, for every file.                            *)
THEOREM ClientInvariant == ClientSpec => []ClientInv
<1>1. ClientInit => ClientInv
  BY DEF ClientInit, ClientInv, NoObject
<1>2. ClientInv /\ [ClientNext]_clientVars => ClientInv'
  <2> SUFFICES ASSUME ClientInv, [ClientNext]_clientVars PROVE ClientInv'
    OBVIOUS
  <2>1. CASE Usage \/ OpenMmapFile \/ DumpAndRunFile \/ UseNoObject \/ CloseMmapFile
    BY <2>1, FileSteps
  <2>2. CASE ReadObject
    BY <2>2, ReadObjectInv
  <2>3. CASE Protect
    BY <2>3, ProtectInv
  <2>4. CASE RelocateEntries \/ CallMain \/ MainReturns
    BY <2>4, RunSteps
  <2>5. CASE UNCHANGED clientVars
    BY <2>5 DEF clientVars, vars, fileVars, memVars, ClientInv, NoObject, Indices
  <2> QED BY <2>1, <2>2, <2>3, <2>4, <2>5 DEF ClientNext
<1> QED BY <1>1, <1>2, PTL DEF ClientSpec

(* Every path on which the client ends gives back what it has taken.       *)
THEOREM NothingHeldHolds == ClientSpec => []NothingHeld
<1>1. ClientInv => NothingHeld
  BY DEF ClientInv, NothingHeld, NoObject
<1> QED BY <1>1, ClientInvariant, PTL

(* main runs in executable pages, and none that can be executed is stale.  *)
THEOREM RunsFreshHolds == ClientSpec => []RunsFresh
<1>1. ClientInv => RunsFresh
  BY DEF ClientInv, RunsFresh
<1> QED BY <1>1, ClientInvariant, PTL

-----------------------------------------------------------------------------
(* The client reads as ObjectReader says: what is proved of the reader     *)
(* holds in the client.                                                    *)
LEMMA ClientStep == [ClientNext]_clientVars => [Next]_vars
BY DEF ClientNext, clientVars, Usage, OpenMmapFile, DumpAndRunFile, ReadObject,
       UseNoObject, RelocateEntries, Protect, CallMain, MainReturns, CloseMmapFile

(* dump_and_run_object drives ELFObject::read (main.cpp:141-167).          *)
THEOREM ClientReads == ClientSpec => Spec
<1>1. ClientInit => Init
  BY DEF ClientInit
<1> QED BY <1>1, ClientStep, PTL DEF ClientSpec, Spec

(* Under the client, too, no section is kept half read.                    *)
THEOREM ClientReaderInv == ClientSpec => []ReaderInv
BY ClientReads, ReaderInvariant, PTL

(* Only sections that have been read have memory, and nothing is made      *)
(* executable before the end of reading.                                   *)
HeldInv ==
  /\ \A k \in Indices : mem[k] # {} => stab[k] = "loaded"
  /\ \A k \in Indices : "EXEC" \in mem[k] => pc = "loaded"
  /\ stage \in {"protect", "relocated", "running"} => pc = "loaded"

LEMMA HeldNext ==
  ASSUME ClientInv, HeldInv, [ClientNext]_clientVars
  PROVE  HeldInv'
<1>1. obj' = obj /\ Indices' = Indices
  BY SameObject DEF ClientNext, clientVars, vars, Usage, OpenMmapFile, DumpAndRunFile,
     ReadObject, UseNoObject, RelocateEntries, Protect, CallMain, MainReturns,
     CloseMmapFile, Indices
<1>2. CASE ReadObject
  <2>1. stage' \in {"object", "died"}
    BY <1>2 DEF ReadObject
  <2>2. \A k \in Indices : mem'[k] # {} => stab'[k] = "loaded"
    BY <1>2 DEF ReadObject, InChunk
  <2>3. \A k \in Indices : "EXEC" \notin mem'[k]
    BY <1>2 DEF ReadObject
  <2> QED BY <1>1, <2>1, <2>2, <2>3 DEF HeldInv
<1>3. CASE Usage \/ OpenMmapFile \/ DumpAndRunFile \/ UseNoObject \/ RelocateEntries
           \/ CallMain \/ CloseMmapFile \/ UNCHANGED clientVars
  <2>1. UNCHANGED <<vars, mem>>
    BY <1>3 DEF Usage, OpenMmapFile, DumpAndRunFile, UseNoObject, RelocateEntries,
                CallMain, CloseMmapFile, clientVars, memVars
  <2>2. stage' \in {"protect", "relocated", "running"} => pc = "loaded"
    BY <1>3 DEF Usage, OpenMmapFile, DumpAndRunFile, UseNoObject, RelocateEntries,
                CallMain, CloseMmapFile, clientVars, fileVars, HeldInv
  <2> QED BY <1>1, <2>1, <2>2 DEF HeldInv, vars
<1>4. CASE Protect
  <2>1. pc = "loaded" /\ UNCHANGED vars
    BY <1>4 DEF Protect, HeldInv
  <2>2. \A k \in Indices : mem'[k] # {} => stab[k] = "loaded"
    BY <1>4 DEF Protect, ProtectChunk, InChunk, HeldInv, ClientInv
  <2> QED BY <1>1, <2>1, <2>2 DEF HeldInv, vars
<1>5. CASE MainReturns
  <2>1. \A k \in Indices : mem'[k] # {} => mem[k] # {}
    BY <1>5 DEF MainReturns, DeleteObject
  <2> QED BY <1>1, <1>5, <2>1 DEF MainReturns, HeldInv, vars
<1> QED BY <1>2, <1>3, <1>4, <1>5 DEF ClientNext

(* Whatever file the client is given, and wherever it was cut: what it may *)
(* execute, and the tables that patch it, have come from the file whole,   *)
(* where their offsets are offsets (main.cpp:141-167 over                  *)
(* ELFObject.hxx:51-77 and 455-506).                                       *)
THEOREM ExecutesWholeHolds == ClientSpec => []ExecutesWhole
<1>1. ClientInit => HeldInv
  BY DEF ClientInit, HeldInv
<1>2. ClientInv /\ HeldInv /\ [ClientNext]_clientVars => HeldInv'
  BY HeldNext
<1>3. ASSUME ClientInv, HeldInv, ReaderInv, PatchedFromFile PROVE ExecutesWhole
  <2> SUFFICES ASSUME NEW k \in Indices, "EXEC" \in mem[k]
               PROVE  /\ pc = "loaded" /\ FromFile(k)
                      /\ \A r \in Indices :
                           Sec(r).type = "REL" /\ Named(Sec(r).target) = k => FromFile(r)
    BY DEF ExecutesWhole
  <2>1. pc = "loaded" /\ stab[k] = "loaded"
    BY <1>3 DEF HeldInv
  <2>2. FromFile(k)
    BY <1>3, <2>1 DEF ReaderInv, ReadToTheEnd, FromFile
  <2> QED BY <1>3, <2>1, <2>2 DEF PatchedFromFile, FromFile
<1> QED BY <1>1, <1>2, <1>3, ClientInvariant, ClientReaderInv, ClientReads,
        PatchedFromFileHolds, PTL DEF ClientSpec

-----------------------------------------------------------------------------
(* What the client has yet to do at most: its stages, the reading of the   *)
(* object, and the sections to protect.                                    *)
StagesAhead ==
  CASE stage = "start"     -> 7
    [] stage = "opened"    -> 6
    [] stage = "object"    -> 5
    [] stage = "protect"   -> 4
    [] stage = "relocated" -> 3
    [] stage = "running"   -> 2
    [] stage = "close"     -> 1
    [] OTHER               -> 0
ClientEffort == StagesAhead + Effort + (obj.shnum - j)

(* The loop that protects stays inside the section header table.           *)
ProtectInTable == j \in 0 .. obj.shnum

LEMMA ProtectInTableNext ==
  ASSUME ReaderInv, ProtectInTable, [ClientNext]_clientVars
  PROVE  ProtectInTable'
<1>1. obj' = obj /\ obj.shnum \in Nat
  BY SameObject, ObjectFacts
     DEF ClientNext, clientVars, vars, Usage, OpenMmapFile, DumpAndRunFile,
         ReadObject, UseNoObject, RelocateEntries, Protect, CallMain, MainReturns,
         CloseMmapFile, ReaderInv, TypeOK
<1>2. j' = j \/ (j \in Indices /\ j' = j + 1)
  BY DEF ClientNext, clientVars, memVars, Usage, OpenMmapFile, DumpAndRunFile,
         ReadObject, UseNoObject, RelocateEntries, Protect, CallMain, MainReturns,
         CloseMmapFile
<1> QED BY <1>1, <1>2 DEF ProtectInTable, Indices

(* Every step of the client lowers what it has yet to do.                  *)
LEMMA ClientStepLowersEffort ==
  ASSUME ReaderInv, ReaderInv', ProtectInTable, ClientNext
  PROVE  ClientEffort' < ClientEffort
<1>1. /\ obj' = obj /\ obj.shnum \in Nat /\ j \in 0 .. obj.shnum
      /\ Effort \in Int /\ Effort' \in Int
  <2>1. obj' = obj
    BY SameObject
       DEF ClientNext, vars, Usage, OpenMmapFile, DumpAndRunFile, ReadObject,
           UseNoObject, RelocateEntries, Protect, CallMain, MainReturns, CloseMmapFile
  <2>2. obj.shnum \in Nat
    BY ObjectFacts DEF ReaderInv, TypeOK
  <2>3. Effort \in 0 .. 7 * (obj.shnum + 1)
    BY EffortBound
  <2>4. Effort' \in Int
    <3>1. i' \in 0 .. obj.shnum
      BY <2>1 DEF ReaderInv, TypeOK
    <3> QED BY <2>1, <2>2, <3>1 DEF Effort, LoopsAhead
  <2> QED BY <2>1, <2>2, <2>3, <2>4 DEF ProtectInTable
<1>2. StagesAhead \in 0 .. 7 /\ StagesAhead' \in 0 .. 7
  BY DEF StagesAhead
<1>3. CASE ReadObject
  <2>1. Effort' < Effort /\ j' = j
    BY <1>3, StepLowersEffort DEF ReadObject
  <2>2. StagesAhead' <= StagesAhead
    BY <1>3 DEF ReadObject, StagesAhead
  <2> QED BY <1>1, <1>2, <2>1, <2>2 DEF ClientEffort
<1>4. CASE ~ReadObject
  <2>1. UNCHANGED vars
    BY <1>4 DEF ClientNext, Usage, OpenMmapFile, DumpAndRunFile, UseNoObject,
                RelocateEntries, Protect, CallMain, MainReturns, CloseMmapFile
  <2>2. Effort' = Effort
    BY <2>1 DEF vars, Effort, LoopsAhead
  <2>3. \/ StagesAhead' < StagesAhead /\ j' = j
        \/ StagesAhead' = StagesAhead /\ j' = j + 1
    BY <1>4 DEF ClientNext, Usage, OpenMmapFile, DumpAndRunFile, UseNoObject,
                RelocateEntries, Protect, CallMain, MainReturns, CloseMmapFile,
                memVars, StagesAhead
  <2> QED BY <1>1, <1>2, <2>2, <2>3 DEF ClientEffort
<1> QED BY <1>3, <1>4

(* No file and no refusal keeps the client busy for ever: apart from main, *)
(* which may, it takes at most so many steps as seven rounds of the        *)
(* sections to read, one to protect, and its seven stages (main.cpp:41-72, *)
(* 141-167, ELFObject.hxx:49-75, 498-506).                                 *)
THEOREM ClientProgress ==
  ClientSpec => /\ [](ClientEffort \in 0 .. 8 * (obj.shnum + 1) + 7)
                /\ [][ClientEffort' < ClientEffort]_clientVars
<1>1. ReaderInv /\ ReaderInv' /\ ProtectInTable /\ [ClientNext]_clientVars
        => [ClientEffort' < ClientEffort]_clientVars
  BY ClientStepLowersEffort
<1>2. ReaderInv /\ ProtectInTable => ClientEffort \in 0 .. 8 * (obj.shnum + 1) + 7
  <2> SUFFICES ASSUME ReaderInv, ProtectInTable
               PROVE  ClientEffort \in 0 .. 8 * (obj.shnum + 1) + 7
    OBVIOUS
  <2>1. obj.shnum \in Nat /\ j \in 0 .. obj.shnum
    BY ObjectFacts DEF ReaderInv, TypeOK, ProtectInTable
  <2>2. Effort \in 0 .. 7 * (obj.shnum + 1) /\ StagesAhead \in 0 .. 7
    BY EffortBound DEF StagesAhead
  <2> QED BY <2>1, <2>2 DEF ClientEffort
<1>3. ClientInit /\ ReaderInv => ProtectInTable
  BY ObjectFacts DEF ClientInit, ProtectInTable, ReaderInv, TypeOK
<1>4. ReaderInv /\ ProtectInTable /\ [ClientNext]_clientVars => ProtectInTable'
  BY ProtectInTableNext
<1> QED BY <1>1, <1>2, <1>3, <1>4, ClientReaderInv, PTL DEF ClientSpec
===============================================================================
