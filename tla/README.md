# Verification of the ELF link-loader

TLA+ models of the loader in `src/`, TLC configurations that check them on small
objects, and TLAPS proofs of the theorems that hold for every object.

The program takes an ELF relocatable object in memory (32 bit ARM, MIPS, x86, or
64 bit x86), reads its tables, gives memory to its sections and variables, patches the
code for the addresses that came out, and hands symbol addresses to its client
(`rsloaderCreateExec` and the other functions of `android/librsloader.cpp`). It is
sequential: no threads, no signals, no persistent state. What is hard about it is
*order* (of sections in the file, of relocation entries, of a client's requests),
*budgets computed in advance* and drawn upon later, *failures that do not stop it*, and
*arithmetic at the edges* of fields, halves, signs and address spaces.

## 1. Inventory

| Part | Code | State | Operations | Correct when |
|---|---|---|---|---|
| Archive reader | `utils/serialize.h`, `utils/traits.h`, the `serialize()` of every structure | `cursor`, `cursor_base`, sticky `good` flag | `seek`, `readBytes`, realignment, `prologue`/`epilogue`, byte swapping | a field comes from where the ABI has it, in the right byte order; a read that ends behind the buffer poisons all later ones (one that starts before it is not noticed) |
| Object reader | `ELFObject::read`, `ELF*::read` | `header`, `shtab`, `stab` (sections or NULL) | header, section headers, two passes over the sections, name maps | no section is kept half read; the symbol table is there before the stubs are counted |
| Symbols | `ELFSymbol.h`, `ELFSymbol.hxx` | `my_addr`, the cached address | `getAddress`, `setAddress` | the address never changes once known |
| Memory for variables | `SHNCommonData*` in `ELFObject.h`, first loop of `relocate` | chunk, free pointer, free size | count, `initSHNCommonDataSize`, `allocateSHNCommonData` | pieces are aligned, separate, inside the chunk; the chunk always suffices |
| Relocation | `ELFObject::relocate*` | the patched words, the bound symbols | one relocator per machine, per section, per entry | words agree, lead where the entry says, and none is left without an address that could have one |
| Stub layout | `StubLayout.cpp`, `ELFSectionProgBits.hxx` | next slot and slots left, per section | `initStubTable`, `allocateStub`, `setStubAddress` | stubs suffice, stay in the section, are not shared, and go to their function |
| Memory chunks | `MemChunk.cpp`, `ELFSectionBits.hxx` | mapping, permissions, what the instruction cache has seen | `allocate`, `protect`, destructor | sealed only when patched, executed only when flushed, given back |
| C API | `android/librsloader.cpp` | the object | create, dispose, address, size, count and names of functions | answers agree with each other and with the code |
| Name maps | `ELFSectionHeaderTable.hxx`, `ELFSectionSymTab.hxx` | name to section or symbol | `buildNameMap`, `getByName` | last one of a name wins |
| Command line client | `main.cpp` | descriptor and mapping of the file, the object | open, identify, read, relocate, call `main`, close | nothing is held when it ends; a file that is not loaded is refused |
| Stub test | `tests/stub-test.cpp` | a `StubLayout` on its own | ask for two stubs, call them | the test passes |
| Printing, other tests, build | `lib/ELF*.cpp`, `utils/*`, `tests/`, build files | none that the loader uses | | not modelled |

How they interact. `rsloaderCreateExec` calls `ELFObject::read`, which drives one
archive reader over the whole file and creates the sections, and then `relocate`.
`relocate` counts what the variables may need, maps one chunk, and calls a relocator
for every relocation section; each entry calls `ELFSymbol::getAddress`, which may call
back into the object's allocator, and, for what the object does not define, the
client's `find_sym` callback. On ARM the answer is hidden behind a stub in the section
being patched, and the *stub* becomes the symbol's cached address for the rest of the
object's life. Later `rsloaderGetSymbolAddress` calls `getAddress` again, and may still
allocate. Assertions (`rsl_assert`) stop the process; the repository never builds
without them, so every failed one is an *abort* in the models.

The hazards are listed, each with its line and the properties that cover it, in
`PROJECT.json`.

## 2. The modules

| Module | Models | State and actions, and the code they stand for |
|---|---|---|
| `Archive` | one read of an archive reader: the header, or a table of section headers, symbols or relocation entries, field by field | `Prologue`, `ReadField` (`operator&`: realign, copy, swap, advance), `Epilogue` with its assertion, `Finish` (the loop of the table, `isValid` of the header); the bytes of the file are represented by their positions. `Position` is `seek`: pointers wrap at the end of the address space, and only their upper end is tested; a read before the buffer takes what is there, or the process dies |
| `ObjectReader` | `ELFObject::read` over an archive, until `relocate` takes the sections | `ReadHeader`, `ReadSectionHeader`, `FirstPass`, `BuildNameMaps`, `SecondPass`, `TakeSections`, and `NextLoop` between them; a read is `GoodAfter` (it may end behind the file) or `Stray` (it is before the file, and the access ends the process) |
| `ELFSymbol` | the decision table of `getAddress`, and what the counting loop adds per symbol | no state; `IsCommonData`, `IsSectionData`, `IsUndefined`, `HasNoAddress` split the nested switches, `Demand` is the loop body |
| `VariableStorage` | the abstract promise: every variable gets an aligned place of its own that never moves | `Reserve`, `Place`, `Refuse` |
| `SymbolBinding` | the abstract promise of relocation: a symbol is bound at most once, every word is written at most once, with the address its symbol has for good, and relocation is complete only when every word is written | `Write`, `Refuse`, `Complete` |
| `SHNCommonData` | counting, mapping, allocation, `getAddress` with its cache | `CountSymbol` (one iteration), `InitCommonData`/`InitCommonDataFails` (mmap grants or refuses), `RelocateAgainst`, `SetAddress`, `EndRelocate`, `GetSymbolAddress`; `AllocateSHNCommonData` is the whole allocator with its four outcomes |
| `Relocate` | the second and third loop of `relocate`, and the four relocators: what every entry binds, and why the process stops | `Reaches` is the range test of a branch, with the addend in its word and the sign of an `Inst_t`; `machine` is a variable; one action per case of the switches (`ARM_ABS32`, `ARM_CALL`, `ARM_CALL_extern`, `ARM_CALL_wrong_type`, `ARM_MOV`, `X86_entry`, `MIPS_entry`, `MIPS_26`, `MIPS_26_addend`, `UnknownType`, `NoAddress`), `NextSection`, `MissingSection`, `BeginProtect`, `Protect`, `Return` |
| `Fixups` | the words the same entries write, and what the processor makes of them | an object is one or two words in a row with entries against one symbol; `ARM_ABS32`, `ARM_CALL`, `ARM_MOV`, `Absolute`, `PcRelative`, `MIPS_HI16`, `MIPS_LO16`, `MIPS_26`; the bit operations are written as the arithmetic they do, in words of a parameter's width, signed as `Inst_t` is |
| `Exec` | the C API on a loaded object, over the symbol name map; EXTENDS `SHNCommonData` | `CreateExec`, `AskUnknown`, `AskSettled` (the address is cached, or `getAddress(false)` answers NULL), `AskFresh` (a question that gives memory or aborts), `DisposeExec`; `SymbolSize`, `FuncCount`, `FuncNameList` are the functions that change nothing |
| `Client` | `main.cpp` from its arguments to its end; EXTENDS `ObjectReader` | `Usage`, `OpenMmapFile`, `DumpAndRunFile`, `ReadObject` (any step of the reader), `UseNoObject`, `RelocateEntries`, `Protect` (each section, which mprotect may refuse), `CallMain`, `MainReturns` (the object is deleted), `CloseMmapFile` |
| `StubTest` | `tests/stub-test.cpp` over a `StubLayout` nobody gave a table | `Declare`, `Examine`, with `AllocateStub` |
| `MCArchive`, `MCObjectReader`, `MCSHNCommonData`, `MCRelocateARM`, `MCRelocate`, `MCFixups`, `MCExec`, `MCClient` | the small objects TLC checks | constants only |
| `ArchiveProofs`, `ObjectReaderProofs`, `SHNCommonDataProofs`, `RelocateProofs`, `FixupsProofs`, `ExecProofs`, `ClientProofs` | the theorems | |
| `NumberFacts` | lemmas they share: a set of indices that is not empty has a greatest one; what a step preserves holds for all of an interval (`SetInduction`, `StepByStep`); quotients, remainders and congruence | |

The modules divide one call of `rsloaderCreateExec` between them. `Archive` shows what
a read of a structure or a table does, field by field: it is whole, or nothing, or an
abort. `ObjectReader` takes each such read for one step (`ReadsAsAssumed` is that
assumption, checked and proved, for tables in the address space; where an offset leads out
of it, `ObjectReader` allows every outcome that `Archive` has). It ends where `relocate` begins.
`SHNCommonData` and `Relocate` both EXTEND `ELFSymbol` and split the work of
`relocate`: `SHNCommonData` leaves the relocator open (any symbol may be asked for
at any time), `Relocate` takes the places of variables as given (`VarAddr`), which is
what `SHNCommonData` is proved to provide. `Relocate` represents a word by the address
it was computed from and has many sections, symbols and entries; `Fixups` has the
words themselves, and one symbol. `Exec` begins with `SHNCommonData` and goes on when the
object is loaded; `Client` begins with `ObjectReader` and goes on to `main`, with
relocation as one step that may fail in the ways `Relocate` shows.

Operators marked *for the sensitivity runs* are wrong versions of a definition, kept
next to it: with one of them in its place TLC must find a property violated.

What the models leave out on purpose: the contents of sections, names and strings as
bytes, and the wording of messages.

## 3. The runs

| Run | Question | Outcome |
|---|---|---|
| `archive` | does every field come from where the ABI has it, and is a table in the address space kept exactly if it is aligned and whole, and what becomes of others? | holds (113 768 states) |
| `reader` | what is in memory after reading an object cut at any byte, with offsets inside and outside the address space? | holds (44 823 states) |
| `common` | does one chunk sized in advance serve all variables, in all orders? | holds (29 800 states) |
| `common_mmapfail` | is a refused mapping reported before relocation, as the assertion at `ELFObject.hxx:452` says? | violated: the assertion tests a string literal |
| `relocate_arm` | do stubs suffice and stay inside, and is every symbol bound once, every word written once, with the address that stays (`SymbolBinding`)? | holds (33 606 states) |
| `relocate_others` | on x86 and MIPS, is a word left without an address only for a symbol `find_sym` does not know, and is `SymbolBinding` implemented? | holds (11 455 states) |
| `relocate_mips_region` | does the assertion at `ELFObject.hxx:395` stop only jumps to another region? | violated: its comparison is the wrong way round |
| `fixups` | do the words that are written make the processor go, or point, where the entry says? | holds (124 154 states) |
| `exec` | are the addresses a client is told final, apart, and NULL only where they have to be, and does the list of functions fit? | holds (24 574 states) |
| `client` | does the client give everything back, does `main` run only in fresh executable pages, with code that came whole from the file if its offset is an address, and does every file lead to `main` or to an end? | holds (8 412 states) |
| `client_null` | is a file that could not be loaded refused, as the message at `main.cpp:148` says? | violated: the client goes on with the null pointer |
| `stub_test` | does a new `StubLayout` give stubs, as `tests/stub-test.cpp` expects? | violated: it has none |

What the properties say, in one line each:

* `AsTheABI`: every field of every entry that is kept has come from the ABI's offset,
  in the byte order of the archive, whatever the processor's is. `ReadsAsAssumed`: the
  process stops exactly for a table that has an entry and is not aligned, however short
  the file is; otherwise the table is kept exactly if the file holds all of it, and no
  byte outside the file is touched. Both speak of tables that end in front of the end of
  the address space (`Addressable`); of others the code promises nothing (section 5).
  `OnlyOwnKind`: a header is accepted only by a reader for its class and byte order,
  although the library never looks at either before it reads.
* `ReadToTheEnd`: no section is kept half filled, if its offset is in the address space
  (`HasPlace`). `NeverBlind`: stubs are never counted
  before the symbol table is in memory. `TablesInMemory`: after `read` the three tables
  names come from are there. `PatchedFromFile`: what relocation takes, with such an
  offset, came from the file.
  `WholeFileLoads`: a complete, aligned file is never refused, up to its last byte.
  `NothingAfterACut`: when one section is given up for a bad archive, nothing read after
  it is kept, in either pass, wherever its offset leads.
* `PoolInv`: the sum of the loop is the demand of the symbols; used and free bytes add
  up to the chunk whatever was padded away; what is free suffices for *all* pending
  variables at their worst padding; pieces are inside and apart. `NeverExhausted`: the
  abort for a chunk that is too small cannot happen. `MissedOnlyIfRefused`: an object
  without variables (for which `mmap(0)` always fails) does not miss its chunk.
  `ImplementsStorage`: refinement of `VariableStorage`.
* `StubInv`: every section keeps a stub for every external function that has no
  address, and its slots end inside its mapping. `NeverOutOfStubs`: the process never
  exits for want of a stub. `CallsLand`: a call reaches its function directly or by a
  stub that still leads to it. `SitesCurrent`: a word holds the
  address its symbol still has. `ImplementsBinding`: refinement of `SymbolBinding`, from
  which it follows that all words bound to a symbol agree (`SitesAgree`, proved only). `Unresolved`: only `R_ARM_ABS32`, or an
  unknown symbol, leaves a word without an address. `FarOnlyIfBoundBefore`: "Stub is
  still too far" strikes an external function only if an earlier entry bound it, or the
  section's own stubs are out of the reach of this branch (`OwnStubsNear`): by the size of
  the section, by the addend in the word, or because 2 GB lie between.
  `SealedComplete`: sections are sealed after *all* of them are patched. `Terminates`.
* `BranchArrives`: a patched branch, with the processor's pipeline and through the
  stub's load, arrives where its addend says. `FarOnlyIfFar`: a branch that is given up
  could not have been made, if both ends lie on one side of 2 GB. `MovPairGives`:
  a movw/movt pair gives symbol plus addend, and 2^16 less when the lower halves carry.
  `HiLoPairGives`: a lui/addiu pair with empty immediates gives the symbol.
  `PcLeads`: a PC-relative word leads to symbol plus addend, on x86_64 whenever the
  distance fits 32 bits. `LowAddressExact`: below 2 GB, where `MAP_32BIT` keeps the
  object, the 32-bit arithmetic of the x86_64 relocator loses nothing. `OtherBitsKept`:
  operation, condition and registers of an instruction survive the patch.
* `AnswersHold`: whatever a client has been told of a name stays the address of its
  symbol, although a question may still allocate. `AnswersApart`: addresses of two
  variables lead to disjoint memory as far as `rsloaderGetSymbolSize` says, those from
  relocation and those from questions alike. `NullOnlyIfUnused`: NULL is the answer for
  an unknown name, an undefined symbol or a common no entry refers to, never for a
  variable of a NOBITS section. `ListServes`: the list of functions fills a
  buffer of the size `rsloaderGetFuncCount` asks for and overruns none, and its names
  are answered.
* `NothingHeld`: descriptor, file mapping, sections and variables are released on every
  path on which the client ends itself. `RunsFresh`: `main` runs in executable pages,
  and no page that can be executed has changes the instruction cache has not seen,
  whatever mprotect refuses. `ExecutesWhole`: code that can be executed has come whole
  from the file, and so has every relocation table that patches it, where their offsets are
  in the address space. `Ends`: every file leads to `main` or to an end.

### Bounds, and why they are enough

* `archive`: all five structures, both classes, byte orders and kinds of processor;
  tables of 0 to 2 entries at offsets 0, 4 and 6 (aligned for both classes, for one, for
  none), and files that end at every byte up to one behind the table. The header is
  also read by the library's 32 bit little-endian reader when it is something else. The
  numbers are the real ones, but for the addresses, of which there are 8192 (`AddrMod`):
  further tables have an offset of up to 300 bytes in front of their end, so that they are
  read before the file, from it again, from NULL, or across the start of memory.
* `reader`: 15 layouts (as compilers write them, contents at the end, odd offsets, no
  symbol table, wrong magic, target section lost; code, names, relocations, symbols or the
  section headers before the file, at NULL, or across the end of the 256 addresses), each cut at 0 to 100 bytes of a file
  scaled to 98 or fewer, so every read of every structure fails once. mmap may refuse
  each section on its own.
* `common`: tables of 3 symbols over 9 kinds, which are all the outcomes of `getAddress`
  plus a common aligned beyond the page and one without a size. Padding needs two
  pieces, separation a third. Addresses are scaled (page 8, `SizeMod` 128): no sum wraps,
  as in an object that fits its address space.
* `relocate_arm`: 3 relocated sections, two of them out of reach of each other's stubs,
  4 undefined symbols (near, far, unknown to `find_sym`, and the null entry), up to
  `MaxRelocs` = 4 of 18 entries, in every order. Two entries make a pair of halves or of
  calls, the third and fourth come from another section. `CallReach` is 20 words instead
  of 2^23, and there are 8192 addresses: `.init` lies below their middle, where the sign of
  an `Inst_t` changes, and its stubs across it; one call has an addend of 19 words.
* `relocate_others`: 3 sections, one of which is not in memory, and up to 4 of the
  entries of x86 or of MIPS; the text section straddles a boundary of the scaled region
  of `RegionSize` = 4096 bytes.
* `fixups`: words of 8 bits instead of 32, offsets of branches and halves of 4 bits,
  jumps of 4 bits, the 2 GB boundary at 128, and 10 bits for x86_64 addresses. The
  proportions are kept where a property depends on them: two halves make a word, the
  jumps of all regions cover it, and a pointer is wider than it. Places lie before
  and behind every boundary, and targets everywhere, so that every comparison is made
  on both sides of its limit. Three addends per kind, the words around them not zero.
* `exec`: 3 symbols of 5 kinds, two of one name, and a name nobody has: a question about
  the last symbol of a name, about an earlier one that is hidden, and about none; every
  room of the buffer from 0 to 3.
* `client`: a small object with a NOBITS section, the same with an odd table, without
  symbols, with sections both writable and executable, with code that is not executable,
  with a name `find_sym` does not know, without `main`, with its code at the end of the file, or at an offset that leads before it, and a file that is no object, each
  cut at 0 to 58 bytes.

### Fairness

`Relocate` assumes `WF_vars(Next)`: the code is a sequence of loops without a wait, so
it keeps taking steps. `Client` assumes the same of its process except while `main`
runs, which may do so for ever. Nothing else is assumed; the other properties are safety
properties. Deadlock is switched off in all runs because the loader ends, by returning or
by an abort.

## 4. The proofs

TLAPS checks, for every value of the constants that satisfies the named assumptions
(well-typed objects; the file, as mmap gives it, ends two structures before the address
space does). Offsets and sizes in the file are any natural numbers. The properties of
`Archive`, `ObjectReader` and `Client` that say what has come from the file carry the
premise that the table or section lies in the address space (`Addressable`, `HasPlace`);
for those whose offset leads out of it they claim nothing, because the code follows such
an offset before the buffer. `NeverBlind`, `TablesInMemory`, `NothingAfterACut` and the
bounds on the number of steps have no such premise.

* **`ArchiveInvariant`** (`ArchiveProofs`, from `JobsAssumption`: a table is read only
  after the header was accepted, at the width and byte order it states; the file and room
  for two structures fit the address space). In an aligned table that is `Addressable` the
  cursor is always where the ABI has the next field (the structures have no
  holes, so realignment never moves it: lemma `Shape`), and the archive is good as long
  as the cursor has not passed the end of the file. In one that is not aligned it is *ahead* of that
  place from the widest field on, so that `epilogue` aborts in the first entry. The
  three properties alone are not inductive; this comparison of the cursor with the offset
  is what carries them. From it `AsTheABIHolds`, `ReadsAsAssumedHolds`,
  `OnlyOwnKindHolds` (the header is always in the address space; the bytes of `e_version` read differently in the other order).
* **`ReaderInvariant`** (`ObjectReaderProofs`). A position is the place of a pointer, by
  the remainder of an address; for a read that is `HasPlace` the pointer neither wraps nor
  lies before the file (lemmas `PlainPosition`, `AddressableReads`), which is what lets
  the test on its end decide. `NeverBlind` is not inductive: a symbol
  table that lay in a `PROGBITS` section would be missing in the second pass. `ReaderInv`
  adds that no section that waits is in memory before the second pass (`Waiting`), so
  that the tables found between the passes are none of these (`TablesSettled`), and that
  the sections relocation has passed were there (`TakenSoFar`). From it
  `ReadToTheEndHolds`, `NeverBlindHolds`, `TablesInMemoryHolds` and `PatchedFromFileHolds`.
  `NothingAfterACutHolds` adds that the archive is not good after a section is given up.
  `WholeFileLoadsHolds` has an invariant of its own, `LoadInv`: what the loop has
  not reached is untouched (`Untouched`), and as long as mmap refuses nothing, reading a
  whole file is good and every section it has passed is in memory (`Loading`).
  `ReaderProgress` bounds the number of steps: `Effort`, what the loops still have to do,
  is at most `7 * (shnum + 1)`, and every step lowers it.
* **`PoolInvariant`** (`SHNCommonDataProofs`). The inductive invariant is `PoolInv`
  itself. `NeverExhausted` alone is not inductive; what carries it is `PendingFits`: free
  bytes cover size *and alignment* of every variable that has not been given its piece.
  A request takes at most the variable's own share of the sum, whatever the padding, so
  the rest stays covered. The sum over a set of symbols is written as the cardinality of
  a set of tokens, one per byte, so that it can be reasoned about with
  `FiniteSetTheorems`. From it: `TypeCorrect`, `NeverExhaustedHolds`,
  `MissedOnlyIfRefusedHolds`, and the refinement `ImplementsStorageHolds` (initial states
  to initial states, each action to a step of `VariableStorage` or a stutter).
* **`StubInvariant`** (`RelocateProofs`). A stub is taken only by a function without an
  address, and gives it one unless it would be at address 0; so the number of external
  functions without an address never exceeds the stubs left in *any* section. From it
  `NeverOutOfStubsHolds`. `SitesCurrentHolds` and `SitesAgreeHolds` come from the
  invariant that a bound symbol is never bound again. So does the refinement
  `ImplementsBindingHolds`: every entry that is applied is a `Write` of its word, every
  stop a `Refuse`, and the end of the last section `Complete`, for which an invariant on
  the loop indices says that no listed entry was passed over. `SealedCompleteHolds` comes from the
  same loop indices; `UnresolvedHolds` from what each case of the switches writes.
  `CallsLandHolds` uses the assumption `ChunksApart`, that mmap gives sections separate
  memory: a stub, once written, is then never written again. `FarOnlyIfBoundBeforeHolds`
  needs no hypothesis on sizes: its third case, `OwnStubsNear`, says for which branches the
  stubs of the section are near, and the proof is that of the range test with signs and
  addend for all of these stubs. From `WholeWords`: an address space of whole words, and
  branch offsets that fit their field.
  `RelocateProgress`: in an object with finitely many entries and sections (`FiniteObject`,
  true of any file) every step lowers a natural number, so relocation cannot go on for
  ever. `LoadedJumpsMiss` is finding 1 for every object: with the assertion as it is
  written, an `R_MIPS_26` that gets through leads to another region than its place.
* **`FixupsInvariant`** (`FixupsProofs`, from `FixupsAssumption`: how the widths of words,
  halves and fields depend on each other, words at multiples of 4). `FixupsInv` ties
  every patched word to the address the symbol still has, every other word to the object,
  and an ARM function that has a stub to the two words of that stub. The six properties
  then follow from it by the arithmetic of `NumberFacts`: words are compared as numbers
  congruent modulo the width. From it `BranchArrivesHolds`, `FarOnlyIfFarHolds`,
  `MovPairGivesHolds`, `HiLoPairGivesHolds`, `PcLeadsHolds`, `LowAddressExactHolds`, for
  the real widths as for the scaled ones.
  `KeptInvariant` says of every word, patched or not, what its patch has to keep; from it
  and `FixupsInv`, `TypeCorrect` and `OtherBitsKeptHolds`. The code merges two halves with
  a bitwise or; the model's `Merged` and `Power` are recursive functions over the bits, and
  the proof uses their equations and that `Half` is a power of two (2^16 in the code).
* **`ExecRefines`** (`ExecProofs`): every behaviour with a client is a behaviour of
  `SHNCommonData` (a question is one of its requests or a stutter), so `PoolInvariant`
  holds of it. **`ExecInvariant`**: an answer of 0 is only given for symbols that
  `getAddress(false)` never gives an address to, so it is never overtaken; any other
  answer is a cached address. From it `AnswersHoldHolds`, `NullOnlyIfUnusedHolds`, and,
  with the separation of the pieces, `AnswersApartHolds`. `ListServesHolds` is an invariant
  of the two loops over the symbol table, proved of each prefix of it: the names listed so
  far are as many as the functions counted so far.
* **`ClientInvariant`** (`ClientProofs`): which of descriptor, mapping and pages are held
  at which stage, that no page is executable before the last entry is patched, and that
  none is dirty from the moment it becomes executable. From it `NothingHeldHolds` and
  `RunsFreshHolds`. `ClientReads` shows that a client is an `ObjectReader` with something
  around it, so that all that is proved of the reader holds in the client; together with
  `HeldInv` (only what has been read has memory, and nothing is executable before the end
  of reading) it gives `ExecutesWholeHolds`. `ClientProgress` adds the client's own loop
  to the reader's effort: from its arguments a client takes at most
  `8 * (shnum + 1) + 7` steps.

Induction over data is done without the library's induction theorems, whose parameter is
an operator: `SetInduction` and `StepByStep` in `NumberFacts` speak of the *set* of numbers
of which something holds, which can be an ordinary parameter.

Only model-checked: that a step is always taken, which is the fairness in `Terminates` and
`Ends`. Their other half, that only so many steps can be taken, is proved
(`RelocateProgress`, `ClientProgress`).

## 5. Findings

1. `ELFObject.hxx:395`: the assertion on `R_MIPS_26` stops exactly the jumps that work
   (`LoadedJumpsMiss` proves it of every object).
2. `ELFObject.hxx:452`: the assertion on the chunk for variables never fires.
3. `main.cpp:151`: the client uses the object it has just reported as not loaded.
4. `StubLayout.cpp:40`: a layout without a table has no stubs, so that
   `tests/stub-test.cpp` fails in every build.

Six edges of the arithmetic are not findings, since nothing in the repository says
otherwise; the properties state them where they occur. `seek` takes an offset for a signed
`off_t`, and `readBytes` tests only that a read does not end behind the buffer
(`serialize.h:86-99`): an offset near the end of the address space leads before the file,
and what is there is read and kept as a section, or the access ends the process. The
addend of a branch, or a section across 2 GB, can put the section's own stubs out of reach
of the first call (`ELFObject.hxx:211-213`). The carry between the
halves of a movw/movt pair is lost; the range test of a branch compares across 2 GB with
signs; addends of a lui/addiu pair are merged, not added; on x86_64 only the
lower 2 GB are addressed exactly.

## 6. Not modelled, and what is left

* Printing, the helpers of `utils/` for it, and the build files: no state of the loader
  depends on them. `tests/test-librsloader.c` calls the API in one fixed order, which
  `Exec` covers. The functions that `find_sym` of `main.cpp` leads to only call the C library.
* The reader is modelled for files with a section 0 and a section of names among their
  sections (`e_shnum`, `e_shstrndx`), and the relocators for stub tables at whole words:
  the code neither looks at the first nor aligns the second (`ELFSectionProgBits.hxx:59`;
  in a section of an odd size the truncation of `S >> 2` would matter). Allocations of
  objects on the heap do not fail. The sum of the demands does not wrap (`SHNCommonData`).
* Two hazards have no property. The variables of a NOBITS section have two storages, one
  through the variable and one through the section symbol (`ELFSymbol.hxx:149`): nothing
  in the code says which one is meant. Of two sections of one name the relocations go to
  the last (`ELFSectionHeaderTable.hxx:86`): nothing is promised of such objects.
* Left to do: `ObjectReader`, the allocator and the relocators as one module, with the
  contents of sections as bytes. The hand-over between them is now by assumption: which
  sections are in memory (`SecBase`), and where the variables are (`VarAddr`).
