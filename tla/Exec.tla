--------------------------------- MODULE Exec ---------------------------------
(***************************************************************************)
(* A loaded object as its client sees it: the functions of                 *)
(* android/librsloader.cpp over the symbol table and its name map.         *)
(*                                                                         *)
(* The object is loaded as SHNCommonData describes.  Afterwards the client *)
(* asks for addresses by name, again and again, in any order.  A question  *)
(* may still give memory to a variable of a NOBITS section, but not to a   *)
(* common; and addresses are cached, so that answers could change.  The    *)
(* names to ask for are those of the list of functions, or well known.     *)
(***************************************************************************)
EXTENDS SHNCommonData, Sequences

CONSTANTS
  Names,   \* the names a client may ask for
  NameOf   \* the name of every symbol

ASSUME ExecAssumption == NameOf \in [Syms -> Names]

VARIABLES
  answers,  \* what the client has been told of every name
  live      \* the object has not been disposed of

execVars == <<vars, answers, live>>

Defining(name) == {s \in Syms : NameOf[s] = name}

Known(name) == Defining(name) # {}

(* buildNameMap keeps the last symbol of a name; getByName finds it.       *)
Lookup(name) == CHOOSE s \in Defining(name) : \A t \in Defining(name) : t <= s

(* rsloaderGetSymbolSize: 0 for "Symbol not found".                        *)
SymbolSize(name) == IF Known(name) THEN symtab[Lookup(name)].size ELSE 0

(* rsloaderGetFuncCount *)
IsConcreteFunc(s) == symtab[s].type = "FUNC"
FuncCount == Cardinality({s \in Syms : IsConcreteFunc(s)})

(* The names the loop over the table lists before the room is used up.     *)
ListNames(room) ==
  LET names[n \in 0 .. NumSyms] ==
        IF n = 0 THEN <<>>
        ELSE IF Len(names[n - 1]) < room /\ IsConcreteFunc(n - 1)
             THEN Append(names[n - 1], NameOf[n - 1])
             ELSE names[n - 1]
  IN names[NumSyms]

(* rsloaderGetFuncNameList into a buffer with this room; and one that      *)
(* looks at the room too late (for the sensitivity runs).                  *)
FuncNameListTooLong(room) == ListNames(room + 1)
FuncNameList(room) == ListNames(room)

ExecInit == Init /\ answers = [name \in Names |-> {}] /\ live = TRUE

(* rsloaderCreateExec: counting, mapping and relocating.                   *)
CreateExec ==
  /\ \/ CountSymbol \/ InitCommonData \/ InitCommonDataFails \/ EndRelocate
     \/ \E s \in Syms : RelocateAgainst(s) \/ SetAddress(s)
  /\ UNCHANGED <<answers, live>>

(* An API that gives memory to no variable at all (for the sensitivity     *)
(* runs).                                                                  *)
SettledAlways(s) == \/ my_addr[s] # 0
                    \/ IsCommonData(symtab[s])
                    \/ IsUndefined(symtab[s])

(* getAddress(false) that changes nothing: the address is cached, or the   *)
(* symbol is a common that no relocation entry refers to, or undefined.    *)
Settled(s) == \/ my_addr[s] # 0
              \/ symtab[s].type = "OBJECT" /\ symtab[s].shndx = "COMMON"
              \/ IsUndefined(symtab[s])

Answer(name, a) == answers' = [answers EXCEPT ![name] = @ \cup {a}]

(* "Symbol not found"                                                      *)
AskUnknown(name) ==
  /\ pc = "loaded" /\ live /\ ~Known(name)
  /\ Answer(name, 0) /\ UNCHANGED <<vars, live>>

AskSettled(name) ==
  /\ pc = "loaded" /\ live /\ Known(name) /\ Settled(Lookup(name))
  /\ Answer(name, my_addr[Lookup(name)]) /\ UNCHANGED <<vars, live>>

(* getAddress gives the symbol an address, or aborts.                      *)
AskFresh(name) ==
  /\ live /\ UNCHANGED live
  /\ Known(name) /\ GetSymbolAddress(Lookup(name))
  /\ \/ pc' = "aborted" /\ UNCHANGED answers
     \/ pc' = "loaded" /\ Answer(name, my_addr'[Lookup(name)])

(* rsloaderDisposeExec: the object goes, and its memory.                   *)
DisposeExec ==
  /\ pc = "loaded" /\ live /\ live' = FALSE
  /\ UNCHANGED <<vars, answers>>

ExecNext ==
  \/ CreateExec \/ DisposeExec
  \/ \E name \in Names : AskUnknown(name) \/ AskSettled(name) \/ AskFresh(name)

ExecSpec == ExecInit /\ [][ExecNext]_execVars

-----------------------------------------------------------------------------
(* What the client has been told of a name is, for good, the address the   *)
(* code uses: a client that asks twice gets the same answer twice, NULL    *)
(* included, whatever other questions have given memory to in between      *)
(* (ELFSymbol.hxx:126-329 behind librsloader.cpp:62-81).                   *)
AnswersHold ==
  \A name \in Names : \A a \in answers[name] :
    IF Known(name) THEN pc \in {"loaded", "aborted"} /\ a = my_addr[Lookup(name)]
    ELSE a = 0

(* Two variables the client has addresses of do not share memory, as far   *)
(* as the sizes it is told reach, be the addresses from relocation or from *)
(* a question (ELFObject.h:77-100 behind librsloader.cpp:62-101).          *)
AnswersApart ==
  \A m, n \in Names :
    /\ Known(m) /\ Known(n) /\ Lookup(m) # Lookup(n)
    /\ {Lookup(m), Lookup(n)} \subseteq CommonVars
    => \A a \in answers[m] \ {0}, b \in answers[n] \ {0} :
         \/ a + SymbolSize(m) <= b
         \/ b + SymbolSize(n) <= a

(* NULL is the answer only for a name the object does not have, for an     *)
(* undefined symbol, and for a common that relocation has not referred to: *)
(* never for a variable of a NOBITS section, which is given memory late    *)
(* (ELFSymbol.hxx:155 against 187-191).                                    *)
NullOnlyIfUnused ==
  \A name \in Names :
    0 \in answers[name] /\ Known(name) =>
      \/ IsUndefined(symtab[Lookup(name)])
      \/ symtab[Lookup(name)].type = "OBJECT" /\ symtab[Lookup(name)].shndx = "COMMON"

(* A buffer with the room rsloaderGetFuncCount asks for receives every     *)
(* function, a smaller one is filled and not overrun, and a listed name is *)
(* answered with NULL only if a later symbol, which is no function, has    *)
(* taken the name (ELFSectionSymTab.hxx:31-40 against 74-83 and 53-61).    *)
ListServes ==
  /\ \A room \in 0 .. NumSyms :
       Len(FuncNameList(room)) = IF room < FuncCount THEN room ELSE FuncCount
  /\ \A n \in 1 .. FuncCount :
       LET name == FuncNameList(FuncCount)[n] IN
       0 \in answers[name] => ~IsConcreteFunc(Lookup(name))
===============================================================================
