-------------------------------- MODULE Rtld --------------------------------
(***************************************************************************)
(* The standalone dynamic linker (rtld/standalone/main.cpp, init/module.h, *)
(* rtld/RoModule.cpp, rtld/RoModuleList.h).  It relocates itself, finds    *)
(* the modules that follow it in memory, relocates each and puts it on a   *)
(* list, tells them where the list is, resolves the symbols of all, and    *)
(* runs their initializers before main.                                    *)
(*                                                                         *)
(* Modules are numbered as they lie in memory; 1 is the linker itself.     *)
(* The list is circular, and its head, node 0, doubles as a module whose   *)
(* next is front and whose prev is back.                                   *)
(***************************************************************************)
EXTENDS ElfSymbols

CONSTANTS
  Images,    (* sequences of modules; see ModuleAssumption                *)
  Slots,     (* places that relocation entries are about                  *)
  Span       (* distance of two modules in memory                         *)

Relative == "relative"
Types == {Relative, "absolute", "glob_dat", "jump_slot", "other"}

(* says: of each name; table: its symbols and hash tables; entries: of     *)
(* slots, at most one each; rela: whether entries have addends of their    *)
(* own; listed: whether the module has a g_pAutoLoadList; perms: the       *)
(* permissions of its memory.  Relative entries have the null symbol,      *)
(* which is not hidden and whose name is empty.                            *)
ASSUME ModuleAssumption ==
  /\ Span \in Nat \ {0}
  /\ "" \notin Names
  /\ \A image \in Images :
       /\ Len(image) \in Nat \ {0} /\ DOMAIN image = 1 .. Len(image)
       /\ \A m \in DOMAIN image :
            /\ image[m].says \in [Names -> Kinds]
            /\ IsLinked(image[m].table, image[m].says)
            /\ image[m].gnu \in BOOLEAN /\ image[m].rela \in BOOLEAN
            /\ image[m].init \in BOOLEAN /\ image[m].listed \in BOOLEAN
            /\ DOMAIN image[m].entries \subseteq Slots
            /\ \A s \in DOMAIN image[m].entries :
                 LET e == image[m].entries[s]
                 IN /\ e.type \in Types /\ e.addend \in Nat /\ e.weak \in BOOLEAN /\ e.hidden \in BOOLEAN
                    /\ IF e.type = Relative THEN e.name = "" /\ ~e.hidden ELSE e.name \in Names

VARIABLES
  image,   (* what is in memory when the linker is entered                *)
  mem,     (* [modules -> [Slots -> content]]                             *)
  next,    (* RoModule::next and RoModuleList::front                      *)
  prev,    (* RoModule::prev and RoModuleList::back                       *)
  listAt,  (* [modules -> whether its g_pAutoLoadList is set]             *)
  inited,  (* the modules whose m_pInit was called, in order              *)
  cursor,  (* the module or node a loop has come to                       *)
  phase    (* "self", "load", "refer", "resolve", "init", "main", or      *)
           (* "halted": aborted                                           *)

vars == <<image, mem, next, prev, listAt, inited, cursor, phase>>

Modules == DOMAIN image
Base(m) == m * Span

(* What the linker left in a slot: an addend, unless entries have them. *)
Content(module, s) ==
  IF s \in DOMAIN module.entries /\ ~module.rela THEN module.entries[s].addend ELSE 0

Init ==
  /\ image \in Images
  /\ mem = [m \in Modules |-> [s \in Slots |-> Content(image[m], s)]]
  /\ next = [n \in {0} |-> 0] /\ prev = next
  /\ listAt = [m \in Modules |-> FALSE]
  /\ inited = <<>>
  /\ cursor = 1
  /\ phase = "self"

-----------------------------------------------------------------------------
(* Relocation *)

(* How an entry puts an address into its slot. *)
Applied(m, e, content, address) == IF image[m].rela THEN address + e.addend ELSE content + address

(* RoModule::Relocate *)
Relocate(m) ==
  [mem EXCEPT ![m] = [s \in Slots |->
     LET entries == image[m].entries
     IN IF s \in DOMAIN entries /\ entries[s].type = Relative
          THEN Applied(m, entries[s], mem[m][s], Base(m)) ELSE mem[m][s]]]

GetSymbolByName(m, name) ==
  LET table == image[m].table
  IN IF name \notin Names THEN 0
     ELSE IF image[m].gnu THEN GetSymbolByNameGnu(table.syms, table.gnu, name)
     ELSE GetSymbolByNameElf(table.syms, table.elf, name)

(* The modules in the order of begin to end: from back along prev. *)
Forward ==
  LET walk[k \in 1 .. Len(image)] ==
        IF k = 1 THEN prev[0] ELSE IF walk[k - 1] = 0 THEN 0 ELSE prev[walk[k - 1]]
  IN walk

(* The first module on the list with the symbol; 0 stands for none. *)
LookupGlobalAuto(name) ==
  LET hits == {k \in 1 .. Len(image) : Forward[k] # 0 /\ GetSymbolByName(Forward[k], name) # 0}
      m == Forward[Min(hits)]
  IN IF hits = {} THEN 0 ELSE Base(m) + GetSymbolByName(m, name)

(* ResolveSymbol of a symbol: a set with its address, or empty.  Nobody    *)
(* has set g_LookupGlobalManualFunctionPointer yet.                        *)
ResolveSymbol(m, e) ==
  IF e.hidden
    THEN LET i == GetSymbolByName(m, e.name)
         IN IF i # 0 THEN {Base(m) + i} ELSE IF e.weak THEN {0} ELSE {}
    ELSE {LookupGlobalAuto(e.name)} \ {0}

(* A defect: relative entries are applied whether or not there is a symbol. *)
ResolveSymbolsAgain(m) ==
  [mem EXCEPT ![m] = [s \in Slots |->
     LET e == image[m].entries[s]
     IN IF s \notin DOMAIN image[m].entries THEN mem[m][s]
        ELSE IF e.type = Relative THEN Applied(m, e, mem[m][s], Base(m))
        ELSE IF e.type = "other" \/ ResolveSymbol(m, e) = {} THEN mem[m][s]
        ELSE Applied(m, e, mem[m][s], CHOOSE a \in ResolveSymbol(m, e) : TRUE)]]

(* RoModule::ResolveSymbols.  Relative entries are looked up as well, by   *)
(* the null symbol, whose name nobody defines.                             *)
ResolveSymbols(m) ==
  [mem EXCEPT ![m] = [s \in Slots |->
     LET e == image[m].entries[s]
     IN IF s \notin DOMAIN image[m].entries THEN mem[m][s]
        ELSE IF e.type = "other" \/ ResolveSymbol(m, e) = {} THEN mem[m][s]
        ELSE Applied(m, e, mem[m][s], CHOOSE a \in ResolveSymbol(m, e) : TRUE)]]

-----------------------------------------------------------------------------
(* The steps of rtldEntry *)

(* initializeSelfModule *)
InitializeSelf ==
  /\ phase = "self"
  /\ mem' = Relocate(1)
  /\ phase' = "load"
  /\ UNCHANGED <<image, next, prev, listAt, inited, cursor>>

(* initializeRtldModule: what was zero-initialised is cleared first; the   *)
(* linker itself is left alone.                                            *)
InitializeModule(m) ==
  IF m = 1 THEN UNCHANGED <<mem, listAt>>
           ELSE mem' = Relocate(m) /\ listAt' = [listAt EXCEPT ![m] = FALSE]

(* A defect: the module goes to the other end. *)
PushBack(m) ==
  /\ next' = [n \in DOMAIN next \union {m} |-> IF n = m THEN 0 ELSE IF n = prev[0] THEN m ELSE next[n]]
  /\ prev' = [n \in DOMAIN prev \union {m} |-> IF n = m THEN prev[0] ELSE IF n = 0 THEN m ELSE prev[n]]
(* A defect: prev is left as Initialize made it. *)
PushFrontUnlinked(m) ==
  /\ next' = [n \in DOMAIN next \union {m} |-> IF n = m THEN next[0] ELSE IF n = 0 THEN m ELSE next[n]]
  /\ prev' = [n \in DOMAIN prev \union {m} |-> IF n \in {m, next[0]} THEN m ELSE prev[n]]
PushFront(m) ==
  /\ next' = [n \in DOMAIN next \union {m} |-> IF n = m THEN next[0] ELSE IF n = 0 THEN m ELSE next[n]]
  /\ prev' = [n \in DOMAIN prev \union {m} |-> IF n = m THEN 0 ELSE IF n = next[0] THEN m ELSE prev[n]]

(* The layout that forEachAutoLoadModule accepts: text, at least one range *)
(* that can be read, data.                                                 *)
UsualLayout(perms) ==
  /\ Len(perms) >= 3 /\ perms[1] = "rx" /\ perms[Len(perms)] = "rw"
  /\ \A k \in 2 .. Len(perms) - 1 : perms[k] = "r"

LoadModule ==
  /\ phase = "load" /\ cursor \in Modules
  /\ IF UsualLayout(image[cursor].perms)
       THEN InitializeModule(cursor) /\ PushFront(cursor) /\ cursor' = cursor + 1 /\ UNCHANGED phase
       ELSE phase' = "halted" /\ UNCHANGED <<mem, listAt, next, prev, cursor>>
  /\ UNCHANGED <<image, inited>>

(* A loop over the list ends at its head, and the next phase begins. *)
NextPhase ==
  /\ \/ phase = "load" /\ cursor \notin Modules /\ phase' = "refer" /\ cursor' = prev[0]
     \/ phase = "refer" /\ cursor = 0 /\ phase' = "resolve" /\ cursor' = prev[0]
     \/ phase = "resolve" /\ cursor = 0 /\ phase' = "init" /\ cursor' = next[0]
     \/ phase = "init" /\ cursor = 0 /\ phase' = "main" /\ UNCHANGED cursor
  /\ UNCHANGED <<image, mem, next, prev, listAt, inited>>

(* applyByReference *)
Refer ==
  /\ phase = "refer" /\ cursor # 0
  /\ listAt' = [listAt EXCEPT ![cursor] = @ \/ image[cursor].listed]
  /\ cursor' = prev[cursor]
  /\ UNCHANGED <<image, mem, next, prev, inited, phase>>

Resolve ==
  /\ phase = "resolve" /\ cursor # 0
  /\ mem' = ResolveSymbols(cursor)
  /\ cursor' = prev[cursor]
  /\ UNCHANGED <<image, next, prev, listAt, inited, phase>>

(* initModules, along next *)
InitModules ==
  /\ phase = "init" /\ cursor # 0
  /\ inited' = IF image[cursor].init THEN Append(inited, cursor) ELSE inited
  /\ cursor' = next[cursor]
  /\ UNCHANGED <<image, mem, next, prev, listAt, phase>>

Next == InitializeSelf \/ LoadModule \/ NextPhase \/ Refer \/ Resolve \/ InitModules

Spec == Init /\ [][Next]_vars /\ WF_vars(Next)

-----------------------------------------------------------------------------
(* Properties *)

(* Both hash tables find a name iff the module defines it, whatever other  *)
(* names it defines, uses or has in common storage, and however their      *)
(* hashes collide.                                                         *)
LookupIsRight ==
  phase = "self" =>
    \A m \in Modules, name \in Names :
      GetSymbolByName(m, name) =
        IF Defines(image[m].says, name)
          THEN NumberOf(image[m].table.syms, name) ELSE 0

(* What a slot is to hold: the module's place, or that of the first module *)
(* in memory that defines the symbol; the addend is counted once.          *)
Provides(m, e) ==
  {Base(d) + NumberOf(image[d].table.syms, e.name) :
     d \in {k \in Modules : /\ Defines(image[k].says, e.name)
                            /\ IF e.hidden THEN k = m ELSE \A j \in 1 .. k - 1 : ~Defines(image[j].says, e.name)}}
Wanted(m, s) ==
  LET e == image[m].entries[s]
  IN IF s \notin DOMAIN image[m].entries THEN 0
     ELSE IF e.type = Relative THEN Base(m) + e.addend
     ELSE IF e.type # "other" /\ Provides(m, e) # {} THEN Max(Provides(m, e)) + e.addend
     ELSE IF e.type # "other" /\ e.hidden /\ e.weak THEN e.addend
     ELSE Content(image[m], s)

(* Before the first initializer runs, every slot of every module holds     *)
(* what it should, although two passes look at each entry, and every       *)
(* module that asks for it knows where the list is.                        *)
LinkedBeforeInit ==
  phase \in {"init", "main"} =>
    \A m \in Modules :
      /\ \A s \in Slots : mem[m][s] = Wanted(m, s)
      /\ listAt[m] = image[m].listed

(* Initializers run once each, the module that lies last first, and all    *)
(* have run when main starts.                                              *)
InitOrder ==
  /\ \A k \in 1 .. Len(inited) - 1 : inited[k] > inited[k + 1]
  /\ phase = "main" => {inited[k] : k \in DOMAIN inited} = {m \in Modules : image[m].init}

(* The linker ends: in main, or aborted because of memory it cannot read. *)
Ends == <>(phase \in {"main", "halted"})
=============================================================================
