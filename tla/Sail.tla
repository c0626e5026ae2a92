-------------------------------- MODULE Sail --------------------------------
(***************************************************************************)
(* Sail's run time (hk/sail/detail.h, detail.cpp, init.cpp,                *)
(* hk/util/Context.h, binarySearch of hk/util/Algorithm.h): from the names *)
(* a mod uses to addresses in the program it runs in.                      *)
(*                                                                         *)
(* The loader finds the modules and versions the database knows and looks  *)
(* up every import of the mod; after that any thread may look up symbols.  *)
(* A lookup is a binary search and a stack of calls of SymbolEntry::apply. *)
(* An entry caches what its apply left in "out"; 1 in a cache says not to. *)
(* The variable an entry's source is asked for in is not initialized: it   *)
(* holds a value out of Garbage.                                           *)
(***************************************************************************)
EXTENDS SymbolLanguage

CONSTANTS
  Threads, Loader,
  Imports,   (* the mod's relocations: [name, weak]                        *)
  Wanted,    (* names looked up at run time                                *)
  Garbage,
  NoName

ASSUME SailAssumption ==
  /\ Loader \in Threads
  /\ Garbage # {} /\ Garbage \subseteq Int
  /\ Imports \in Seq([name : Nat, weak : BOOLEAN])
  /\ Wanted \subseteq Nat
  /\ NoName \notin Nat

VARIABLES
  program,
  found,     (* gModules: the loaded module of each listed one, or NoModule *)
  version,   (* mVersionIndex of each loaded module, 0 if unknown          *)
  listed,    (* how many of the listed modules were looked for             *)
  imported,  (* how many imports were looked up                            *)
  got,       (* the mod's imported addresses                               *)
  statics,   (* the address hk::util::lookupSymbol keeps for each name     *)
  cache,     (* symbolPtrCache of each entry                               *)
  wanted,    (* the name each thread looks up                              *)
  range,     (* low and high of its search, or the empty sequence          *)
  stack,     (* its calls of apply, the innermost first                    *)
  halted

loader == <<found, version, listed>>
results == <<imported, got, statics>>
lookups == <<wanted, range, stack>>
vars == <<program, loader, results, cache, lookups, halted>>

NoModule == 0

-----------------------------------------------------------------------------
(***************************************************************************)
(* VersionLoader::loadVersions, for one listed module.  A loaded module of *)
(* a listed build ends the search; until then each of the right name is    *)
(* taken, the last one staying.  A module without versions is skipped.     *)
(***************************************************************************)
OfBuild(i) == {m \in DOMAIN program : \E v \in DOMAIN Listed[i].builds :
                                         Listed[i].builds[v] = program[m].build}
OfName(i) == {m \in DOMAIN program : program[m].name = Listed[i].name}

ModuleFor(i) ==
  IF Listed[i].builds = <<>> THEN NoModule
  ELSE IF OfBuild(i) # {} THEN FirstOf(OfBuild(i))
  ELSE IF OfName(i) = {} THEN NoModule
  ELSE CHOOSE m \in OfName(i) : \A n \in OfName(i) : n <= m

VersionFor(i) ==
  FirstOf({v \in DOMAIN Listed[i].builds :
             Listed[i].builds[v] = program[ModuleFor(i)].build})

LoadVersion ==
  /\ ~halted
  /\ listed < Len(Listed)
  /\ LET i == listed + 1
     IN  /\ listed' = i
         /\ found' = [found EXCEPT ![i] = ModuleFor(i)]
         /\ version' = IF OfBuild(i) = {} THEN version
                       ELSE [version EXCEPT ![ModuleFor(i)] = VersionFor(i)]
  /\ UNCHANGED <<program, results, cache, lookups, halted>>

-----------------------------------------------------------------------------
(* A defect: the search ends at the number of entries, not at the last one. *)
StartPastTheEnd(t, name) ==
  /\ ~halted
  /\ wanted[t] = NoName
  /\ wanted' = [wanted EXCEPT ![t] = name]
  /\ range' = [range EXCEPT ![t] = <<0, Len(Table)>>]
  /\ UNCHANGED <<program, loader, results, cache, stack, halted>>

(* Searching the table; low and high count from 0 as in the code. *)
Start(t, name) ==
  /\ ~halted
  /\ wanted[t] = NoName
  /\ wanted' = [wanted EXCEPT ![t] = name]
  /\ range' = [range EXCEPT ![t] = <<0, Len(Table) - 1>>]
  /\ UNCHANGED <<program, loader, results, cache, stack, halted>>

(* loadSymbols, for the next import. *)
Import ==
  /\ listed = Len(Listed)
  /\ imported < Len(Imports)
  /\ Start(Loader, Imports[imported + 1].name)

(* hk::util::lookupSymbol, unless it has the address already. *)
Lookup(t, name) ==
  /\ listed = Len(Listed) /\ imported = Len(Imports)
  /\ statics[name] = 0
  /\ Start(t, name)

Top(t) == Head(stack[t])
TopIs(t, types, step) ==
  /\ ~halted
  /\ stack[t] # <<>> /\ range[t] = <<>>
  /\ Symbols[Top(t).id].type \in types
  /\ Top(t).step = step

Sought(t) == IF stack[t] = <<>> THEN wanted[t] ELSE Symbols[Top(t).id].source

(* A call of apply: "out" is a variable of the caller, whose value the      *)
(* callee may leave there; "at" is what the callee's own callee returned.  *)
Frame(id, abort, out) ==
  [id |-> id, abort |-> abort, out |-> out, at |-> 0, step |-> "enter", tried |-> 0]

Call(t, id, abort, out) ==
  stack' = [stack EXCEPT ![t] = <<Frame(id, abort, out)>> \o @]

Halt == halted' = TRUE /\ UNCHANGED <<program, loader, results, cache, lookups>>

(* What a thread has been given ends its lookup or goes to the caller, into *)
(* "out" of a MultipleCandidate and "at" of another.                       *)
Give(t, value) ==
  LET rest == Tail(stack[t])
      caller == Head(rest)
  IN  IF rest = <<>>
      THEN /\ stack' = [stack EXCEPT ![t] = <<>>]
           /\ wanted' = [wanted EXCEPT ![t] = NoName]
           /\ IF imported < Len(Imports)
              THEN /\ got' = [got EXCEPT ![imported + 1] = value]
                   /\ imported' = imported + 1
                   /\ UNCHANGED statics
              ELSE /\ statics' = [statics EXCEPT ![wanted[t]] = value]
                   /\ UNCHANGED <<imported, got>>
      ELSE /\ stack' = [stack EXCEPT ![t] =
                 <<IF Symbols[caller.id].type = "MultipleCandidate"
                   THEN [caller EXCEPT !.out = value]
                   ELSE [caller EXCEPT !.at = value, !.step = "given"]>> \o Tail(rest)]
           /\ UNCHANGED <<wanted, results>>

(* The innermost apply ends with "value" in its out parameter. *)
Return(t, value) ==
  /\ cache' = IF cache[Top(t).id] = 1 THEN cache ELSE [cache EXCEPT ![Top(t).id] = value]
  /\ Give(t, value)
  /\ UNCHANGED <<program, loader, range, halted>>

(* A defect: the search goes on from the probed entry itself. *)
ProbeWithoutProgress(t) ==
  LET mid == (range[t][1] + range[t][2]) \div 2
      id == Table[mid + 1]
      name == Symbols[id].name
  IN  /\ ~halted
      /\ range[t] # <<>> /\ range[t][1] <= range[t][2]
      /\ \/ /\ name = Sought(t)
            /\ range' = [range EXCEPT ![t] = <<>>]
            /\ IF stack[t] = <<>> THEN Call(t, id, TRUE, 0)
               ELSE \E out \in Garbage : Call(t, id, Top(t).abort, out)
         \/ /\ name < Sought(t)
            /\ range' = [range EXCEPT ![t][1] = mid]
            /\ UNCHANGED stack
         \/ /\ name > Sought(t)
            /\ range' = [range EXCEPT ![t][2] = mid]
            /\ UNCHANGED stack
      /\ UNCHANGED <<program, loader, results, cache, wanted, halted>>

(* lookupSymbolByHash: binarySearch and what its callers do with the index. *)
Probe(t) ==
  LET low == range[t][1]
      high == range[t][2]
      mid == (low + high) \div 2
      id == Table[mid + 1]
      name == Symbols[id].name
  IN  /\ ~halted
      /\ range[t] # <<>> /\ low <= high
      /\ \/ /\ name = Sought(t)
            /\ range' = [range EXCEPT ![t] = <<>>]
            /\ IF stack[t] = <<>> THEN Call(t, id, TRUE, 0)
               ELSE \E out \in Garbage : Call(t, id, Top(t).abort, out)
         \/ /\ name < Sought(t)
            /\ range' = [range EXCEPT ![t] = <<mid + 1, high>>]
            /\ UNCHANGED stack
         \/ /\ name > Sought(t)
            /\ range' = [range EXCEPT ![t] = <<low, mid - 1>>]
            /\ UNCHANGED stack
      /\ UNCHANGED <<program, loader, results, cache, wanted, halted>>

(* lookupSymbolFromDb: only a weak import may be missing. *)
NotFound(t) ==
  /\ ~halted
  /\ range[t] # <<>> /\ range[t][1] > range[t][2]
  /\ IF stack[t] = <<>> /\ imported < Len(Imports) /\ Imports[imported + 1].weak
     THEN /\ got' = [got EXCEPT ![imported + 1] = 0]
          /\ imported' = imported + 1
          /\ wanted' = [wanted EXCEPT ![t] = NoName]
          /\ range' = [range EXCEPT ![t] = <<>>]
          /\ UNCHANGED <<program, loader, statics, cache, stack, halted>>
     ELSE Halt

-----------------------------------------------------------------------------
(* SymbolEntry::apply looks at the cache ... *)
Hit(t) ==
  /\ TopIs(t, Types, "enter")
  /\ cache[Top(t).id] \notin {0, 1}
  /\ Give(t, cache[Top(t).id])
  /\ UNCHANGED <<program, loader, cache, range, halted>>

Step(t, frame) == stack' = [stack EXCEPT ![t] = <<frame>> \o Tail(@)]

(* A defect: "*out = 0" is forgotten. *)
MissWithoutClearing(t) ==
  /\ TopIs(t, Types, "enter")
  /\ cache[Top(t).id] \in {0, 1}
  /\ Step(t, [Top(t) EXCEPT !.step = "apply"])
  /\ UNCHANGED <<program, loader, results, cache, wanted, range, halted>>

(* ... and goes on to the apply of the entry's type; MultipleCandidate's    *)
(* begins with clearing "out".                                             *)
Miss(t) ==
  /\ TopIs(t, Types, "enter")
  /\ cache[Top(t).id] \in {0, 1}
  /\ Step(t, [Top(t) EXCEPT !.step = "apply",
                            !.out = IF Symbols[Top(t).id].type = "MultipleCandidate" THEN 0 ELSE @])
  /\ UNCHANGED <<program, loader, results, cache, wanted, range, halted>>

(* A defect: the caller's wish not to abort is not heeded. *)
UnresolvedAborts(t) == Halt

(* What is not resolved ends the process or leaves "out" as it is. *)
Unresolved(t) == IF Top(t).abort THEN Halt ELSE Return(t, Top(t).out)

IsVersion(s) == version[found[s.module]] \in s.versions

ApplyImmediate(t) ==
  LET s == Symbols[Top(t).id]
  IN  /\ TopIs(t, {"Immediate"}, "apply")
      /\ IF found[s.module] = NoModule THEN Halt
         ELSE IF IsVersion(s) THEN Return(t, program[found[s.module]].start + s.offset)
         ELSE Unresolved(t)

ApplyDynamic(t) ==
  LET address == LookupSymbol(program, Symbols[Top(t).id].export)
  IN  /\ TopIs(t, {"Dynamic"}, "apply")
      /\ IF address = 0 /\ Top(t).abort THEN Halt ELSE Return(t, address)

(* A defect: "since" a version is taken for "after" it. *)
OutsideBoundaryAfter(s) ==
  LET loaded == version[found[s.module]]
  IN  \/ s.boundary = "Older" /\ loaded >= s.version
      \/ s.boundary \in {"Older", "From"} /\ loaded <= s.version

(* The case of "Older" has no break: its entries go on to the case of       *)
(* "From", and return there if they have not before.                       *)
OutsideBoundary(s) ==
  LET loaded == version[found[s.module]]
  IN  \/ s.boundary = "Older" /\ loaded >= s.version
      \/ s.boundary \in {"Older", "From"} /\ loaded < s.version

(* The generated search function looks at every fourth byte and stops short *)
(* of the last place.                                                      *)
Search(m, s) ==
  LET r == Section(m, s.limit)
  IN  FirstOf({a \in Places(m, s) : (a - r.start) % 4 = 0 /\ a < r.start + r.size - s.length})

ApplyDataBlock(t) ==
  LET s == Symbols[Top(t).id]
      address == Search(program[found[s.module]], s)
  IN  /\ TopIs(t, {"DataBlock"}, "apply")
      /\ IF found[s.module] = NoModule THEN Halt
         ELSE IF OutsideBoundary(s) THEN Return(t, Top(t).out)
         ELSE IF address = 0 /\ Top(t).abort THEN Halt
         ELSE Return(t, address + s.offset)

SeekSource(t) ==
  /\ TopIs(t, Indirect, "apply")
  /\ range' = [range EXCEPT ![t] = <<0, Len(Table) - 1>>]
  /\ UNCHANGED <<program, loader, results, cache, wanted, stack, halted>>

ApplyArithmetic(t) ==
  /\ TopIs(t, {"Arithmetic"}, "given")
  /\ Return(t, Top(t).at + Symbols[Top(t).id].addend)

(* Reading instructions where nothing is mapped faults. *)
ApplyReadADRPGlobal(t) ==
  /\ TopIs(t, {"ReadADRPGlobal"}, "given")
  /\ IF ~Mapped(program, Top(t).at) THEN Halt
     ELSE IF ~IsPair(program, Top(t).at) THEN Unresolved(t)
     ELSE Return(t, Global(program, Top(t).at))

(***************************************************************************)
(* MultipleCandidate tries the immediate candidates, then all, until "out" *)
(* is not zero.  None of them may end the process, but running out does.   *)
(***************************************************************************)
Candidate(s, n) == s.candidates[IF n <= Len(s.candidates) THEN n ELSE n - Len(s.candidates)]

Skipped(s, n) == n <= Len(s.candidates) /\ Symbols[Candidate(s, n)].type # "Immediate"

ApplyMultipleCandidate(t) ==
  LET s == Symbols[Top(t).id]
      n == Top(t).tried + 1
      next == [Top(t) EXCEPT !.tried = n]
  IN  /\ TopIs(t, {"MultipleCandidate"}, "apply")
      /\ IF Top(t).out # 0 THEN Return(t, Top(t).out)
         ELSE IF n > 2 * Len(s.candidates) THEN Halt
         ELSE /\ IF Skipped(s, n) THEN Step(t, next)
                 ELSE stack' = [stack EXCEPT ![t] =
                        <<Frame(Candidate(s, n), FALSE, next.out), next>> \o Tail(@)]
              /\ UNCHANGED <<program, loader, results, cache, wanted, range, halted>>

Apply(t) ==
  \/ ApplyImmediate(t) \/ ApplyDynamic(t) \/ ApplyDataBlock(t)
  \/ SeekSource(t) \/ ApplyArithmetic(t) \/ ApplyReadADRPGlobal(t)
  \/ ApplyMultipleCandidate(t)

-----------------------------------------------------------------------------
Init ==
  /\ program \in Programs
  /\ found = [i \in DOMAIN Listed |-> NoModule]
  /\ version = [m \in DOMAIN program |-> 0]
  /\ listed = 0
  /\ imported = 0
  /\ got = [i \in DOMAIN Imports |-> 0]
  /\ statics = [name \in Wanted |-> 0]
  /\ cache = [id \in Ids |-> 0]
  /\ wanted = [t \in Threads |-> NoName]
  /\ range = [t \in Threads |-> <<>>]
  /\ stack = [t \in Threads |-> <<>>]
  /\ halted = FALSE

(* What a thread does once it has asked for a name. *)
Proceed(t) == Probe(t) \/ NotFound(t) \/ Hit(t) \/ Miss(t) \/ Apply(t)

Next ==
  \/ LoadVersion
  \/ Import
  \/ \E t \in Threads, name \in Wanted : Lookup(t, name)
  \/ \E t \in Threads : Proceed(t)

Spec == Init /\ [][Next]_vars

(***************************************************************************)
(* The programs the guarantees are about.  The database must suit them:    *)
(* - a listed module has versions, none twice, and is one loaded module;   *)
(* - no data block is for versions older than one that runs (the code      *)
(*   never finds these), none lies at the last place of its section, and   *)
(*   the first match is at a multiple of four bytes;                       *)
(* - what an entry refers to is not a data block of other versions (the    *)
(*   code then goes on with an uninitialized variable), and if it is found *)
(*   it is not address 0, which a global may hold (the code goes on);      *)
(* - a candidate's module is loaded; if a candidate is a data block that   *)
(*   is not there it has no offset (the code would take the offset for an  *)
(*   address), and one that refers to another entry is resolved.           *)
(***************************************************************************)
SuitsModules ==
  \A i \in DOMAIN Listed :
    /\ Listed[i].builds # <<>>
    /\ \A v, w \in DOMAIN Listed[i].builds : Listed[i].builds[v] = Listed[i].builds[w] => v = w
    /\ \A m, n \in DOMAIN program : Is(program, i, m) /\ Is(program, i, n) => m = n
    /\ \A j \in DOMAIN Listed \ {i}, m \in DOMAIN program :
         ~(Is(program, i, m) /\ Is(program, j, m))

SuitsBlock(s) ==
  /\ s.boundary = "Older" => ~InBoundary(program, s)
  /\ \A m \in DOMAIN program :
       Search(program[m], s) = FirstOf(InSection(program[m], s))

(* Whether there is what the entry is about, be it at address 0. *)
Resolves(id) ==
  LET s == Symbols[id]
  IN  \/ /\ s.type = "DataBlock"
         /\ \E m \in DOMAIN program : Is(program, s.module, m) /\ InSection(program[m], s) # {}
      \/ s.type = "Arithmetic" /\ Meaning[program][Source(id)] # 0
      \/ s.type = "ReadADRPGlobal" /\ IsPair(program, Meaning[program][Source(id)])

SuitsSource(id) ==
  LET source == Symbols[Source(id)]
  IN  /\ source.type = "DataBlock" => InBoundary(program, source)
      /\ Resolves(Source(id)) => Meaning[program][Source(id)] # 0

SuitsCandidate(id) ==
  LET s == Symbols[id]
  IN  /\ s.type \in {"Immediate", "DataBlock"} => \E m \in DOMAIN program : Is(program, s.module, m)
      /\ s.type = "DataBlock" => Meaning[program][id] # 0 \/ s.offset = 0
      /\ s.type \in Indirect => Meaning[program][id] # 0

Suits ==
  /\ SuitsModules
  /\ \A id \in Ids : LET s == Symbols[id] IN
       /\ s.type = "DataBlock" => SuitsBlock(s)
       /\ s.type \in Indirect => SuitsSource(id)
       /\ s.type = "MultipleCandidate" =>
            \A i \in DOMAIN s.candidates : SuitsCandidate(s.candidates[i])

SuitedInit == Init /\ Suits
SuitedSpec == SuitedInit /\ [][Next]_vars

(* Threads run, and the code of a lookup waits for nothing. *)
FairSpec == SuitedSpec /\ \A t \in Threads : WF_vars(Proceed(t))

-----------------------------------------------------------------------------
(* A call of apply on the stack. *)
Frames ==
  [id : Ids, abort : BOOLEAN, out : Int, at : Int,
   step : {"enter", "apply", "given"}, tried : Nat]

(* Every variable has its type: in particular the search never leaves the   *)
(* table.                                                                  *)
TypeOK ==
  /\ found \in [DOMAIN Listed -> {NoModule} \union DOMAIN program]
  /\ version \in [DOMAIN program -> Nat]
  /\ listed \in 0 .. Len(Listed) /\ imported \in 0 .. Len(Imports)
  /\ got \in [DOMAIN Imports -> Int]
  /\ statics \in [Wanted -> Int]
  /\ cache \in [Ids -> Int]
  /\ wanted \in [Threads -> Nat \union {NoName}]
  /\ range \in [Threads -> {<<>>} \union ((0 .. Len(Table)) \X (-1 .. Len(Table) - 1))]
  /\ stack \in [Threads -> Seq(Frames)]
  /\ halted \in BOOLEAN

MeaningOf(name) ==
  IF EntriesOf(name) = {} THEN 0
  ELSE Meaning[program][Table[CHOOSE i \in EntriesOf(name) : TRUE]]

(* An address the mod is given, by its imports or by lookupSymbol, is the   *)
(* one the symbol language says, whatever was looked up before, by whom,   *)
(* and through which candidates.                                           *)
AnswersAreRight ==
  /\ \A i \in 1 .. imported : got[i] = MeaningOf(Imports[i].name)
  /\ \A name \in Wanted : statics[name] \in {0, MeaningOf(name)}

(* A cache never keeps what a failed attempt has left behind. *)
CacheIsRight == \A id \in Ids : cache[id] \in {0, Meaning[program][id]}

(* The process ends only if a name that somebody looks up has no meaning in *)
(* the program it runs in; a candidate that does not resolve is not enough. *)
HaltIsJustified ==
  halted => \E t \in Threads : wanted[t] # NoName /\ MeaningOf(wanted[t]) = 0

(* Every lookup ends, in an answer or the end of the process. *)
EveryLookupEnds ==
  \A t \in Threads : wanted[t] # NoName ~> (wanted[t] = NoName \/ halted)
=============================================================================
