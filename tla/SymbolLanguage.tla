--------------------------- MODULE SymbolLanguage ---------------------------
(***************************************************************************)
(* The symbol language of Sail (README.md, "Symbol Language"; the compiler *)
(* in src/sail): what the entries of a symbol database mean in a program.  *)
(* Sail's run time looks them up (Sail.tla).                               *)
(*                                                                         *)
(* A program is a sequence of loaded modules.  A module has a build, a     *)
(* name, a start and three sections; "exports" are its dynamic symbols,    *)
(* "blocks" the places where the bytes of a data block lie, "globals" the  *)
(* addresses that instruction pairs (adrp and ldr or add) in it refer to.  *)
(* Addresses are numbers, and 0 is none.  Versions count from 1.           *)
(***************************************************************************)
EXTENDS Integers, Sequences, FiniteSets

CONSTANTS
  Programs,  (* each a sequence of the loaded modules, by address          *)
  Listed,    (* VersionList.sym: [builds, name] of each module             *)
  Symbols,   (* the entries, as records, by an identity of their own       *)
  Table,     (* gSymbols: the entries to look up, sorted by name hash      *)
  Meaning    (* [Programs -> [Ids -> address]]: see MeaningAssumption      *)

Ids == DOMAIN Symbols

Leaves == {"Immediate", "Dynamic", "DataBlock"}
Indirect == {"ReadADRPGlobal", "Arithmetic"}

EntriesOf(name) == {i \in DOMAIN Table : Symbols[Table[i]].name = name}

(* What an Indirect entry refers to; the compiler has checked it exists. *)
Source(id) == Table[CHOOSE i \in EntriesOf(Symbols[id].source) : TRUE]

(***************************************************************************)
(* The sections of a module, and the places from the start of one of them  *)
(* on at which the bytes of a data block lie.                              *)
(***************************************************************************)
Section(m, limit) ==
  CASE limit = "text"   -> [start |-> m.start, size |-> m.text]
    [] limit = "rodata" -> [start |-> m.start + m.text, size |-> m.rodata]
    [] limit = "data"   -> [start |-> m.start + m.text + m.rodata, size |-> m.data]
    [] limit = "all"    -> [start |-> m.start, size |-> m.text + m.rodata + m.data]

FirstOf(S) == IF S = {} THEN 0 ELSE CHOOSE a \in S : \A b \in S : a <= b

Places(m, s) == {a \in m.blocks[s.block] : Section(m, s.limit).start <= a}

(* ro::lookupSymbol: the first module that exports the name. *)
Exporting(p, name) == {m \in DOMAIN p : name \in DOMAIN p[m].exports}
LookupSymbol(p, name) ==
  IF Exporting(p, name) = {} THEN 0
  ELSE LET m == FirstOf(Exporting(p, name)) IN p[m].start + p[m].exports[name]

(* readADRPGlobal reads two instructions; what they refer to may be 0. *)
Pairs(p, at) == {m \in DOMAIN p : at \in DOMAIN p[m].globals}
IsPair(p, at) == Pairs(p, at) # {}
Global(p, at) == IF IsPair(p, at) THEN p[FirstOf(Pairs(p, at))].globals[at] ELSE 0

Mapped(p, at) ==
  \E m \in DOMAIN p : p[m].start <= at /\ at < p[m].start + Section(p[m], "all").size

-----------------------------------------------------------------------------
(***************************************************************************)
(* What an entry means in a program; 0 if it means nothing there.  Meaning *)
(* is the one mapping that satisfies Definition: an entry may refer to     *)
(* others.                                                                 *)
(***************************************************************************)
Is(p, i, m) ==
  \/ \E v \in DOMAIN Listed[i].builds : Listed[i].builds[v] = p[m].build
  \/ Listed[i].name = p[m].name

InVersion(p, i, versions) ==
  \E m \in DOMAIN p : \E v \in versions \intersect DOMAIN Listed[i].builds :
    Listed[i].builds[v] = p[m].build

BoundaryVersions(s) ==
  LET all == DOMAIN Listed[s.module].builds
  IN  CASE s.boundary = "Older" -> {v \in all : v < s.version}
        [] s.boundary = "From"  -> {v \in all : v >= s.version}

InBoundary(p, s) ==
  \/ s.boundary = "None"
  \/ s.boundary \in {"Older", "From"} /\ InVersion(p, s.module, BoundaryVersions(s))

InSection(m, s) ==
  LET r == Section(m, s.limit)
  IN  {a \in Places(m, s) : a + s.length <= r.start + r.size}

(* The meaning of one entry, "meaning" being that of all. *)
Definition(p, id, meaning) ==
  LET s == Symbols[id]
      modules == {m \in DOMAIN p : Is(p, s.module, m)}
      blocks == UNION {InSection(p[m], s) : m \in modules}
      candidates == {i \in DOMAIN s.candidates : meaning[s.candidates[i]] # 0}
      immediate == {i \in candidates : Symbols[s.candidates[i]].type = "Immediate"}
      source == meaning[Source(id)]
  IN  CASE s.type = "Immediate" ->
             IF InVersion(p, s.module, s.versions) THEN p[FirstOf(modules)].start + s.offset ELSE 0
        [] s.type = "Dynamic" -> LookupSymbol(p, s.export)
        [] s.type = "DataBlock" ->
             IF InBoundary(p, s) /\ blocks # {} THEN FirstOf(blocks) + s.offset ELSE 0
        [] s.type = "ReadADRPGlobal" -> IF source = 0 THEN 0 ELSE Global(p, source)
        [] s.type = "Arithmetic" -> IF source = 0 THEN 0 ELSE source + s.addend
        [] s.type = "MultipleCandidate" ->
             IF candidates = {} THEN 0
             ELSE meaning[s.candidates[FirstOf(IF immediate = {} THEN candidates
                                                ELSE immediate)]]

Types == Leaves \union Indirect \union {"MultipleCandidate"}

(* What is loaded and listed: addresses are not 0, and an instruction pair  *)
(* lies in its module.                                                     *)
ASSUME ProgramAssumption ==
  \A p \in Programs :
    /\ Len(p) \in Nat /\ DOMAIN p = 1 .. Len(p)
    /\ \A m \in DOMAIN p :
         /\ p[m].start \in Nat \ {0}
         /\ p[m].text \in Nat /\ p[m].rodata \in Nat /\ p[m].data \in Nat
         /\ \A name \in DOMAIN p[m].exports : p[m].exports[name] \in Nat
         /\ \A block \in DOMAIN p[m].blocks : p[m].blocks[block] \subseteq Nat \ {0}
         /\ \A at \in DOMAIN p[m].globals :
              /\ at \in p[m].start .. p[m].start + Section(p[m], "all").size - 1
              /\ p[m].globals[at] \in Int

ASSUME ListedAssumption ==
  /\ Len(Listed) \in Nat /\ DOMAIN Listed = 1 .. Len(Listed)
  /\ \A i \in DOMAIN Listed :
       Len(Listed[i].builds) \in Nat /\ DOMAIN Listed[i].builds = 1 .. Len(Listed[i].builds)

(* The fields of an entry, which its type tells. *)
IsEntry(s) ==
  /\ s.type \in Types /\ s.name \in Nat
  /\ s.type = "Immediate" =>
       s.module \in DOMAIN Listed /\ s.versions \subseteq Nat \ {0} /\ s.offset \in Nat
  /\ s.type = "DataBlock" =>
       /\ s.module \in DOMAIN Listed /\ s.offset \in Int /\ s.length \in Nat
       /\ s.limit \in {"text", "rodata", "data", "all"}
       /\ s.boundary \in {"None", "Older", "From"} /\ s.version \in Nat \ {0}
       /\ \A p \in Programs : \A m \in DOMAIN p : s.block \in DOMAIN p[m].blocks
  /\ s.type \in Indirect => s.source \in Nat /\ EntriesOf(s.source) # {}
  /\ s.type = "Arithmetic" => s.addend \in Int
  /\ s.type = "MultipleCandidate" =>
       /\ s.candidates \in Seq(Ids)
       /\ \A i \in DOMAIN s.candidates : Symbols[s.candidates[i]].type # "MultipleCandidate"

ASSUME TableAssumption ==
  /\ Table \in Seq(Ids)
  /\ \A i, j \in DOMAIN Table : i < j => Symbols[Table[i]].name < Symbols[Table[j]].name
  /\ \A id \in Ids : IsEntry(Symbols[id])

(* The mapping Meaning is one that the definitions allow. *)
ASSUME MeaningAssumption ==
  \A p \in Programs : \A id \in Ids :
    Meaning[p][id] = Definition(p, id, Meaning[p]) /\ Meaning[p][id] \in Int
=============================================================================
