----------------------------- MODULE SailProofs -----------------------------
(***************************************************************************)
(* Sail's run time is right (Sail.tla) for any database that suits the     *)
(* program, any program, any number of threads and names, and whatever the *)
(* uninitialized variables hold: its answers and caches are what the       *)
(* symbol language says, and it ends the process only for a name without a *)
(* meaning.                                                                *)
(*                                                                         *)
(* The invariant speaks of each call of apply on a thread's stack: what it *)
(* was called for (Link), what an entry's source has given it (Inner) and  *)
(* which candidates it has tried in vain (Tried).  A call that must not    *)
(* end the process either is of a candidate or has a meaning, and if one   *)
(* that may end it has none, neither has the name the thread looks up.     *)
(***************************************************************************)
EXTENDS Sail, WellFoundedInduction, TLAPS

Means(id) == Meaning[program][id]
TypeOf(f) == Symbols[f.id].type

(* MeaningOf in the program p. *)
MeaningIn(p, name) ==
  IF EntriesOf(name) = {} THEN 0 ELSE Meaning[p][Table[CHOOSE i \in EntriesOf(name) : TRUE]]

(* The candidates a call of MultipleCandidate has got an answer from. *)
Tried(p, f, done) ==
  LET s == Symbols[f.id]
  IN  /\ done \in 0 .. 2 * Len(s.candidates)
      /\ \A n \in 1 .. done : n < done /\ ~Skipped(s, n) => Meaning[p][Candidate(s, n)] = 0
      /\ f.out = IF done = 0 THEN 0
                 ELSE IF Skipped(s, done) THEN 0 ELSE Meaning[p][Candidate(s, done)]

(* A call by itself, for the name w. *)
Inner(p, f, w) ==
  /\ f.abort /\ Meaning[p][f.id] = 0 => MeaningIn(p, w) = 0
  /\ f.step = "given" => TypeOf(f) \in Indirect /\ f.at = Meaning[p][Source(f.id)] /\ f.at # 0
  /\ TypeOf(f) = "MultipleCandidate" /\ f.step = "enter" => f.tried = 0

(* A call f and the call c it was made from. *)
Link(p, c, f) ==
  LET s == Symbols[c.id]
  IN  /\ c.step = "apply"
      /\ \/ /\ s.type = "MultipleCandidate"
            /\ c.tried \in 1 .. 2 * Len(s.candidates) /\ ~Skipped(s, c.tried)
            /\ f.id = Candidate(s, c.tried) /\ ~f.abort /\ c.out = 0 /\ f.out = 0
         \/ /\ s.type \in Indirect
            /\ f.id = Source(c.id) /\ f.abort = c.abort
            /\ ~f.abort => Meaning[p][f.id] # 0

(* The first call, for the name w. *)
Bottom(f, w) ==
  /\ f.abort
  /\ \E i \in EntriesOf(w) : f.id = Table[i]
  /\ TypeOf(f) # "MultipleCandidate" => f.out = 0

(* A call, of which "tried" candidates have answered. *)
CallOK(p, f, w, tried) ==
  /\ Inner(p, f, w)
  /\ TypeOf(f) = "MultipleCandidate" /\ f.step # "enter" => Tried(p, f, tried)

(* The calls that wait for another. *)
Waiting(p, s, w) ==
  /\ s # <<>> => w # NoName /\ Bottom(s[Len(s)], w)
  /\ \A k \in 2 .. Len(s) : CallOK(p, s[k], w, s[k].tried - 1) /\ Link(p, s[k], s[k - 1])

StackOK(p, s, w) == Waiting(p, s, w) /\ (s # <<>> => CallOK(p, s[1], w, s[1].tried))

RangeOK(r, s, w) ==
  r # <<>> =>
    /\ w # NoName
    /\ s # <<>> => TypeOf(s[1]) \in Indirect /\ s[1].step = "apply"
    /\ \A i \in EntriesOf(IF s = <<>> THEN w ELSE Symbols[s[1].id].source) :
         r[1] <= i - 1 /\ i - 1 <= r[2]

(* What a thread looks up. *)
NameOK(t) ==
  /\ wanted[t] = NoName => stack[t] = <<>> /\ range[t] = <<>>
  /\ wanted[t] # NoName =>
       /\ listed = Len(Listed)
       /\ imported < Len(Imports) => t = Loader /\ wanted[t] = Imports[imported + 1].name
       /\ imported = Len(Imports) => wanted[t] \in Wanted

(* What the loader has found. *)
LoadInv ==
  /\ \A i \in DOMAIN Listed : found[i] = IF i <= listed THEN ModuleFor(i) ELSE NoModule
  /\ \A i \in 1 .. listed : OfBuild(i) # {} => version[ModuleFor(i)] = VersionFor(i)
  /\ \A m \in DOMAIN program :
       (\A i \in 1 .. listed : OfBuild(i) # {} => ModuleFor(i) # m) => version[m] = 0

IInv ==
  /\ TypeOK /\ program \in Programs /\ Suits
  /\ LoadInv
  /\ \A t \in Threads : NameOK(t) /\ StackOK(program, stack[t], wanted[t])
                         /\ RangeOK(range[t], stack[t], wanted[t])
  /\ CacheIsRight /\ AnswersAreRight /\ HaltIsJustified

-----------------------------------------------------------------------------
(* Numbers and sequences *)

LEMMA LeastNumber ==
  ASSUME NEW T, T \subseteq Nat, T # {}
  PROVE  \E x \in T : \A y \in T : x <= y
<1> DEFINE below == OpToRel(<, Nat)
<1>1. PICK x \in T : \A y \in T : ~(<<y, x>> \in below)
  <2> HIDE DEF below
  <2>1. IsWellFoundedOn(below, Nat)
    BY NatLessThanWellFounded DEF below
  <2> QED BY <2>1, WFMin, Zenon
<1>2. \A y \in T : ~(y < x)
  BY <1>1 DEF OpToRel
<1> HIDE DEF below
<1>3. \A y \in T : x <= y
  BY <1>1, <1>2
<1> QED BY <1>3, <1>1

LEMMA GreatestNumber ==
  ASSUME NEW n \in Nat, NEW T, T \subseteq 1 .. n, T # {}
  PROVE  \E x \in T : \A y \in T : y <= x
<1> DEFINE mirrored == {i \in 0 .. n : n - i \in T}
<1>1. mirrored \subseteq Nat /\ mirrored # {}
  <2>1. PICK a \in T : TRUE
    OBVIOUS
  <2>2. a \in 1 .. n /\ n - a \in 0 .. n /\ n - (n - a) = a
    BY <2>1
  <2>3. n - a \in mirrored
    BY <2>1, <2>2
  <2>4. mirrored \subseteq Nat
    OBVIOUS
  <2> HIDE DEF mirrored
  <2> QED BY <2>3, <2>4
<1>2. PICK x \in mirrored : \A y \in mirrored : x <= y
  BY <1>1, LeastNumber
<1>3. n - x \in T /\ x \in 0 .. n
  BY <1>2
<1>4. ASSUME NEW y \in T PROVE y <= n - x
  <2>1. y \in 1 .. n /\ n - y \in mirrored
    OBVIOUS
  <2> HIDE DEF mirrored
  <2>2. x <= n - y
    BY <1>2, <2>1
  <2> QED BY <1>3, <2>1, <2>2
<1> HIDE DEF mirrored
<1> QED BY <1>3, <1>4

LEMMA FirstIs ==
  ASSUME NEW S, S \subseteq Nat
  PROVE  /\ FirstOf(S) \in Nat
         /\ S # {} => FirstOf(S) \in S /\ \A b \in S : FirstOf(S) <= b
  BY LeastNumber DEF FirstOf

LEMMA FirstIsOnly ==
  ASSUME NEW S, S \subseteq Nat, NEW a \in S, \A b \in S : a <= b
  PROVE  FirstOf(S) = a
<1>1. FirstOf(S) \in S /\ FirstOf(S) <= a /\ a <= FirstOf(S)
  BY FirstIs
<1>2. FirstOf(S) \in Nat /\ a \in Nat
  BY <1>1
<1> QED BY <1>1, <1>2

LEMMA ElementIs ==
  ASSUME NEW F, NEW s \in Seq(F), NEW i \in DOMAIN s
  PROVE  s[i] \in F
  OBVIOUS

LEMMA PushIs ==
  ASSUME NEW F, NEW s \in Seq(F), NEW f \in F
  PROVE  LET r == <<f>> \o s
         IN  /\ r \in Seq(F) /\ r # <<>> /\ Len(r) = Len(s) + 1 /\ r[1] = f
             /\ \A k \in 2 .. Len(r) : r[k] = s[k - 1]
  OBVIOUS

LEMMA PushTwoIs ==
  ASSUME NEW F, NEW s \in Seq(F), NEW f \in F, NEW g \in F
  PROVE  LET r == <<f, g>> \o s
         IN  /\ r \in Seq(F) /\ r # <<>> /\ Len(r) = Len(s) + 2 /\ r[1] = f /\ r[2] = g
             /\ \A k \in 3 .. Len(r) : r[k] = s[k - 2]
  OBVIOUS

LEMMA TailIs ==
  ASSUME NEW F, NEW s \in Seq(F), s # <<>>
  PROVE  /\ Len(s) \in Nat \ {0} /\ Head(s) = s[1] /\ s[1] \in F
         /\ Tail(s) \in Seq(F) /\ Len(Tail(s)) = Len(s) - 1
         /\ \A k \in 1 .. Len(s) - 1 : Tail(s)[k] = s[k + 1]
  OBVIOUS

-----------------------------------------------------------------------------
(* What is read of the program and the database has its type. *)

LEMMA SectionIs ==
  ASSUME NEW m, m.start \in Nat, m.text \in Nat, m.rodata \in Nat, m.data \in Nat,
         NEW limit \in {"text", "rodata", "data", "all"}
  PROVE  Section(m, limit).start \in Nat /\ Section(m, limit).size \in Nat
  BY DEF Section

LEMMA LookupTyped ==
  ASSUME NEW p \in Programs, NEW name
  PROVE  /\ LookupSymbol(p, name) \in Nat
         /\ LookupSymbol(p, name) = 0 <=> Exporting(p, name) = {}
<1>1. Exporting(p, name) \subseteq Nat /\ \A m \in Exporting(p, name) :
        m \in DOMAIN p /\ name \in DOMAIN p[m].exports
  BY ProgramAssumption DEF Exporting
<1>2. \A m \in Exporting(p, name) : p[m].start \in Nat \ {0} /\ p[m].exports[name] \in Nat
  BY <1>1, ProgramAssumption
<1>3. Exporting(p, name) # {} => FirstOf(Exporting(p, name)) \in Exporting(p, name)
  BY <1>1, FirstIs
<1> QED BY <1>2, <1>3 DEF LookupSymbol

LEMMA GlobalTyped ==
  ASSUME NEW p \in Programs, NEW at
  PROVE  Global(p, at) \in Int /\ (IsPair(p, at) => Mapped(p, at))
<1>1. Pairs(p, at) \subseteq Nat /\ \A m \in Pairs(p, at) : m \in DOMAIN p /\ at \in DOMAIN p[m].globals
  BY ProgramAssumption DEF Pairs
<1>2. \A m \in Pairs(p, at) :
        /\ p[m].globals[at] \in Int
        /\ at \in p[m].start .. p[m].start + Section(p[m], "all").size - 1
  BY <1>1, ProgramAssumption
<1>3. IsPair(p, at) => FirstOf(Pairs(p, at)) \in Pairs(p, at)
  BY <1>1, FirstIs DEF IsPair
<1>4. Global(p, at) \in Int
  BY <1>2, <1>3 DEF Global
<1>5. ASSUME IsPair(p, at) PROVE Mapped(p, at)
  <2>1. PICK m \in Pairs(p, at) : TRUE
    BY <1>5 DEF IsPair
  <2>2. p[m].start \in Nat /\ p[m].text \in Nat /\ p[m].rodata \in Nat /\ p[m].data \in Nat
    BY <1>1, <2>1, ProgramAssumption
  <2>3. Section(p[m], "all").size \in Nat
    BY <2>2, SectionIs
  <2>4. p[m].start <= at /\ at < p[m].start + Section(p[m], "all").size
    BY <1>2, <2>2, <2>3
  <2> QED BY <1>1, <2>4 DEF Mapped
<1> QED BY <1>4, <1>5

LEMMA SearchTyped ==
  ASSUME NEW p \in Programs, NEW m \in DOMAIN p, NEW id \in Ids, Symbols[id].type = "DataBlock"
  PROVE  /\ Search(p[m], Symbols[id]) \in Nat
         /\ InSection(p[m], Symbols[id]) \subseteq Nat \ {0}
<1>1. IsEntry(Symbols[id])
  BY TableAssumption
<1>2. Symbols[id].block \in DOMAIN p[m].blocks
  BY <1>1 DEF IsEntry
<1>3. Places(p[m], Symbols[id]) \subseteq Nat \ {0}
  BY <1>2, ProgramAssumption DEF Places
<1>4. Search(p[m], Symbols[id]) \in Nat
  BY <1>3, FirstIs DEF Search
<1> QED BY <1>3, <1>4 DEF InSection

(* The loader's choice among the loaded modules. *)
LEMMA ModuleForTyped ==
  ASSUME program \in Programs, NEW i \in DOMAIN Listed
  PROVE  /\ ModuleFor(i) \in {NoModule} \union DOMAIN program
         /\ OfBuild(i) # {} => ModuleFor(i) \in OfBuild(i)
         /\ VersionFor(i) \in Nat
<1>1. Len(program) \in Nat /\ DOMAIN program = 1 .. Len(program)
  BY ProgramAssumption
<1>2. OfBuild(i) \subseteq DOMAIN program /\ OfName(i) \subseteq DOMAIN program
  BY DEF OfBuild, OfName
<1>3. OfBuild(i) # {} => FirstOf(OfBuild(i)) \in OfBuild(i)
  BY <1>1, <1>2, FirstIs
<1>4. OfBuild(i) # {} => Listed[i].builds # <<>>
  BY DEF OfBuild
<1>5. OfName(i) # {} => (CHOOSE m \in OfName(i) : \A n \in OfName(i) : n <= m) \in OfName(i)
  <2>1. SUFFICES ASSUME OfName(i) # {}
        PROVE  \E m \in OfName(i) : \A n \in OfName(i) : n <= m
    OBVIOUS
  <2>2. OfName(i) \subseteq 1 .. Len(program)
    BY <1>1, <1>2
  <2> QED BY <1>1, <2>1, <2>2, GreatestNumber
<1>6. ModuleFor(i) \in {NoModule} \union DOMAIN program
  BY <1>2, <1>3, <1>5 DEF ModuleFor
<1>7. VersionFor(i) \in Nat
  <2>1. DOMAIN Listed[i].builds \subseteq Nat
    BY ListedAssumption
  <2> QED BY <2>1, FirstIs DEF VersionFor
<1> QED BY <1>3, <1>4, <1>6, <1>7 DEF ModuleFor

-----------------------------------------------------------------------------
(* Every variable has its type, whatever the database. *)

Typed == TypeOK /\ program \in Programs

LEMMA EntryOf ==
  ASSUME NEW id \in Ids
  PROVE  IsEntry(Symbols[id]) /\ Symbols[id].type \in Types /\ Symbols[id].name \in Nat
  BY TableAssumption DEF IsEntry

LEMMA TopTyped ==
  ASSUME Typed, NEW t \in Threads, stack[t] # <<>>
  PROVE  /\ stack[t] \in Seq(Frames) /\ Top(t) \in Frames /\ Top(t) = stack[t][1]
         /\ Tail(stack[t]) \in Seq(Frames)
         /\ Top(t).id \in Ids /\ Top(t).abort \in BOOLEAN /\ Top(t).out \in Int
         /\ Top(t).at \in Int /\ Top(t).tried \in Nat
<1>1. stack[t] \in Seq(Frames)
  BY DEF Typed, TypeOK
<1>2. Top(t) \in Frames /\ Top(t) = stack[t][1] /\ Tail(stack[t]) \in Seq(Frames)
  BY <1>1, TailIs DEF Top
<1> QED BY <1>1, <1>2 DEF Frames

LEMMA FrameTyped ==
  ASSUME NEW id \in Ids, NEW abort \in BOOLEAN, NEW out \in Int
  PROVE  Frame(id, abort, out) \in Frames
  BY DEF Frame, Frames

LEMMA FrameChanged ==
  ASSUME NEW f \in Frames
  PROVE  /\ \A n \in Nat : /\ [f EXCEPT !.tried = n] \in Frames
                           /\ [f EXCEPT !.tried = n].out = f.out
         /\ [f EXCEPT !.step = "apply",
                      !.out = IF Symbols[f.id].type = "MultipleCandidate" THEN 0 ELSE @] \in Frames
<1>1. ASSUME NEW n \in Nat
      PROVE  [f EXCEPT !.tried = n] \in Frames /\ [f EXCEPT !.tried = n].out = f.out
  BY DEF Frames
<1>2. [f EXCEPT !.step = "apply", !.out = IF Symbols[f.id].type = "MultipleCandidate" THEN 0 ELSE @] \in Frames
  <2> DEFINE out == IF Symbols[f.id].type = "MultipleCandidate" THEN 0 ELSE f.out
  <2>1. out \in Int
    BY DEF Frames
  <2> HIDE DEF out
  <2>2. [f EXCEPT !.step = "apply", !.out = out] \in Frames
    BY <2>1 DEF Frames
  <2> QED BY <2>2 DEF out
<1> QED BY <1>1, <1>2

LEMMA GiveTyped ==
  ASSUME Typed, NEW t \in Threads, stack[t] # <<>>, NEW value \in Int, Give(t, value)
  PROVE  /\ imported' \in 0 .. Len(Imports) /\ got' \in [DOMAIN Imports -> Int]
         /\ statics' \in [Wanted -> Int] /\ wanted' \in [Threads -> Nat \union {NoName}]
         /\ stack' \in [Threads -> Seq(Frames)]
<1> DEFINE rest == Tail(stack[t])
<1>0. /\ imported \in 0 .. Len(Imports) /\ got \in [DOMAIN Imports -> Int]
      /\ statics \in [Wanted -> Int] /\ wanted \in [Threads -> Nat \union {NoName}]
      /\ stack \in [Threads -> Seq(Frames)]
  BY DEF Typed, TypeOK
<1>1. rest \in Seq(Frames)
  BY TopTyped
<1> HIDE DEF rest
<1>2. CASE rest = <<>>
  <2>1. stack' = [stack EXCEPT ![t] = <<>>] /\ wanted' = [wanted EXCEPT ![t] = NoName]
    BY <1>2 DEF Give, rest
  <2>2. stack' \in [Threads -> Seq(Frames)] /\ wanted' \in [Threads -> Nat \union {NoName}]
    BY <1>0, <2>1
  <2>3. \/ /\ imported < Len(Imports) /\ imported' = imported + 1
           /\ got' = [got EXCEPT ![imported + 1] = value] /\ statics' = statics
        \/ imported' = imported /\ got' = got /\ statics' = [statics EXCEPT ![wanted[t]] = value]
    BY <1>2 DEF Give, rest
  <2>4. Len(Imports) \in Nat
    BY SailAssumption
  <2>5. imported' \in 0 .. Len(Imports) /\ got' \in [DOMAIN Imports -> Int] /\ statics' \in [Wanted -> Int]
    BY <1>0, <2>3, <2>4
  <2> QED BY <2>2, <2>5
<1>3. CASE rest # <<>>
  <2> DEFINE caller == Head(rest)
             next == IF Symbols[caller.id].type = "MultipleCandidate"
                       THEN [caller EXCEPT !.out = value]
                       ELSE [caller EXCEPT !.at = value, !.step = "given"]
  <2>1. stack' = [stack EXCEPT ![t] = <<next>> \o Tail(rest)] /\ UNCHANGED <<wanted, results>>
    BY <1>3 DEF Give, rest
  <2>2. caller \in Frames /\ Tail(rest) \in Seq(Frames)
    BY <1>1, <1>3, TailIs
  <2>3. next \in Frames
    BY <2>2 DEF Frames
  <2> HIDE DEF next
  <2>4. <<next>> \o Tail(rest) \in Seq(Frames)
    BY <2>2, <2>3, PushIs
  <2>5. stack' \in [Threads -> Seq(Frames)]
    BY <1>0, <2>1, <2>4
  <2> QED BY <1>0, <2>1, <2>5 DEF results
<1> QED BY <1>2, <1>3

LEMMA ReturnTyped ==
  ASSUME Typed, NEW t \in Threads, stack[t] # <<>>, NEW value \in Int, Return(t, value)
  PROVE  Typed'
<1>1. /\ imported' \in 0 .. Len(Imports) /\ got' \in [DOMAIN Imports -> Int]
      /\ statics' \in [Wanted -> Int] /\ wanted' \in [Threads -> Nat \union {NoName}]
      /\ stack' \in [Threads -> Seq(Frames)]
  BY GiveTyped DEF Return
<1>2. cache' \in [Ids -> Int]
  <2>1. cache \in [Ids -> Int] /\ Top(t).id \in Ids
    BY TopTyped DEF Typed, TypeOK
  <2> QED BY <2>1 DEF Return
<1>3. UNCHANGED <<program, found, version, listed, range, halted>>
  BY DEF Return, loader
<1> QED BY <1>1, <1>2, <1>3 DEF Typed, TypeOK

LEMMA HaltTyped ==
  ASSUME Typed, Halt
  PROVE  Typed'
  BY DEF Halt, Typed, TypeOK, loader, results, lookups

(* A step that changes a thread's stack and range only. *)
LEMMA StackTyped ==
  ASSUME Typed, NEW t \in Threads, NEW s \in Seq(Frames), stack' = [stack EXCEPT ![t] = s],
         range' \in [Threads -> {<<>>} \union ((0 .. Len(Table)) \X (-1 .. Len(Table) - 1))],
         UNCHANGED <<program, loader, results, cache, wanted, halted>>
  PROVE  Typed'
<1>1. stack' \in [Threads -> Seq(Frames)]
  BY DEF Typed, TypeOK
<1> QED BY <1>1 DEF Typed, TypeOK, loader, results

LEMMA StepTyped ==
  ASSUME Typed, NEW t \in Threads, stack[t] # <<>>, NEW f \in Frames, Step(t, f),
         UNCHANGED <<program, loader, results, cache, wanted, range, halted>>
  PROVE  Typed'
<1>1. <<f>> \o Tail(stack[t]) \in Seq(Frames)
  BY TopTyped, PushIs
<1>2. stack' = [stack EXCEPT ![t] = <<f>> \o Tail(stack[t])]
  BY DEF Step, Typed, TypeOK
<1>3. range' \in [Threads -> {<<>>} \union ((0 .. Len(Table)) \X (-1 .. Len(Table) - 1))]
  BY DEF Typed, TypeOK
<1> QED BY <1>1, <1>2, <1>3, StackTyped

LEMMA TableTyped ==
  /\ Len(Table) \in Nat /\ DOMAIN Table = 1 .. Len(Table)
  /\ \A i \in 1 .. Len(Table) : Table[i] \in Ids
  BY TableAssumption

LEMMA StartTyped ==
  ASSUME Typed, NEW t \in Threads, NEW name \in Nat, Start(t, name)
  PROVE  Typed'
<1>1. range' \in [Threads -> {<<>>} \union ((0 .. Len(Table)) \X (-1 .. Len(Table) - 1))]
  <2>1. <<0, Len(Table) - 1>> \in (0 .. Len(Table)) \X (-1 .. Len(Table) - 1)
    BY TableTyped
  <2> QED BY <2>1 DEF Start, Typed, TypeOK
<1>2. wanted' \in [Threads -> Nat \union {NoName}]
  BY DEF Start, Typed, TypeOK
<1> QED BY <1>1, <1>2 DEF Start, Typed, TypeOK, loader, results

LEMMA LoadVersionTyped ==
  ASSUME Typed, LoadVersion
  PROVE  Typed'
<1> DEFINE i == listed + 1
<1>1. i \in DOMAIN Listed /\ i \in 0 .. Len(Listed)
  BY ListedAssumption DEF Typed, TypeOK, LoadVersion
<1>2. /\ ModuleFor(i) \in {NoModule} \union DOMAIN program
      /\ OfBuild(i) # {} => ModuleFor(i) \in OfBuild(i)
      /\ VersionFor(i) \in Nat
  BY <1>1, ModuleForTyped DEF Typed
<1>3. found' \in [DOMAIN Listed -> {NoModule} \union DOMAIN program]
  <2>1. found' = [found EXCEPT ![i] = ModuleFor(i)]
    BY DEF LoadVersion
  <2> QED BY <1>2, <2>1 DEF Typed, TypeOK
<1>4. version' \in [DOMAIN program -> Nat]
  <2>1. version' = IF OfBuild(i) = {} THEN version ELSE [version EXCEPT ![ModuleFor(i)] = VersionFor(i)]
    BY DEF LoadVersion
  <2> QED BY <1>2, <2>1 DEF Typed, TypeOK
<1>5. listed' \in 0 .. Len(Listed)
  BY <1>1 DEF LoadVersion
<1> HIDE DEF i
<1>6. UNCHANGED <<program, imported, got, statics, cache, wanted, range, stack, halted>>
  BY DEF LoadVersion, results, lookups
<1> QED BY <1>3, <1>4, <1>5, <1>6 DEF Typed, TypeOK

LEMMA RangeTyped ==
  ASSUME Typed, NEW t \in Threads, range[t] # <<>>, range[t][1] <= range[t][2]
  PROVE  LET low == range[t][1]
             high == range[t][2]
             mid == (low + high) \div 2
         IN  /\ low \in 0 .. Len(Table) - 1 /\ high \in 0 .. Len(Table) - 1
             /\ mid \in low .. high /\ mid + 1 \in DOMAIN Table /\ Table[mid + 1] \in Ids
             /\ range[t] = <<low, high>>
<1>1. range[t] \in (0 .. Len(Table)) \X (-1 .. Len(Table) - 1)
  BY DEF Typed, TypeOK
<1>2. range[t][1] \in 0 .. Len(Table) - 1 /\ range[t][2] \in 0 .. Len(Table) - 1
  BY <1>1, TableTyped
<1>3. range[t] = <<range[t][1], range[t][2]>>
  BY <1>1
<1>4. (range[t][1] + range[t][2]) \div 2 \in range[t][1] .. range[t][2]
  BY <1>2, TableTyped
<1> QED BY <1>2, <1>3, <1>4, TableTyped

LEMMA ProbeTyped ==
  ASSUME Typed, NEW t \in Threads, Probe(t)
  PROVE  Typed'
<1> DEFINE low == range[t][1]
           high == range[t][2]
           mid == (low + high) \div 2
           id == Table[mid + 1]
           ranges == {<<>>} \union ((0 .. Len(Table)) \X (-1 .. Len(Table) - 1))
<1>1. /\ low \in 0 .. Len(Table) - 1 /\ high \in 0 .. Len(Table) - 1
      /\ mid \in low .. high /\ id \in Ids
  BY RangeTyped DEF Probe
<1>2. UNCHANGED <<program, loader, results, cache, wanted, halted>>
  BY DEF Probe
<1>3. /\ stack \in [Threads -> Seq(Frames)] /\ stack[t] \in Seq(Frames)
      /\ range \in [Threads -> ranges]
  BY DEF Typed, TypeOK
<1>4. CASE /\ range' = [range EXCEPT ![t] = <<>>]
           /\ IF stack[t] = <<>> THEN Call(t, id, TRUE, 0)
              ELSE \E out \in Garbage : Call(t, id, Top(t).abort, out)
  <2>1. PICK abort \in BOOLEAN, out \in Int : Call(t, id, abort, out)
    <3>1. CASE stack[t] = <<>>
      <4>1. 0 \in Int
        OBVIOUS
      <4>2. Call(t, id, TRUE, 0)
        BY <1>4, <3>1, Zenon
      <4> QED BY <4>1, <4>2, Zenon
    <3>2. CASE stack[t] # <<>>
      <4>1. PICK out \in Garbage : Call(t, id, Top(t).abort, out)
        BY <1>4, <3>2
      <4>2. out \in Int /\ Top(t).abort \in BOOLEAN
        BY <3>2, SailAssumption, TopTyped
      <4> QED BY <4>1, <4>2, Zenon
    <3> QED BY <3>1, <3>2
  <2>2. Frame(id, abort, out) \in Frames
    BY <1>1, FrameTyped
  <2> HIDE DEF id
  <2>3. /\ <<Frame(id, abort, out)>> \o stack[t] \in Seq(Frames)
        /\ stack' = [stack EXCEPT ![t] = <<Frame(id, abort, out)>> \o stack[t]]
    BY <1>3, <2>1, <2>2, PushIs DEF Call
  <2>4. range' \in [Threads -> ranges]
    BY <1>3, <1>4
  <2> QED BY <1>2, <2>3, <2>4, StackTyped
<1>5. CASE stack' = stack /\ \E r \in ranges : range' = [range EXCEPT ![t] = r]
  <2>1. stack' = [stack EXCEPT ![t] = stack[t]] /\ range' \in [Threads -> ranges]
    BY <1>3, <1>5
  <2> QED BY <1>2, <1>3, <2>1, StackTyped
<1>6. <<mid + 1, high>> \in ranges /\ <<low, mid - 1>> \in ranges
  <2> HIDE DEF low, high, mid
  <2>1. mid + 1 \in 0 .. Len(Table) /\ mid - 1 \in -1 .. Len(Table) - 1
    BY <1>1, TableTyped
  <2> QED BY <1>1, <2>1, TableTyped
<1>7. \/ /\ range' = [range EXCEPT ![t] = <<>>]
         /\ IF stack[t] = <<>> THEN Call(t, id, TRUE, 0)
            ELSE \E out \in Garbage : Call(t, id, Top(t).abort, out)
      \/ stack' = stack /\ \E r \in ranges : range' = [range EXCEPT ![t] = r]
  BY <1>6, Zenon DEF Probe
<1> QED BY <1>4, <1>5, <1>7

LEMMA NotFoundTyped ==
  ASSUME Typed, NEW t \in Threads, NotFound(t)
  PROVE  Typed'
<1>1. CASE Halt
  BY <1>1, HaltTyped
<1>2. CASE /\ imported < Len(Imports)
           /\ got' = [got EXCEPT ![imported + 1] = 0] /\ imported' = imported + 1
           /\ wanted' = [wanted EXCEPT ![t] = NoName] /\ range' = [range EXCEPT ![t] = <<>>]
           /\ UNCHANGED <<program, loader, statics, cache, stack, halted>>
  <2>1. Len(Imports) \in Nat
    BY SailAssumption
  <2>2. imported' \in 0 .. Len(Imports) /\ got' \in [DOMAIN Imports -> Int]
    <3>1. imported \in 0 .. Len(Imports) /\ got \in [DOMAIN Imports -> Int]
      BY DEF Typed, TypeOK
    <3>2. imported' = imported + 1 /\ imported < Len(Imports)
      BY <1>2
    <3>3. imported' \in 0 .. Len(Imports)
      BY <2>1, <3>1, <3>2
    <3> QED BY <1>2, <3>1, <3>3
  <2>3. /\ wanted' \in [Threads -> Nat \union {NoName}]
        /\ range' \in [Threads -> {<<>>} \union ((0 .. Len(Table)) \X (-1 .. Len(Table) - 1))]
    BY <1>2 DEF Typed, TypeOK
  <2> QED BY <1>2, <2>2, <2>3 DEF Typed, TypeOK, loader
<1> QED BY <1>1, <1>2 DEF NotFound

LEMMA HitTyped ==
  ASSUME Typed, NEW t \in Threads, Hit(t)
  PROVE  Typed'
<1>1. stack[t] # <<>>
  BY DEF Hit, TopIs
<1>2. cache[Top(t).id] \in Int
  BY <1>1, TopTyped DEF Typed, TypeOK
<1>3. /\ imported' \in 0 .. Len(Imports) /\ got' \in [DOMAIN Imports -> Int]
      /\ statics' \in [Wanted -> Int] /\ wanted' \in [Threads -> Nat \union {NoName}]
      /\ stack' \in [Threads -> Seq(Frames)]
  BY <1>1, <1>2, GiveTyped DEF Hit
<1>4. UNCHANGED <<program, found, version, listed, cache, range, halted>>
  BY DEF Hit, loader
<1> QED BY <1>3, <1>4 DEF Typed, TypeOK

LEMMA MissTyped ==
  ASSUME Typed, NEW t \in Threads, Miss(t)
  PROVE  Typed'
<1>1. stack[t] # <<>>
  BY DEF Miss, TopIs
<1> DEFINE f == [Top(t) EXCEPT !.step = "apply",
                   !.out = IF Symbols[Top(t).id].type = "MultipleCandidate" THEN 0 ELSE @]
<1>2. f \in Frames
  BY <1>1, TopTyped, FrameChanged
<1>3. Step(t, f) /\ UNCHANGED <<program, loader, results, cache, wanted, range, halted>>
  BY DEF Miss
<1> HIDE DEF f
<1> QED BY <1>1, <1>2, <1>3, StepTyped

LEMMA UnresolvedTyped ==
  ASSUME Typed, NEW t \in Threads, stack[t] # <<>>, Unresolved(t)
  PROVE  Typed'
<1>1. Top(t).out \in Int
  BY TopTyped
<1> QED BY <1>1, HaltTyped, ReturnTyped DEF Unresolved

(* The value each kind of entry ends with is a number. *)
LEMMA LeafTyped ==
  ASSUME Typed, NEW t \in Threads, ApplyImmediate(t) \/ ApplyDynamic(t) \/ ApplyDataBlock(t)
  PROVE  Typed'
<1> DEFINE id == Top(t).id
           s == Symbols[id]
<1>1. /\ stack[t] # <<>> /\ id \in Ids /\ IsEntry(s) /\ Top(t).out \in Int
      /\ program \in Programs /\ found \in [DOMAIN Listed -> {NoModule} \union DOMAIN program]
  BY TopTyped, EntryOf DEF ApplyImmediate, ApplyDynamic, ApplyDataBlock, TopIs, Typed, TypeOK
<1>2. CASE ApplyImmediate(t)
  <2>1. s.type = "Immediate"
    BY <1>2 DEF ApplyImmediate, TopIs
  <2>2. s.module \in DOMAIN Listed /\ s.offset \in Nat
    BY <1>1, <2>1 DEF IsEntry
  <2>3. found[s.module] # NoModule => program[found[s.module]].start + s.offset \in Int
    <3>1. SUFFICES ASSUME found[s.module] # NoModule
          PROVE  program[found[s.module]].start \in Nat
      BY <2>2
    <3>2. found[s.module] \in DOMAIN program
      BY <1>1, <2>2, <3>1
    <3> QED BY <1>1, <3>2, ProgramAssumption
  <2>4. \/ Halt \/ Unresolved(t)
        \/ found[s.module] # NoModule /\ Return(t, program[found[s.module]].start + s.offset)
    BY <1>2 DEF ApplyImmediate
  <2> HIDE DEF s, id
  <2> QED BY <1>1, <2>3, <2>4, HaltTyped, UnresolvedTyped, ReturnTyped
<1>3. CASE ApplyDynamic(t)
  <2>1. LookupSymbol(program, s.export) \in Int
    BY <1>1, LookupTyped
  <2>2. Halt \/ Return(t, LookupSymbol(program, s.export))
    BY <1>3 DEF ApplyDynamic
  <2> HIDE DEF s, id
  <2> QED BY <1>1, <2>1, <2>2, HaltTyped, ReturnTyped
<1>4. CASE ApplyDataBlock(t)
  <2> DEFINE address == Search(program[found[s.module]], s)
  <2>1. s.type = "DataBlock"
    BY <1>4 DEF ApplyDataBlock, TopIs
  <2>2. s.module \in DOMAIN Listed /\ s.offset \in Int
    BY <1>1, <2>1 DEF IsEntry
  <2>3. found[s.module] # NoModule => address + s.offset \in Int
    <3>1. SUFFICES ASSUME found[s.module] # NoModule PROVE address \in Nat
      BY <2>2
    <3>2. found[s.module] \in DOMAIN program
      BY <1>1, <2>2, <3>1
    <3> QED BY <1>1, <2>1, <3>2, SearchTyped
  <2>4. \/ Halt \/ Return(t, Top(t).out)
        \/ found[s.module] # NoModule /\ Return(t, address + s.offset)
    BY <1>4 DEF ApplyDataBlock
  <2> HIDE DEF s, id, address
  <2> QED BY <1>1, <2>3, <2>4, HaltTyped, ReturnTyped
<1> QED BY <1>2, <1>3, <1>4

LEMMA IndirectTyped ==
  ASSUME Typed, NEW t \in Threads, SeekSource(t) \/ ApplyArithmetic(t) \/ ApplyReadADRPGlobal(t)
  PROVE  Typed'
<1>1. /\ stack[t] # <<>> /\ Top(t).id \in Ids /\ IsEntry(Symbols[Top(t).id]) /\ Top(t).at \in Int
      /\ stack \in [Threads -> Seq(Frames)] /\ stack[t] \in Seq(Frames)
  BY TopTyped, EntryOf DEF SeekSource, ApplyArithmetic, ApplyReadADRPGlobal, TopIs, Typed, TypeOK
<1>2. CASE SeekSource(t)
  <2>1. <<0, Len(Table) - 1>> \in (0 .. Len(Table)) \X (-1 .. Len(Table) - 1)
    BY TableTyped
  <2>2. range' \in [Threads -> {<<>>} \union ((0 .. Len(Table)) \X (-1 .. Len(Table) - 1))]
    BY <1>2, <2>1 DEF SeekSource, Typed, TypeOK
  <2>3. stack' = [stack EXCEPT ![t] = stack[t]]
    BY <1>1, <1>2 DEF SeekSource
  <2> QED BY <1>1, <1>2, <2>2, <2>3, StackTyped DEF SeekSource
<1>3. CASE ApplyArithmetic(t)
  <2>1. Symbols[Top(t).id].addend \in Int
    BY <1>1, <1>3 DEF ApplyArithmetic, TopIs, IsEntry
  <2>2. Top(t).at + Symbols[Top(t).id].addend \in Int
    BY <1>1, <2>1
  <2> QED BY <1>1, <1>3, <2>2, ReturnTyped DEF ApplyArithmetic
<1>4. CASE ApplyReadADRPGlobal(t)
  <2>1. Global(program, Top(t).at) \in Int
    BY GlobalTyped DEF Typed
  <2>2. Halt \/ Unresolved(t) \/ Return(t, Global(program, Top(t).at))
    BY <1>4 DEF ApplyReadADRPGlobal
  <2> QED BY <1>1, <2>1, <2>2, HaltTyped, UnresolvedTyped, ReturnTyped
<1> QED BY <1>2, <1>3, <1>4

LEMMA CandidateTyped ==
  ASSUME NEW id \in Ids, Symbols[id].type = "MultipleCandidate",
         NEW n \in 1 .. 2 * Len(Symbols[id].candidates)
  PROVE  /\ Len(Symbols[id].candidates) \in Nat
         /\ Candidate(Symbols[id], n) \in Ids
         /\ Symbols[Candidate(Symbols[id], n)].type # "MultipleCandidate"
         /\ \E i \in DOMAIN Symbols[id].candidates : Candidate(Symbols[id], n) = Symbols[id].candidates[i]
<1> DEFINE c == Symbols[id].candidates
<1>1. c \in Seq(Ids) /\ \A i \in DOMAIN c : Symbols[c[i]].type # "MultipleCandidate"
  BY EntryOf DEF IsEntry
<1>2. Len(c) \in Nat /\ DOMAIN c = 1 .. Len(c) /\ \A i \in 1 .. Len(c) : c[i] \in Ids
  BY <1>1
<1>3. (IF n <= Len(c) THEN n ELSE n - Len(c)) \in 1 .. Len(c)
  BY <1>2
<1> QED BY <1>1, <1>2, <1>3 DEF Candidate

LEMMA MultipleTyped ==
  ASSUME Typed, NEW t \in Threads, ApplyMultipleCandidate(t)
  PROVE  Typed'
<1> DEFINE s == Symbols[Top(t).id]
           n == Top(t).tried + 1
           next == [Top(t) EXCEPT !.tried = n]
<1>1. /\ stack[t] # <<>> /\ Top(t).id \in Ids /\ IsEntry(s) /\ Top(t).out \in Int
      /\ Top(t) \in Frames /\ Top(t).tried \in Nat /\ Tail(stack[t]) \in Seq(Frames)
      /\ stack \in [Threads -> Seq(Frames)]
  BY TopTyped, EntryOf DEF ApplyMultipleCandidate, TopIs, Typed, TypeOK
<1>2. s.type = "MultipleCandidate"
  BY DEF ApplyMultipleCandidate, TopIs
<1>3. next \in Frames /\ next.out = Top(t).out
  <2>1. n \in Nat
    BY <1>1
  <2> QED BY <1>1, <2>1, FrameChanged
<1>4. CASE Halt
  BY <1>4, HaltTyped
<1>5. CASE Return(t, Top(t).out)
  BY <1>1, <1>5, ReturnTyped
<1>6. CASE Step(t, next) /\ UNCHANGED <<program, loader, results, cache, wanted, range, halted>>
  <2> HIDE DEF next
  <2> QED BY <1>1, <1>3, <1>6, StepTyped
<1>7. CASE /\ ~(n > 2 * Len(s.candidates))
           /\ stack' = [stack EXCEPT ![t] = <<Frame(Candidate(s, n), FALSE, next.out), next>> \o Tail(@)]
           /\ UNCHANGED <<program, loader, results, cache, wanted, range, halted>>
  <2>1. Len(s.candidates) \in Nat
    BY <1>1, <1>2 DEF IsEntry
  <2>2. n \in 1 .. 2 * Len(s.candidates)
    BY <1>1, <1>7, <2>1
  <2>3. Candidate(s, n) \in Ids
    BY <1>1, <1>2, <2>2, CandidateTyped
  <2>4. Frame(Candidate(s, n), FALSE, next.out) \in Frames
    BY <1>1, <1>3, <2>3, FrameTyped
  <2>5. stack' = [stack EXCEPT ![t] = <<Frame(Candidate(s, n), FALSE, next.out), next>> \o Tail(stack[t])]
    BY <1>1, <1>7
  <2>6. range' \in [Threads -> {<<>>} \union ((0 .. Len(Table)) \X (-1 .. Len(Table) - 1))]
    BY <1>7 DEF Typed, TypeOK
  <2> HIDE DEF next, s, n
  <2>7. <<Frame(Candidate(s, n), FALSE, next.out), next>> \o Tail(stack[t]) \in Seq(Frames)
    BY <1>1, <1>3, <2>4, PushTwoIs
  <2> QED BY <1>7, <2>5, <2>6, <2>7, StackTyped
<1> QED BY <1>4, <1>5, <1>6, <1>7 DEF ApplyMultipleCandidate

LEMMA ImportTyped ==
  ASSUME Typed, imported < Len(Imports)
  PROVE  Imports[imported + 1].name \in Nat /\ Loader \in Threads
<1> DEFINE references == [name : Nat, weak : BOOLEAN]
<1>1. imported + 1 \in DOMAIN Imports
  BY SailAssumption DEF Typed, TypeOK
<1>2. Imports \in Seq(references)
  BY SailAssumption
<1> HIDE DEF references
<1>3. Imports[imported + 1] \in references
  BY <1>1, <1>2, ElementIs
<1> QED BY <1>3, SailAssumption DEF references

LEMMA NextTyped == Typed /\ [Next]_vars => Typed'
<1> SUFFICES ASSUME Typed, [Next]_vars PROVE Typed'
  OBVIOUS
<1>1. CASE LoadVersion
  BY <1>1, LoadVersionTyped
<1>2. CASE Import
  <2>3. Imports[imported + 1].name \in Nat /\ Loader \in Threads
    BY <1>2, ImportTyped DEF Import
  <2> QED BY <1>2, <2>3, StartTyped DEF Import
<1>3. ASSUME NEW t \in Threads, NEW name \in Wanted, Lookup(t, name) PROVE Typed'
  <2>1. name \in Nat
    BY SailAssumption
  <2> QED BY <1>3, <2>1, StartTyped DEF Lookup
<1>4. ASSUME NEW t \in Threads, Proceed(t) PROVE Typed'
  BY <1>4, ProbeTyped, NotFoundTyped, HitTyped, MissTyped, LeafTyped, IndirectTyped, MultipleTyped
     DEF Proceed, Apply
<1>5. CASE UNCHANGED vars
  BY <1>5 DEF vars, loader, results, lookups, Typed, TypeOK
<1> QED BY <1>1, <1>2, <1>3, <1>4, <1>5 DEF Next

LEMMA InitTyped == Init => Typed
<1> SUFFICES ASSUME Init PROVE Typed
  OBVIOUS
<1>1. Len(Listed) \in Nat /\ Len(Imports) \in Nat
  BY ListedAssumption, SailAssumption
<1>2. found \in [DOMAIN Listed -> {NoModule} \union DOMAIN program] /\ version \in [DOMAIN program -> Nat]
  BY DEF Init
<1>3. /\ listed \in 0 .. Len(Listed) /\ imported \in 0 .. Len(Imports)
      /\ got \in [DOMAIN Imports -> Int] /\ statics \in [Wanted -> Int] /\ cache \in [Ids -> Int]
  BY <1>1 DEF Init
<1>4. /\ wanted \in [Threads -> Nat \union {NoName}] /\ halted \in BOOLEAN
      /\ range \in [Threads -> {<<>>} \union ((0 .. Len(Table)) \X (-1 .. Len(Table) - 1))]
      /\ stack \in [Threads -> Seq(Frames)]
  <2>1. <<>> \in Seq(Frames)
    OBVIOUS
  <2> QED BY <2>1 DEF Init
<1> QED BY <1>2, <1>3, <1>4 DEF Init, Typed, TypeOK

(* Whatever the database and the program, the search never leaves the      *)
(* table, a listed module is a loaded one or none, and what is kept of     *)
(* answers are numbers.                                                    *)
THEOREM SailTypeCorrect == Spec => []TypeOK
<1>1. Spec => []Typed
  BY InitTyped, NextTyped, PTL DEF Spec
<1>2. Typed => TypeOK
  BY DEF Typed
<1> QED BY <1>1, <1>2, PTL

-----------------------------------------------------------------------------
(* The symbol language *)

LEMMA OneEntry ==
  ASSUME NEW name \in Nat, NEW i \in EntriesOf(name)
  PROVE  /\ \A j \in EntriesOf(name) : j = i
         /\ i \in 1 .. Len(Table) /\ Table[i] \in Ids /\ Symbols[Table[i]].name = name
         /\ (CHOOSE j \in EntriesOf(name) : TRUE) = i
<1>1. i \in DOMAIN Table /\ \A j \in EntriesOf(name) : j \in DOMAIN Table /\ Symbols[Table[j]].name = name
  BY DEF EntriesOf
<1>2. ASSUME NEW j \in EntriesOf(name) PROVE j = i
  <2>1. ~(i < j) /\ ~(j < i)
    BY <1>1, TableAssumption
  <2> QED BY <1>1, <2>1, TableTyped
<1>3. (CHOOSE j \in EntriesOf(name) : TRUE) \in EntriesOf(name)
  OBVIOUS
<1> QED BY <1>1, <1>2, <1>3, TableTyped

LEMMA SourceIs ==
  ASSUME NEW id \in Ids, Symbols[id].type \in Indirect
  PROVE  /\ Symbols[id].source \in Nat /\ EntriesOf(Symbols[id].source) # {}
         /\ Source(id) \in Ids
         /\ \A i \in EntriesOf(Symbols[id].source) : Table[i] = Source(id)
<1>1. Symbols[id].source \in Nat /\ EntriesOf(Symbols[id].source) # {}
  BY EntryOf DEF IsEntry
<1>2. PICK i \in EntriesOf(Symbols[id].source) : TRUE
  BY <1>1
<1> QED BY <1>1, <1>2, OneEntry DEF Source

LEMMA MeaningOfIs ==
  ASSUME NEW name \in Nat
  PROVE  /\ EntriesOf(name) = {} => MeaningOf(name) = 0
         /\ \A i \in EntriesOf(name) : MeaningOf(name) = Means(Table[i])
<1>1. ASSUME NEW i \in EntriesOf(name) PROVE MeaningOf(name) = Means(Table[i])
  <2>1. (CHOOSE j \in EntriesOf(name) : TRUE) = i
    BY OneEntry
  <2> QED BY <2>1 DEF MeaningOf, Means
<1> QED BY <1>1 DEF MeaningOf

LEMMA MeansTyped ==
  ASSUME program \in Programs, NEW id \in Ids
  PROVE  Means(id) \in Int /\ Means(id) = Definition(program, id, Meaning[program])
  BY MeaningAssumption DEF Means

LEMMA MeansIndirect ==
  ASSUME program \in Programs, NEW id \in Ids, Symbols[id].type \in Indirect
  PROVE  /\ Symbols[id].type = "Arithmetic" =>
              Means(id) = IF Means(Source(id)) = 0 THEN 0 ELSE Means(Source(id)) + Symbols[id].addend
         /\ Symbols[id].type = "ReadADRPGlobal" =>
              Means(id) = IF Means(Source(id)) = 0 THEN 0 ELSE Global(program, Means(Source(id)))
         /\ Means(Source(id)) = 0 => Means(id) = 0
<1>1. CASE Symbols[id].type = "Arithmetic"
  BY <1>1, MeansTyped DEF Definition, Means
<1>2. CASE Symbols[id].type = "ReadADRPGlobal"
  BY <1>2, MeansTyped DEF Definition, Means
<1> QED BY <1>1, <1>2 DEF Indirect

LEMMA MeansDynamic ==
  ASSUME program \in Programs, NEW id \in Ids, Symbols[id].type = "Dynamic"
  PROVE  Means(id) = LookupSymbol(program, Symbols[id].export)
  BY MeansTyped DEF Definition

LEMMA MeansImmediate ==
  ASSUME program \in Programs, NEW id \in Ids, Symbols[id].type = "Immediate"
  PROVE  Means(id) = IF InVersion(program, Symbols[id].module, Symbols[id].versions)
                       THEN program[FirstOf({m \in DOMAIN program : Is(program, Symbols[id].module, m)})].start
                              + Symbols[id].offset
                       ELSE 0
  BY MeansTyped DEF Definition

LEMMA MeansDataBlock ==
  ASSUME program \in Programs, NEW id \in Ids, Symbols[id].type = "DataBlock"
  PROVE  LET blocks == UNION {InSection(program[m], Symbols[id]) :
                                m \in {n \in DOMAIN program : Is(program, Symbols[id].module, n)}}
         IN  Means(id) = IF InBoundary(program, Symbols[id]) /\ blocks # {}
                           THEN FirstOf(blocks) + Symbols[id].offset ELSE 0
  BY MeansTyped DEF Definition

(* Of candidates those that are immediate come first. *)
LEMMA MeansMultiple ==
  ASSUME program \in Programs, NEW id \in Ids, Symbols[id].type = "MultipleCandidate"
  PROVE  LET c == Symbols[id].candidates
             meaning == {i \in DOMAIN c : Means(c[i]) # 0}
             immediate == {i \in meaning : Symbols[c[i]].type = "Immediate"}
         IN  Means(id) = IF meaning = {} THEN 0
                         ELSE Means(c[FirstOf(IF immediate = {} THEN meaning ELSE immediate)])
  BY MeansTyped DEF Definition, Means

-----------------------------------------------------------------------------
(* The loader *)

LEMMA ModuleForIs ==
  ASSUME program \in Programs, SuitsModules, NEW i \in DOMAIN Listed
  PROVE  /\ ModuleFor(i) = NoModule => \A m \in DOMAIN program : ~Is(program, i, m)
         /\ ModuleFor(i) # NoModule =>
              /\ ModuleFor(i) \in DOMAIN program /\ Is(program, i, ModuleFor(i))
              /\ \A m \in DOMAIN program : Is(program, i, m) => m = ModuleFor(i)
         /\ OfBuild(i) # {} => ModuleFor(i) \in OfBuild(i)
<1>1. Len(program) \in Nat /\ DOMAIN program = 1 .. Len(program)
  BY ProgramAssumption
<1>2. OfBuild(i) \subseteq DOMAIN program /\ OfName(i) \subseteq DOMAIN program /\ NoModule \notin DOMAIN program
  BY <1>1 DEF OfBuild, OfName, NoModule
<1>3. \A m \in DOMAIN program : Is(program, i, m) <=> m \in OfBuild(i) \/ m \in OfName(i)
  BY DEF Is, OfBuild, OfName
<1>4. Listed[i].builds # <<>> /\ \A m, n \in DOMAIN program : Is(program, i, m) /\ Is(program, i, n) => m = n
  BY DEF SuitsModules
<1>5. OfBuild(i) # {} => ModuleFor(i) \in OfBuild(i)
  BY ModuleForTyped
<1>6. OfName(i) # {} => \E m \in OfName(i) : \A n \in OfName(i) : n <= m
  <2>1. OfName(i) \subseteq 1 .. Len(program)
    BY <1>1, <1>2
  <2> QED BY <1>1, <2>1, GreatestNumber
<1>7. OfBuild(i) = {} /\ OfName(i) # {} => ModuleFor(i) \in OfName(i)
  BY <1>4, <1>6 DEF ModuleFor
<1>8. OfBuild(i) = {} /\ OfName(i) = {} => ModuleFor(i) = NoModule
  BY DEF ModuleFor
<1> QED BY <1>2, <1>3, <1>4, <1>5, <1>7, <1>8

(* A module's version is that of its build, 0 if the build is not listed. *)
VersionIs(i, v) ==
  /\ v \in Nat /\ (v # 0 => v \in DOMAIN Listed[i].builds)
  /\ \A w \in DOMAIN Listed[i].builds : Listed[i].builds[w] = program[ModuleFor(i)].build <=> w = v

LEMMA VersionForIs ==
  ASSUME program \in Programs, SuitsModules, NEW i \in DOMAIN Listed, ModuleFor(i) # NoModule
  PROVE  IF OfBuild(i) # {} THEN VersionIs(i, VersionFor(i)) ELSE VersionIs(i, 0)
<1> DEFINE b == Listed[i].builds
           m == ModuleFor(i)
           V == {v \in DOMAIN b : b[v] = program[m].build}
<1>1. DOMAIN b \subseteq Nat \ {0} /\ \A v, w \in DOMAIN b : b[v] = b[w] => v = w
  BY ListedAssumption DEF SuitsModules
<1>2. m \in DOMAIN program
  BY ModuleForIs
<1>3. CASE OfBuild(i) # {}
  <2>1. m \in OfBuild(i)
    BY <1>3, ModuleForIs
  <2>2. V # {} /\ V \subseteq Nat
    BY <1>1, <2>1 DEF OfBuild
  <2>3. VersionFor(i) = FirstOf(V)
    BY DEF VersionFor
  <2>4. VersionFor(i) \in V
    BY <2>2, <2>3, FirstIs
  <2> QED BY <1>1, <1>3, <2>4 DEF VersionIs
<1>4. CASE OfBuild(i) = {}
  <2>1. \A w \in DOMAIN b : b[w] # program[m].build
    BY <1>2, <1>4 DEF OfBuild
  <2> QED BY <1>1, <1>4, <2>1 DEF VersionIs
<1> QED BY <1>3, <1>4

(* Two listed modules are not the same loaded one. *)
LEMMA ModulesDiffer ==
  ASSUME program \in Programs, SuitsModules, NEW i \in DOMAIN Listed, NEW j \in DOMAIN Listed,
         ModuleFor(i) # NoModule, ModuleFor(i) = ModuleFor(j)
  PROVE  i = j
<1>1. ModuleFor(i) \in DOMAIN program /\ Is(program, i, ModuleFor(i)) /\ Is(program, j, ModuleFor(i))
  BY ModuleForIs
<1> QED BY <1>1 DEF SuitsModules

(* Once all are found, an entry's module and version are known. *)
LEMMA FoundIs ==
  ASSUME Typed, Suits, LoadInv, listed = Len(Listed), NEW i \in DOMAIN Listed
  PROVE  /\ found[i] = NoModule => \A m \in DOMAIN program : ~Is(program, i, m)
         /\ found[i] # NoModule =>
              /\ found[i] \in DOMAIN program /\ Is(program, i, found[i])
              /\ {m \in DOMAIN program : Is(program, i, m)} = {found[i]}
              /\ VersionIs(i, version[found[i]]) /\ found[i] = ModuleFor(i)
<1>1. program \in Programs /\ SuitsModules
  BY DEF Typed, Suits
<1>2. i \in 1 .. listed /\ \A j \in 1 .. listed : j \in DOMAIN Listed
  BY ListedAssumption
<1>3. found[i] = ModuleFor(i)
  BY <1>2 DEF LoadInv
<1>4. ASSUME found[i] # NoModule PROVE VersionIs(i, version[found[i]])
  <2>1. ModuleFor(i) # NoModule /\ ModuleFor(i) \in DOMAIN program
    BY <1>1, <1>3, <1>4, ModuleForIs
  <2>2. CASE OfBuild(i) # {}
    <3>1. version[ModuleFor(i)] = VersionFor(i)
      BY <1>2, <2>2 DEF LoadInv
    <3> QED BY <1>1, <1>3, <2>1, <2>2, <3>1, VersionForIs
  <2>3. CASE OfBuild(i) = {}
    <3>1. ASSUME NEW j \in 1 .. listed, OfBuild(j) # {} PROVE ModuleFor(j) # ModuleFor(i)
      <4>1. j # i
        BY <2>3, <3>1
      <4> QED BY <1>1, <1>2, <2>1, <4>1, ModulesDiffer
    <3>2. version[ModuleFor(i)] = 0
      BY <2>1, <3>1 DEF LoadInv
    <3> QED BY <1>1, <1>3, <2>1, <2>3, <3>2, VersionForIs
  <2> QED BY <2>2, <2>3
<1>5. ASSUME found[i] # NoModule
      PROVE  /\ found[i] \in DOMAIN program /\ Is(program, i, found[i])
             /\ {m \in DOMAIN program : Is(program, i, m)} = {found[i]}
  BY <1>1, <1>3, <1>5, ModuleForIs
<1> QED BY <1>1, <1>3, <1>4, <1>5, ModuleForIs

LEMMA InVersionIs ==
  ASSUME Typed, Suits, LoadInv, listed = Len(Listed), NEW i \in DOMAIN Listed, NEW V
  PROVE  InVersion(program, i, V) <=>
           found[i] # NoModule /\ version[found[i]] \in V /\ version[found[i]] # 0
<1>1. ASSUME InVersion(program, i, V)
      PROVE  found[i] # NoModule /\ version[found[i]] \in V /\ version[found[i]] # 0
  <2>1. PICK m \in DOMAIN program, v \in V \intersect DOMAIN Listed[i].builds :
          Listed[i].builds[v] = program[m].build
    BY <1>1 DEF InVersion
  <2>2. Is(program, i, m)
    BY <2>1 DEF Is
  <2>3. found[i] # NoModule /\ m = found[i] /\ VersionIs(i, version[found[i]]) /\ found[i] = ModuleFor(i)
    BY <2>2, FoundIs
  <2>4. v = version[found[i]]
    BY <2>1, <2>3 DEF VersionIs
  <2>5. v # 0
    BY <2>1, ListedAssumption
  <2> QED BY <2>1, <2>3, <2>4, <2>5
<1>2. ASSUME found[i] # NoModule, version[found[i]] \in V, version[found[i]] # 0
      PROVE  InVersion(program, i, V)
  <2>1. found[i] \in DOMAIN program /\ VersionIs(i, version[found[i]]) /\ found[i] = ModuleFor(i)
    BY <1>2, FoundIs
  <2>2. /\ version[found[i]] \in DOMAIN Listed[i].builds
        /\ Listed[i].builds[version[found[i]]] = program[found[i]].build
    BY <1>2, <2>1 DEF VersionIs
  <2> QED BY <1>2, <2>1, <2>2 DEF InVersion
<1> QED BY <1>1, <1>2

LEMMA ImmediateIs ==
  ASSUME Typed, Suits, LoadInv, listed = Len(Listed), NEW id \in Ids, Symbols[id].type = "Immediate"
  PROVE  LET s == Symbols[id]
             m == found[s.module]
         IN  /\ m = NoModule => Means(id) = 0 /\ ~\E n \in DOMAIN program : Is(program, s.module, n)
             /\ m # NoModule /\ IsVersion(s) => Means(id) = program[m].start + s.offset /\ Means(id) # 0
             /\ m # NoModule /\ ~IsVersion(s) => Means(id) = 0
<1> DEFINE s == Symbols[id]
           m == found[s.module]
<1>1. s.module \in DOMAIN Listed /\ s.versions \subseteq Nat \ {0} /\ s.offset \in Nat
  BY EntryOf DEF IsEntry
<1>2. program \in Programs
  BY DEF Typed
<1>3. InVersion(program, s.module, s.versions) <=> m # NoModule /\ IsVersion(s)
  <2>1. InVersion(program, s.module, s.versions) <=>
          m # NoModule /\ version[m] \in s.versions /\ version[m] # 0
    BY <1>1, InVersionIs
  <2> QED BY <1>1, <2>1 DEF IsVersion
<1>4. CASE m = NoModule
  <2>1. \A n \in DOMAIN program : ~Is(program, s.module, n)
    BY <1>1, <1>4, FoundIs
  <2> QED BY <1>2, <1>3, <1>4, <2>1, MeansImmediate
<1>5. CASE m # NoModule
  <2>1. m \in DOMAIN program /\ {n \in DOMAIN program : Is(program, s.module, n)} = {m}
    BY <1>1, <1>5, FoundIs
  <2>2. m \in Nat /\ program[m].start \in Nat \ {0}
    BY <1>2, <2>1, ProgramAssumption
  <2>3. FirstOf({n \in DOMAIN program : Is(program, s.module, n)}) = m
    <3>1. {m} \subseteq Nat /\ m \in {m} /\ \A b \in {m} : m <= b
      BY <2>2
    <3> HIDE DEF m
    <3>2. FirstOf({m}) = m
      BY <3>1, FirstIsOnly
    <3> QED BY <2>1, <3>2
  <2>4. Means(id) = IF IsVersion(s) THEN program[m].start + s.offset ELSE 0
    BY <1>2, <1>3, <1>5, <2>3, MeansImmediate
  <2> QED BY <1>1, <1>5, <2>2, <2>4
<1> QED BY <1>4, <1>5

LEMMA DataBlockIs ==
  ASSUME Typed, Suits, LoadInv, listed = Len(Listed), NEW id \in Ids, Symbols[id].type = "DataBlock"
  PROVE  LET s == Symbols[id]
             m == found[s.module]
             address == Search(program[m], s)
         IN  /\ m = NoModule => Means(id) = 0 /\ ~\E n \in DOMAIN program : Is(program, s.module, n)
             /\ m # NoModule /\ OutsideBoundary(s) => Means(id) = 0 /\ ~InBoundary(program, s)
             /\ m # NoModule /\ ~OutsideBoundary(s) /\ address = 0 => Means(id) = 0
             /\ m # NoModule /\ ~OutsideBoundary(s) /\ address # 0 =>
                  Means(id) = address + s.offset /\ Resolves(id)
<1> DEFINE s == Symbols[id]
           m == found[s.module]
           address == Search(program[m], s)
           blocks == UNION {InSection(program[n], s) : n \in {k \in DOMAIN program : Is(program, s.module, k)}}
<1>1. /\ s.module \in DOMAIN Listed /\ s.offset \in Int /\ s.boundary \in {"None", "Older", "From"}
      /\ s.version \in Nat \ {0}
  BY EntryOf DEF IsEntry
<1>2. program \in Programs /\ SuitsBlock(s)
  BY DEF Typed, Suits
<1>3. Means(id) = IF InBoundary(program, s) /\ blocks # {} THEN FirstOf(blocks) + s.offset ELSE 0
  BY <1>2, MeansDataBlock
<1>4. CASE m = NoModule
  <2>1. \A n \in DOMAIN program : ~Is(program, s.module, n)
    BY <1>1, <1>4, FoundIs
  <2>2. blocks = {}
    BY <2>1
  <2> QED BY <1>3, <1>4, <2>1, <2>2
<1>5. CASE m # NoModule
  <2>1. /\ m \in DOMAIN program /\ {k \in DOMAIN program : Is(program, s.module, k)} = {m}
        /\ VersionIs(s.module, version[m]) /\ Is(program, s.module, m)
    BY <1>1, <1>5, FoundIs
  <2>2. version[m] \in Nat /\ (version[m] # 0 => version[m] \in DOMAIN Listed[s.module].builds)
    BY <2>1 DEF VersionIs
  <2>3. OutsideBoundary(s) <=> ~InBoundary(program, s)
    <3>1. CASE s.boundary = "None"
      BY <3>1 DEF OutsideBoundary, InBoundary
    <3>2. CASE s.boundary = "Older"
      <4>1. ~InBoundary(program, s)
        BY <1>2, <3>2 DEF SuitsBlock
      <4>2. version[m] >= s.version \/ version[m] < s.version
        BY <1>1, <2>2
      <4> QED BY <3>2, <4>1, <4>2 DEF OutsideBoundary
    <3>3. CASE s.boundary = "From"
      <4>1. BoundaryVersions(s) = {v \in DOMAIN Listed[s.module].builds : v >= s.version}
        BY <3>3 DEF BoundaryVersions
      <4>2. InBoundary(program, s) <=> InVersion(program, s.module, BoundaryVersions(s))
        BY <3>3 DEF InBoundary
      <4>3. InBoundary(program, s) <=> version[m] \in BoundaryVersions(s) /\ version[m] # 0
        BY <1>1, <1>5, <4>2, InVersionIs
      <4>4. InBoundary(program, s) <=> version[m] >= s.version
        BY <1>1, <2>2, <4>1, <4>3
      <4>5. OutsideBoundary(s) <=> version[m] < s.version
        BY <3>3 DEF OutsideBoundary
      <4> QED BY <1>1, <2>2, <4>4, <4>5
    <3> QED BY <1>1, <3>1, <3>2, <3>3
  <2>4. blocks = InSection(program[m], s)
    BY <2>1
  <2>5. address = FirstOf(blocks)
    BY <1>2, <2>1, <2>4 DEF SuitsBlock
  <2>6. blocks \subseteq Nat \ {0}
    BY <1>2, <2>1, <2>4, SearchTyped
  <2>7. address = 0 <=> blocks = {}
    <3>1. blocks = {} => address = 0
      BY <2>5 DEF FirstOf
    <3>2. blocks # {} => FirstOf(blocks) \in blocks
      BY <2>6, FirstIs
    <3> QED BY <2>5, <2>6, <3>1, <3>2
  <2>8. blocks # {} => Resolves(id)
    BY <2>1, <2>4 DEF Resolves
  <2> HIDE DEF s, m, address, blocks
  <2>9. /\ OutsideBoundary(s) => Means(id) = 0 /\ ~InBoundary(program, s)
        /\ ~OutsideBoundary(s) /\ address = 0 => Means(id) = 0
        /\ ~OutsideBoundary(s) /\ address # 0 => Means(id) = address + s.offset /\ Resolves(id)
    BY <1>3, <2>3, <2>5, <2>7, <2>8
  <2> QED BY <1>5, <2>9 DEF s, m, address
<1> QED BY <1>4, <1>5

-----------------------------------------------------------------------------
(* The innermost call of a thread *)

IsCandidate(t) == Len(stack[t]) > 1 /\ TypeOf(stack[t][2]) = "MultipleCandidate"
IsSource(t) == Len(stack[t]) > 1 /\ TypeOf(stack[t][2]) \in Indirect

LEMMA NameIs ==
  ASSUME IInv, NEW t \in Threads, stack[t] # <<>> \/ range[t] # <<>>
  PROVE  wanted[t] # NoName /\ wanted[t] \in Nat /\ listed = Len(Listed)
<1>1. NameOK(t) /\ wanted[t] \in Nat \union {NoName}
  BY DEF IInv, TypeOK
<1> QED BY <1>1 DEF NameOK

LEMMA TopIsCalled ==
  ASSUME IInv, NEW t \in Threads, stack[t] # <<>>
  PROVE  /\ Top(t).abort /\ Means(Top(t).id) = 0 => MeaningOf(wanted[t]) = 0
         /\ ~Top(t).abort => Means(Top(t).id) # 0 \/ IsCandidate(t)
         /\ IsCandidate(t) =>
              SuitsCandidate(Top(t).id) /\ TypeOf(Top(t)) # "MultipleCandidate" /\ Top(t).out = 0
         /\ IsSource(t) =>
              /\ TypeOf(Top(t)) = "DataBlock" => InBoundary(program, Symbols[Top(t).id])
              /\ Resolves(Top(t).id) => Means(Top(t).id) # 0
         /\ ~IsCandidate(t) /\ ~IsSource(t) =>
              Top(t).abort /\ (TypeOf(Top(t)) # "MultipleCandidate" => Top(t).out = 0)
         /\ ~(IsCandidate(t) /\ IsSource(t))
<1> DEFINE s == stack[t]
           f == Top(t)
<1>0. Typed /\ Suits /\ StackOK(program, s, wanted[t]) /\ Indirect = {"ReadADRPGlobal", "Arithmetic"}
  BY DEF IInv, Typed, Indirect
<1>1. s \in Seq(Frames) /\ f = s[1] /\ f \in Frames /\ Len(s) \in Nat \ {0}
  BY <1>0, TopTyped, TailIs
<1>2. f.abort /\ Means(f.id) = 0 => MeaningOf(wanted[t]) = 0
  BY <1>0, <1>1 DEF StackOK, CallOK, Inner, Means, MeaningOf, MeaningIn
<1>3. CASE Len(s) = 1
  <2>1. Bottom(f, wanted[t])
    BY <1>0, <1>1, <1>3 DEF StackOK, Waiting
  <2> QED BY <1>2, <1>3, <2>1 DEF IsCandidate, IsSource, Bottom
<1>4. CASE Len(s) > 1
  <2> DEFINE c == s[2]
  <2>1. Link(program, c, f) /\ c \in Frames /\ c.id \in Ids
    <3>1. 2 \in 2 .. Len(s) /\ 2 \in 1 .. Len(s) /\ 2 - 1 = 1
      BY <1>1, <1>4
    <3>2. Link(program, s[2], s[1])
      BY <1>0, <3>1 DEF StackOK, Waiting
    <3>3. c \in Frames
      BY <1>1, <3>1
    <3> QED BY <1>1, <3>2, <3>3 DEF Frames
  <2>2. CASE TypeOf(c) = "MultipleCandidate"
    <3>1. /\ c.tried \in 1 .. 2 * Len(Symbols[c.id].candidates)
          /\ f.id = Candidate(Symbols[c.id], c.tried) /\ ~f.abort /\ f.out = 0
      BY <1>0, <2>1, <2>2 DEF Link, TypeOf
    <3>2. TypeOf(f) # "MultipleCandidate" /\ \E i \in DOMAIN Symbols[c.id].candidates : f.id = Symbols[c.id].candidates[i]
      BY <2>1, <2>2, <3>1, CandidateTyped DEF TypeOf
    <3>3. SuitsCandidate(f.id)
      BY <1>0, <2>1, <2>2, <3>2 DEF Suits, TypeOf
    <3>4. IsCandidate(t) /\ ~IsSource(t)
      BY <1>0, <1>4, <2>2 DEF IsCandidate, IsSource
    <3> QED BY <1>2, <3>1, <3>2, <3>3, <3>4
  <2>3. CASE TypeOf(c) \in Indirect
    <3>1. f.id = Source(c.id) /\ (~f.abort => Means(f.id) # 0)
      BY <1>0, <2>1, <2>3 DEF Link, TypeOf, Means
    <3>2. SuitsSource(c.id)
      BY <1>0, <2>1, <2>3 DEF Suits, TypeOf
    <3>3. IsSource(t) /\ ~IsCandidate(t)
      BY <1>0, <1>4, <2>3 DEF IsCandidate, IsSource
    <3> QED BY <1>2, <3>1, <3>2, <3>3 DEF SuitsSource, Means, TypeOf
  <2>4. TypeOf(c) = "MultipleCandidate" \/ TypeOf(c) \in Indirect
    BY <2>1 DEF Link, TypeOf
  <2> QED BY <2>2, <2>3, <2>4, Zenon
<1>5. Len(s) = 1 \/ Len(s) > 1
  <2>1. \A n \in Nat \ {0} : n = 1 \/ n > 1
    OBVIOUS
  <2> QED BY <1>1, <2>1, Zenon
<1> QED BY <1>3, <1>4, <1>5, Zenon

(* What becomes of an innermost call that ends. *)
Outcome(t) ==
  \/ Halt /\ MeaningOf(wanted[t]) = 0
  \/ /\ Return(t, Means(Top(t).id))
     /\ IsSource(t) => Means(Top(t).id) # 0

LEMMA UnresolvedEnds ==
  ASSUME IInv, NEW t \in Threads, stack[t] # <<>>, Means(Top(t).id) = 0,
         TypeOf(Top(t)) # "MultipleCandidate", Unresolved(t)
  PROVE  Outcome(t)
<1>1. CASE Top(t).abort
  BY <1>1, TopIsCalled DEF Unresolved, Outcome
<1>2. CASE ~Top(t).abort
  <2>1. IsCandidate(t) /\ ~IsSource(t) /\ Top(t).out = 0
    BY <1>2, TopIsCalled
  <2> QED BY <1>2, <2>1 DEF Unresolved, Outcome
<1> QED BY <1>1, <1>2

LEMMA ImmediateEnds ==
  ASSUME IInv, NEW t \in Threads, ApplyImmediate(t)
  PROVE  Outcome(t)
<1> DEFINE id == Top(t).id
           s == Symbols[id]
           m == found[s.module]
<1>1. /\ stack[t] # <<>> /\ s.type = "Immediate" /\ Typed /\ Suits /\ LoadInv
  BY DEF ApplyImmediate, TopIs, IInv, Typed
<1>2. id \in Ids /\ listed = Len(Listed)
  BY <1>1, TopTyped, NameIs
<1>3. CASE m = NoModule
  <2>1. Halt /\ Means(id) = 0 /\ ~\E n \in DOMAIN program : Is(program, s.module, n)
    BY <1>1, <1>2, <1>3, ImmediateIs DEF ApplyImmediate
  <2>2. ~SuitsCandidate(id)
    BY <1>1, <2>1 DEF SuitsCandidate
  <2> QED BY <1>1, <2>1, <2>2, TopIsCalled DEF Outcome
<1>4. CASE m # NoModule /\ IsVersion(s)
  <2>1. Means(id) = program[m].start + s.offset /\ Means(id) # 0
    BY <1>1, <1>2, <1>4, ImmediateIs
  <2>2. Return(t, program[m].start + s.offset)
    BY <1>4 DEF ApplyImmediate
  <2> QED BY <2>1, <2>2 DEF Outcome
<1>5. CASE m # NoModule /\ ~IsVersion(s)
  <2>1. Means(id) = 0 /\ Unresolved(t)
    BY <1>1, <1>2, <1>5, ImmediateIs DEF ApplyImmediate
  <2> QED BY <1>1, <2>1, UnresolvedEnds DEF TypeOf
<1> QED BY <1>3, <1>4, <1>5

LEMMA DynamicEnds ==
  ASSUME IInv, NEW t \in Threads, ApplyDynamic(t)
  PROVE  Outcome(t)
<1> DEFINE id == Top(t).id
<1>1. stack[t] # <<>> /\ Symbols[id].type = "Dynamic" /\ Typed /\ program \in Programs
  BY DEF ApplyDynamic, TopIs, IInv, Typed
<1>2. Means(id) = LookupSymbol(program, Symbols[id].export)
  BY <1>1, TopTyped, MeansDynamic
<1>3. IF Means(id) = 0 /\ Top(t).abort THEN Halt ELSE Return(t, Means(id))
  BY <1>2 DEF ApplyDynamic
<1> QED BY <1>1, <1>3, TopIsCalled DEF Outcome

LEMMA DataBlockEnds ==
  ASSUME IInv, NEW t \in Threads, ApplyDataBlock(t)
  PROVE  Outcome(t)
<1> DEFINE id == Top(t).id
           s == Symbols[id]
           m == found[s.module]
           address == Search(program[m], s)
<1>1. /\ stack[t] # <<>> /\ s.type = "DataBlock" /\ Typed /\ Suits /\ LoadInv
  BY DEF ApplyDataBlock, TopIs, IInv, Typed
<1>2. id \in Ids /\ listed = Len(Listed) /\ s.offset \in Int
  BY <1>1, TopTyped, NameIs, EntryOf DEF IsEntry
<1>3. CASE m = NoModule
  <2>1. Halt /\ Means(id) = 0 /\ ~\E n \in DOMAIN program : Is(program, s.module, n)
    BY <1>1, <1>2, <1>3, DataBlockIs DEF ApplyDataBlock
  <2>2. ~SuitsCandidate(id)
    BY <1>1, <2>1 DEF SuitsCandidate
  <2> QED BY <1>1, <2>1, <2>2, TopIsCalled DEF Outcome
<1>4. CASE m # NoModule /\ OutsideBoundary(s)
  <2>1. Return(t, Top(t).out) /\ Means(id) = 0 /\ ~InBoundary(program, s)
    BY <1>1, <1>2, <1>4, DataBlockIs DEF ApplyDataBlock
  <2>2. ~IsSource(t) /\ Top(t).out = 0
    BY <1>1, <2>1, TopIsCalled DEF TypeOf
  <2> QED BY <2>1, <2>2 DEF Outcome
<1>5. CASE m # NoModule /\ ~OutsideBoundary(s) /\ address = 0
  <2>1. Means(id) = 0
    BY <1>1, <1>2, <1>5, DataBlockIs
  <2>2. IF Top(t).abort THEN Halt ELSE Return(t, address + s.offset)
    BY <1>5 DEF ApplyDataBlock
  <2>3. CASE Top(t).abort
    BY <1>1, <2>1, <2>2, <2>3, TopIsCalled DEF Outcome
  <2>4. CASE ~Top(t).abort
    <3>1. IsCandidate(t) /\ ~IsSource(t) /\ SuitsCandidate(id)
      BY <1>1, <2>1, <2>4, TopIsCalled
    <3>2. address + s.offset = 0
      BY <1>1, <1>2, <1>5, <2>1, <3>1 DEF SuitsCandidate, Means
    <3> QED BY <2>1, <2>2, <2>4, <3>1, <3>2 DEF Outcome
  <2> QED BY <2>3, <2>4
<1>6. CASE m # NoModule /\ ~OutsideBoundary(s) /\ address # 0
  <2>1. Means(id) = address + s.offset /\ Resolves(id)
    BY <1>1, <1>2, <1>6, DataBlockIs
  <2>2. Return(t, Means(id))
    BY <1>6, <2>1 DEF ApplyDataBlock
  <2> QED BY <1>1, <2>1, <2>2, TopIsCalled DEF Outcome
<1> QED BY <1>3, <1>4, <1>5, <1>6

LEMMA IndirectHasMeaning ==
  ASSUME IInv, NEW t \in Threads, stack[t] # <<>>, TypeOf(Top(t)) \in Indirect, ~Top(t).abort
  PROVE  Means(Top(t).id) # 0
  BY TopIsCalled DEF SuitsCandidate, TypeOf, Means

LEMMA GivenIs ==
  ASSUME IInv, NEW t \in Threads, stack[t] # <<>>, Top(t).step = "given"
  PROVE  Top(t).at = Means(Source(Top(t).id)) /\ Top(t).at # 0
<1>1. Typed /\ StackOK(program, stack[t], wanted[t])
  BY DEF IInv, Typed
<1>2. Top(t) = stack[t][1] /\ Len(stack[t]) \in Nat \ {0}
  BY <1>1, TopTyped, TailIs
<1> QED BY <1>1, <1>2 DEF StackOK, CallOK, Inner, Means

LEMMA ArithmeticEnds ==
  ASSUME IInv, NEW t \in Threads, ApplyArithmetic(t)
  PROVE  Outcome(t)
<1> DEFINE id == Top(t).id
<1>1. /\ stack[t] # <<>> /\ Symbols[id].type = "Arithmetic" /\ Top(t).step = "given" /\ Typed
      /\ program \in Programs /\ Symbols[id].type \in Indirect
  BY DEF ApplyArithmetic, TopIs, IInv, Typed, Indirect
<1>2. Top(t).at = Means(Source(id)) /\ Means(Source(id)) # 0 /\ id \in Ids
  BY <1>1, GivenIs, TopTyped
<1>3. Means(id) = Top(t).at + Symbols[id].addend
  BY <1>1, <1>2, MeansIndirect
<1>4. Resolves(id)
  BY <1>1, <1>2 DEF Resolves, Means
<1>5. Return(t, Means(id))
  BY <1>3 DEF ApplyArithmetic
<1> QED BY <1>1, <1>4, <1>5, TopIsCalled DEF Outcome

LEMMA ReadADRPGlobalEnds ==
  ASSUME IInv, NEW t \in Threads, ApplyReadADRPGlobal(t)
  PROVE  Outcome(t)
<1> DEFINE id == Top(t).id
<1>1. /\ stack[t] # <<>> /\ Symbols[id].type = "ReadADRPGlobal" /\ Top(t).step = "given" /\ Typed
      /\ program \in Programs /\ Symbols[id].type \in Indirect
  BY DEF ApplyReadADRPGlobal, TopIs, IInv, Typed, Indirect
<1>2. Top(t).at = Means(Source(id)) /\ Means(Source(id)) # 0 /\ id \in Ids
  BY <1>1, GivenIs, TopTyped
<1>3. Means(id) = Global(program, Top(t).at)
  BY <1>1, <1>2, MeansIndirect
<1>4. CASE IsPair(program, Top(t).at)
  <2>1. Return(t, Means(id))
    BY <1>1, <1>3, <1>4, GlobalTyped DEF ApplyReadADRPGlobal
  <2>2. Resolves(id)
    BY <1>1, <1>2, <1>4 DEF Resolves, Means
  <2> QED BY <1>1, <2>1, <2>2, TopIsCalled DEF Outcome
<1>5. CASE ~IsPair(program, Top(t).at)
  <2>1. Means(id) = 0
    BY <1>3, <1>5 DEF Global
  <2>2. Top(t).abort
    BY <1>1, <2>1, IndirectHasMeaning DEF TypeOf
  <2>3. Halt
    BY <1>5, <2>2 DEF ApplyReadADRPGlobal, Unresolved
  <2> QED BY <1>1, <2>1, <2>2, <2>3, TopIsCalled DEF Outcome
<1> QED BY <1>4, <1>5

-----------------------------------------------------------------------------
(* Candidates *)

LEMMA TriedIs ==
  ASSUME program \in Programs, NEW f, f.id \in Ids, TypeOf(f) = "MultipleCandidate",
         NEW done, Tried(program, f, done)
  PROVE  /\ f.out # 0 => f.out = Means(f.id)
         /\ f.out = 0 /\ done = 2 * Len(Symbols[f.id].candidates) => Means(f.id) = 0
<1> DEFINE s == Symbols[f.id]
           c == s.candidates
           L == Len(c)
           meaning == {i \in DOMAIN c : Means(c[i]) # 0}
           immediate == {i \in meaning : Symbols[c[i]].type = "Immediate"}
<1>1. L \in Nat /\ DOMAIN c = 1 .. L
  BY EntryOf DEF IsEntry, TypeOf
<1>2. Means(f.id) = IF meaning = {} THEN 0
                    ELSE Means(c[FirstOf(IF immediate = {} THEN meaning ELSE immediate)])
  BY MeansMultiple DEF TypeOf
<1>3. /\ done \in 0 .. 2 * L
      /\ \A n \in 1 .. done : n < done /\ ~Skipped(s, n) => Means(Candidate(s, n)) = 0
      /\ f.out = IF done = 0 THEN 0 ELSE IF Skipped(s, done) THEN 0 ELSE Means(Candidate(s, done))
  BY DEF Tried, Means
<1>4. \A n \in 1 .. L : Candidate(s, n) = c[n] /\ (Skipped(s, n) <=> Symbols[c[n]].type # "Immediate")
  BY <1>1 DEF Candidate, Skipped
<1>5. \A n \in 1 .. L : Candidate(s, n + L) = c[n] /\ ~Skipped(s, n + L)
  <2> SUFFICES ASSUME NEW n \in 1 .. L PROVE Candidate(s, n + L) = c[n] /\ ~Skipped(s, n + L)
    OBVIOUS
  <2>1. ~(n + L <= L) /\ n + L - L = n
    BY <1>1
  <2> QED BY <2>1 DEF Candidate, Skipped
<1>6. meaning \subseteq 1 .. L /\ immediate \subseteq meaning /\ meaning \subseteq Nat /\ immediate \subseteq Nat
  BY <1>1
<1>7. ASSUME f.out # 0 PROVE f.out = Means(f.id)
  <2>1. done \in 1 .. 2 * L /\ ~Skipped(s, done) /\ f.out = Means(Candidate(s, done))
    BY <1>1, <1>3, <1>7
  <2>2. CASE done <= L
    <3>1. done \in 1 .. L /\ Candidate(s, done) = c[done] /\ Symbols[c[done]].type = "Immediate"
      BY <1>1, <1>4, <2>1, <2>2
    <3>2. done \in immediate
      BY <1>1, <1>7, <2>1, <3>1
    <3>3. ASSUME NEW b \in immediate PROVE done <= b
      <4>1. b \in 1 .. L /\ Means(c[b]) # 0 /\ Candidate(s, b) = c[b] /\ ~Skipped(s, b)
        BY <1>1, <1>4
      <4>2. ~(b < done)
        BY <1>3, <2>1, <4>1
      <4> QED BY <1>1, <2>1, <4>1, <4>2
    <3> HIDE DEF meaning, immediate
    <3>4. FirstOf(immediate) = done
      BY <1>6, <3>2, <3>3, FirstIsOnly
    <3>5. meaning # {} /\ immediate # {}
      BY <1>6, <3>2
    <3> QED BY <1>2, <2>1, <3>1, <3>4, <3>5
  <2>3. CASE ~(done <= L)
    <3> DEFINE d == done - L
    <3>1. d \in 1 .. L /\ done = d + L /\ Candidate(s, done) = c[d]
      <4>1. d \in 1 .. L /\ done = d + L
        BY <1>1, <2>1, <2>3
      <4> HIDE DEF d
      <4> QED BY <1>5, <4>1
    <3> HIDE DEF d
    <3>2. d \in meaning
      BY <1>1, <1>7, <2>1, <3>1
    <3>3. immediate = {}
      <4>1. SUFFICES ASSUME NEW b \in immediate PROVE FALSE
        OBVIOUS
      <4>2. b \in 1 .. L /\ Means(c[b]) # 0 /\ Candidate(s, b) = c[b] /\ ~Skipped(s, b)
        BY <1>1, <1>4, <4>1
      <4>3. b \in 1 .. done /\ b < done
        BY <1>1, <2>1, <2>3, <4>2
      <4> QED BY <1>3, <4>2, <4>3
    <3>4. ASSUME NEW b \in meaning PROVE d <= b
      <4>1. b \in 1 .. L /\ Means(c[b]) # 0 /\ Candidate(s, b + L) = c[b] /\ ~Skipped(s, b + L)
        BY <1>1, <1>5
      <4>2. SUFFICES ASSUME b < d PROVE FALSE
        BY <1>1, <3>1, <4>1
      <4>3. b + L \in 1 .. done /\ b + L < done
        <5>1. b \in 1 .. L /\ d \in 1 .. L /\ done = d + L /\ L \in Nat
          BY <1>1, <3>1, <4>1
        <5> HIDE DEF L
        <5> QED BY <4>2, <5>1
      <4> QED BY <1>3, <4>1, <4>3
    <3> HIDE DEF meaning, immediate
    <3>5. FirstOf(meaning) = d
      BY <1>6, <3>2, <3>4, FirstIsOnly
    <3>6. meaning # {}
      BY <3>2
    <3> QED BY <1>2, <2>1, <3>1, <3>3, <3>5, <3>6
  <2> QED BY <2>2, <2>3
<1>8. ASSUME f.out = 0, done = 2 * L PROVE Means(f.id) = 0
  <2>1. SUFFICES meaning = {}
    BY <1>2
  <2>2. SUFFICES ASSUME NEW b \in meaning PROVE FALSE
    OBVIOUS
  <2>3. b \in 1 .. L /\ Means(c[b]) # 0 /\ Candidate(s, b + L) = c[b] /\ ~Skipped(s, b + L)
    BY <1>1, <1>5, <2>2
  <2>4. b + L \in 1 .. done
    BY <1>1, <1>8, <2>3
  <2>5. CASE b + L < done
    BY <1>3, <2>3, <2>4, <2>5
  <2>6. CASE b + L = done
    <3>1. done # 0
      BY <1>1, <2>3, <2>6
    <3> QED BY <1>3, <1>8, <2>3, <2>6, <3>1
  <2> QED BY <1>1, <1>8, <2>3, <2>4, <2>5, <2>6
<1> QED BY <1>7, <1>8

-----------------------------------------------------------------------------
(* What happens to the stack *)

LEMMA LinkKept ==
  ASSUME NEW p, NEW c, c.id \in Ids, NEW f, NEW g, Link(p, c, f), g.id = f.id, g.abort = f.abort,
         TypeOf(f) # "MultipleCandidate" => g.out = f.out
  PROVE  Link(p, c, g)
<1>1. CASE Symbols[c.id].type = "MultipleCandidate" /\ c.tried \in 1 .. 2 * Len(Symbols[c.id].candidates)
           /\ f.id = Candidate(Symbols[c.id], c.tried)
  <2>1. TypeOf(f) # "MultipleCandidate"
    BY <1>1, CandidateTyped DEF TypeOf
  <2> QED BY <2>1 DEF Link
<1>2. CASE Symbols[c.id].type \in Indirect /\ Symbols[c.id].type # "MultipleCandidate"
  BY <1>2 DEF Link
<1> QED BY <1>1, <1>2 DEF Link, Indirect

LEMMA TopReplaced ==
  ASSUME NEW p, NEW w, NEW s \in Seq(Frames), s # <<>>, Waiting(p, s, w), NEW g \in Frames,
         g.id = s[1].id, g.abort = s[1].abort, TypeOf(g) # "MultipleCandidate" => g.out = s[1].out
  PROVE  Waiting(p, <<g>> \o Tail(s), w)
<1> DEFINE r == <<g>> \o Tail(s)
<1>1. /\ Len(s) \in Nat \ {0} /\ Tail(s) \in Seq(Frames) /\ Len(Tail(s)) = Len(s) - 1
      /\ \A k \in 1 .. Len(s) - 1 : Tail(s)[k] = s[k + 1]
  BY TailIs
<1>2. /\ r # <<>> /\ Len(r) = Len(Tail(s)) + 1 /\ r[1] = g
      /\ \A k \in 2 .. Len(r) : r[k] = Tail(s)[k - 1]
  BY <1>1, PushIs
<1> HIDE DEF r
<1>3. Len(r) = Len(s) /\ \A k \in 2 .. Len(s) : r[k] = s[k]
  <2>1. Len(r) = Len(s)
    BY <1>1, <1>2
  <2>2. ASSUME NEW k \in 2 .. Len(s) PROVE r[k] = s[k]
    <3>1. k - 1 \in 1 .. Len(s) - 1 /\ (k - 1) + 1 = k
      BY <1>1
    <3> QED BY <1>1, <1>2, <2>1, <3>1
  <2> QED BY <2>1, <2>2
<1>4. Bottom(r[Len(r)], w)
  <2>1. Bottom(s[Len(s)], w)
    BY DEF Waiting
  <2>2. CASE Len(s) = 1
    <3>1. r[Len(r)] = g /\ s[Len(s)] = s[1]
      BY <1>2, <1>3, <2>2
    <3> QED BY <2>1, <3>1 DEF Bottom, TypeOf
  <2>3. CASE Len(s) # 1
    <3>1. Len(s) \in 2 .. Len(s)
      BY <1>1, <2>3
    <3> QED BY <1>3, <2>1, <3>1
  <2> QED BY <2>2, <2>3
<1>5. ASSUME NEW k \in 2 .. Len(s) PROVE CallOK(p, r[k], w, r[k].tried - 1) /\ Link(p, r[k], r[k - 1])
  <2>1. CallOK(p, s[k], w, s[k].tried - 1) /\ Link(p, s[k], s[k - 1]) /\ r[k] = s[k]
    BY <1>3, <1>5 DEF Waiting
  <2>2. CASE k = 2
    <3>1. s[2].id \in Ids
      <4>1. s[2] \in Frames
        BY <1>1, <1>5, <2>2
      <4> QED BY <4>1 DEF Frames
    <3>2. Link(p, s[2], s[1]) /\ r[k - 1] = g
      BY <1>2, <2>1, <2>2
    <3>3. Link(p, s[2], g)
      BY <3>1, <3>2, LinkKept DEF TypeOf
    <3> QED BY <2>1, <2>2, <3>2, <3>3
  <2>3. CASE k # 2
    <3>1. k - 1 \in 2 .. Len(s)
      BY <1>1, <1>5, <2>3
    <3> QED BY <1>3, <2>1, <3>1
  <2> QED BY <2>2, <2>3
<1>6. w # NoName
  BY DEF Waiting
<1>7. Waiting(p, r, w)
  BY <1>3, <1>4, <1>5, <1>6 DEF Waiting
<1> QED BY <1>7 DEF r

LEMMA Pushed ==
  ASSUME NEW p, NEW w, NEW s \in Seq(Frames), s # <<>>, Waiting(p, s, w), NEW f \in Frames,
         CallOK(p, s[1], w, s[1].tried - 1), Link(p, s[1], f)
  PROVE  Waiting(p, <<f>> \o s, w)
<1> DEFINE r == <<f>> \o s
<1>1. /\ Len(s) \in Nat \ {0} /\ Len(r) = Len(s) + 1 /\ r[1] = f
      /\ \A k \in 2 .. Len(r) : r[k] = s[k - 1]
  BY PushIs, TailIs
<1> HIDE DEF r
<1>2. Bottom(r[Len(r)], w) /\ w # NoName
  <2>1. Len(r) \in 2 .. Len(r) /\ Len(r) - 1 = Len(s)
    BY <1>1
  <2>2. r[Len(r)] = s[Len(s)]
    BY <1>1, <2>1
  <2> QED BY <2>2 DEF Waiting
<1>3. ASSUME NEW k \in 2 .. Len(r) PROVE CallOK(p, r[k], w, r[k].tried - 1) /\ Link(p, r[k], r[k - 1])
  <2>1. CASE k = 2
    BY <1>1, <1>3, <2>1
  <2>2. CASE k # 2
    <3>1. k - 1 \in 2 .. Len(s) /\ k - 1 \in 2 .. Len(r)
      BY <1>1, <1>3, <2>2
    <3>2. CallOK(p, s[k - 1], w, s[k - 1].tried - 1) /\ Link(p, s[k - 1], s[(k - 1) - 1])
      BY <3>1 DEF Waiting
    <3>3. r[k] = s[k - 1] /\ r[k - 1] = s[(k - 1) - 1]
      BY <1>1, <1>3, <3>1
    <3> QED BY <3>2, <3>3
  <2> QED BY <2>1, <2>2
<1>4. Waiting(p, r, w)
  BY <1>2, <1>3 DEF Waiting
<1> QED BY <1>4 DEF r

LEMMA Popped ==
  ASSUME NEW p, NEW w, NEW s \in Seq(Frames), Tail(s) # <<>>, s # <<>>, Waiting(p, s, w)
  PROVE  /\ Waiting(p, Tail(s), w)
         /\ Head(Tail(s)) = s[2] /\ Tail(s)[1] = s[2] /\ s[2] \in Frames /\ Len(s) > 1
         /\ CallOK(p, s[2], w, s[2].tried - 1) /\ Link(p, s[2], s[1])
<1> DEFINE r == Tail(s)
<1>1. /\ Len(s) \in Nat \ {0} /\ Len(r) = Len(s) - 1 /\ r \in Seq(Frames)
      /\ \A k \in 1 .. Len(s) - 1 : r[k] = s[k + 1]
  BY TailIs
<1>2. Len(r) \in Nat \ {0} /\ Head(r) = r[1] /\ r[1] \in Frames
  BY <1>1, TailIs
<1> HIDE DEF r
<1>3. r[1] = s[2] /\ Len(s) > 1 /\ 2 \in 2 .. Len(s) /\ 2 - 1 = 1
  BY <1>1, <1>2
<1>4. CallOK(p, s[2], w, s[2].tried - 1) /\ Link(p, s[2], s[1])
  BY <1>3 DEF Waiting
<1>5. Bottom(r[Len(r)], w) /\ w # NoName
  <2>1. Len(r) \in 1 .. Len(s) - 1 /\ Len(r) + 1 = Len(s)
    BY <1>1, <1>2
  <2>2. r[Len(r)] = s[Len(s)]
    BY <1>1, <2>1
  <2> QED BY <2>2 DEF Waiting
<1>6. ASSUME NEW k \in 2 .. Len(r) PROVE CallOK(p, r[k], w, r[k].tried - 1) /\ Link(p, r[k], r[k - 1])
  <2>1. k + 1 \in 2 .. Len(s) /\ (k + 1) - 1 = k /\ k \in 1 .. Len(s) - 1 /\ k - 1 \in 1 .. Len(s) - 1 /\ (k - 1) + 1 = k
    BY <1>1, <1>6
  <2>2. CallOK(p, s[k + 1], w, s[k + 1].tried - 1) /\ Link(p, s[k + 1], s[k])
    BY <2>1 DEF Waiting
  <2>3. r[k] = s[k + 1] /\ r[k - 1] = s[k]
    BY <1>1, <2>1
  <2> QED BY <2>2, <2>3
<1>7. Waiting(p, r, w)
  BY <1>5, <1>6 DEF Waiting
<1> QED BY <1>2, <1>3, <1>4, <1>7 DEF r

-----------------------------------------------------------------------------
(* Steps keep the invariant. *)

(* What is said of the program itself stays. *)
LEMMA ProgramStays ==
  ASSUME program' = program
  PROVE  /\ Suits => Suits'
         /\ \A name : MeaningOf(name)' = MeaningOf(name) /\ MeaningOf(name) = MeaningIn(program, name)
<1>1. Suits => Suits'
  BY DEF Suits, SuitsModules, SuitsBlock, SuitsSource, SuitsCandidate, Resolves
<1>2. ASSUME NEW name
      PROVE  MeaningOf(name)' = MeaningOf(name) /\ MeaningOf(name) = MeaningIn(program, name)
  BY DEF MeaningOf, MeaningIn
<1> QED BY <1>1, <1>2

LEMMA LoadStays ==
  ASSUME LoadInv, UNCHANGED <<program, loader>>
  PROVE  LoadInv'
<1>1. program' = program /\ found' = found /\ version' = version /\ listed' = listed
  BY DEF loader
<1>2. ASSUME NEW i
      PROVE  OfBuild(i)' = OfBuild(i) /\ ModuleFor(i)' = ModuleFor(i) /\ VersionFor(i)' = VersionFor(i)
  <2>1. OfBuild(i)' = OfBuild(i) /\ OfName(i)' = OfName(i)
    BY <1>1 DEF OfBuild, OfName
  <2>2. ModuleFor(i)' = ModuleFor(i)
    BY <2>1 DEF ModuleFor, NoModule
  <2>3. VersionFor(i)' = VersionFor(i)
    BY <1>1, <2>2 DEF VersionFor
  <2> QED BY <2>1, <2>2, <2>3
<1> QED BY <1>1, <1>2 DEF LoadInv, NoModule

LEMMA AnswersStay ==
  ASSUME AnswersAreRight, UNCHANGED <<program, results>>
  PROVE  AnswersAreRight'
<1>1. program' = program /\ imported' = imported /\ got' = got /\ statics' = statics
  BY DEF results
<1> QED BY <1>1, ProgramStays DEF AnswersAreRight

(* A step of the thread t that ends in no answer. *)
LEMMA ThreadCacheInv ==
  ASSUME IInv, Typed', NEW t \in Threads, wanted[t] # NoName,
         UNCHANGED <<program, loader, results, wanted, halted>>, CacheIsRight',
         \A u \in Threads \ {t} : stack'[u] = stack[u] /\ range'[u] = range[u],
         StackOK(program, stack'[t], wanted[t]), RangeOK(range'[t], stack'[t], wanted[t])
  PROVE  IInv'
<1>1. /\ program' = program /\ wanted' = wanted /\ halted' = halted /\ listed' = listed
      /\ imported' = imported
  BY DEF loader, results
<1>2. TypeOK' /\ program' \in Programs /\ Suits' /\ LoadInv'
  BY <1>1, ProgramStays, LoadStays DEF IInv, Typed
<1>3. ASSUME NEW u \in Threads
      PROVE  /\ NameOK(u)' /\ StackOK(program', stack'[u], wanted'[u])
             /\ RangeOK(range'[u], stack'[u], wanted'[u])
  <2>1. NameOK(u) /\ StackOK(program, stack[u], wanted[u]) /\ RangeOK(range[u], stack[u], wanted[u])
    BY DEF IInv
  <2>2. CASE u = t
    <3>1. NameOK(t)'
      BY <1>1, <2>1, <2>2 DEF NameOK
    <3> QED BY <1>1, <2>2, <3>1
  <2>3. CASE u # t
    <3>1. stack'[u] = stack[u] /\ range'[u] = range[u]
      BY <2>3
    <3>2. NameOK(u)'
      BY <1>1, <2>1, <3>1 DEF NameOK
    <3> QED BY <1>1, <2>1, <3>1, <3>2
  <2> QED BY <2>2, <2>3
<1>4. HaltIsJustified'
  BY <1>1, ProgramStays DEF IInv, HaltIsJustified
<1>5. AnswersAreRight'
  BY AnswersStay DEF IInv
<1> QED BY <1>2, <1>3, <1>4, <1>5 DEF IInv

LEMMA ThreadInv ==
  ASSUME IInv, Typed', NEW t \in Threads, wanted[t] # NoName,
         UNCHANGED <<program, loader, results, cache, wanted, halted>>,
         \A u \in Threads \ {t} : stack'[u] = stack[u] /\ range'[u] = range[u],
         StackOK(program, stack'[t], wanted[t]), RangeOK(range'[t], stack'[t], wanted[t])
  PROVE  IInv'
<1>1. CacheIsRight'
  BY DEF IInv, CacheIsRight
<1> QED BY <1>1, ThreadCacheInv

LEMMA HaltInv ==
  ASSUME IInv, Halt, NEW t \in Threads, wanted[t] # NoName, MeaningOf(wanted[t]) = 0
  PROVE  IInv'
<1>1. /\ program' = program /\ cache' = cache /\ wanted' = wanted /\ listed' = listed
      /\ imported' = imported /\ stack' = stack /\ range' = range /\ UNCHANGED <<loader, results>>
  BY DEF Halt, loader, results, lookups
<1>2. TypeOK' /\ program' \in Programs /\ Suits' /\ LoadInv'
  BY <1>1, ProgramStays, LoadStays, HaltTyped DEF IInv, Typed
<1>3. ASSUME NEW u \in Threads
      PROVE  /\ NameOK(u)' /\ StackOK(program', stack'[u], wanted'[u])
             /\ RangeOK(range'[u], stack'[u], wanted'[u])
  BY <1>1 DEF IInv, NameOK
<1>4. CacheIsRight' /\ HaltIsJustified'
  BY <1>1, ProgramStays DEF IInv, CacheIsRight, HaltIsJustified
<1>5. AnswersAreRight'
  BY <1>1, AnswersStay DEF IInv
<1> QED BY <1>2, <1>3, <1>4, <1>5 DEF IInv

(* An answer for the mod. *)
LEMMA AnswerInv ==
  ASSUME IInv, Typed', NEW t \in Threads, wanted[t] # NoName, ~halted,
         UNCHANGED <<program, loader, halted>>, CacheIsRight',
         wanted' = [wanted EXCEPT ![t] = NoName],
         stack'[t] = <<>>, range'[t] = <<>>,
         \A u \in Threads \ {t} : stack'[u] = stack[u] /\ range'[u] = range[u],
         \/ /\ imported < Len(Imports) /\ imported' = imported + 1 /\ statics' = statics
            /\ got' = [got EXCEPT ![imported + 1] = MeaningOf(wanted[t])]
         \/ /\ ~(imported < Len(Imports)) /\ imported' = imported /\ got' = got
            /\ statics' = [statics EXCEPT ![wanted[t]] = MeaningOf(wanted[t])]
  PROVE  IInv'
<1>1. program' = program /\ halted' = halted /\ listed' = listed
  BY DEF loader
<1>2. TypeOK' /\ program' \in Programs /\ Suits' /\ LoadInv'
  BY <1>1, ProgramStays, LoadStays DEF IInv, Typed
<1>3. /\ wanted \in [Threads -> Nat \union {NoName}] /\ imported \in 0 .. Len(Imports) /\ Len(Imports) \in Nat
      /\ got \in [DOMAIN Imports -> Int] /\ statics \in [Wanted -> Int] /\ DOMAIN Imports = 1 .. Len(Imports)
  BY SailAssumption DEF IInv, TypeOK
<1>4. NameOK(t)
  BY DEF IInv
<1>5. ASSUME NEW u \in Threads
      PROVE  /\ NameOK(u)' /\ StackOK(program', stack'[u], wanted'[u])
             /\ RangeOK(range'[u], stack'[u], wanted'[u])
  <2>1. NameOK(u) /\ StackOK(program, stack[u], wanted[u]) /\ RangeOK(range[u], stack[u], wanted[u])
    BY DEF IInv
  <2>2. CASE u = t
    <3>1. wanted'[u] = NoName /\ stack'[u] = <<>> /\ range'[u] = <<>>
      BY <1>3, <2>2
    <3>2. StackOK(program', stack'[u], wanted'[u])
      <4>1. Len(stack'[u]) = 0
        BY <3>1
      <4> QED BY <3>1, <4>1 DEF StackOK, Waiting
    <3> QED BY <3>1, <3>2 DEF NameOK, RangeOK
  <2>3. CASE u # t
    <3>1. wanted'[u] = wanted[u] /\ stack'[u] = stack[u] /\ range'[u] = range[u]
      BY <1>3, <2>3
    <3>2. imported < Len(Imports) => wanted[u] = NoName
      BY <1>4, <2>1, <2>3 DEF NameOK
    <3>3. NameOK(u)'
      BY <1>1, <2>1, <3>1, <3>2 DEF NameOK
    <3> QED BY <1>1, <2>1, <3>1, <3>3
  <2> QED BY <2>2, <2>3
<1>6. AnswersAreRight'
  <2>1. AnswersAreRight
    BY DEF IInv
  <2>2. CASE imported < Len(Imports)
    <3>1. /\ imported' = imported + 1 /\ statics' = statics
          /\ got' = [got EXCEPT ![imported + 1] = MeaningOf(wanted[t])]
      BY <2>2
    <3>2. wanted[t] = Imports[imported + 1].name
      BY <1>4, <2>2 DEF NameOK
    <3>3. ASSUME NEW i \in 1 .. imported' PROVE got'[i] = MeaningOf(Imports[i].name)
      <4>1. i \in DOMAIN Imports /\ (i = imported + 1 \/ i \in 1 .. imported)
        BY <1>3, <2>2, <3>1, <3>3
      <4>2. CASE i = imported + 1
        BY <1>3, <3>1, <3>2, <4>1, <4>2
      <4>3. CASE i # imported + 1
        <5>1. got'[i] = got[i] /\ i \in 1 .. imported
          BY <1>3, <3>1, <4>1, <4>3
        <5> QED BY <2>1, <5>1 DEF AnswersAreRight
      <4> QED BY <4>2, <4>3
    <3> QED BY <1>1, <2>1, <3>1, <3>3, ProgramStays DEF AnswersAreRight
  <2>3. CASE ~(imported < Len(Imports))
    <3>1. /\ imported' = imported /\ got' = got
          /\ statics' = [statics EXCEPT ![wanted[t]] = MeaningOf(wanted[t])]
      BY <2>3
    <3>2. \A name \in Wanted : statics'[name] \in {0, MeaningOf(name)}
      BY <1>3, <2>1, <3>1 DEF AnswersAreRight
    <3> QED BY <1>1, <2>1, <3>1, <3>2, ProgramStays DEF AnswersAreRight
  <2> QED BY <2>2, <2>3
<1>7. HaltIsJustified'
  BY <1>1 DEF HaltIsJustified
<1> QED BY <1>2, <1>5, <1>6, <1>7 DEF IInv

(* The value an innermost call ends with is given to the mod or a call. *)
LEMMA GiveInv ==
  ASSUME IInv, Typed', NEW t \in Threads, stack[t] # <<>>, range[t] = <<>>, ~halted,
         Give(t, Means(Top(t).id)), IsSource(t) => Means(Top(t).id) # 0,
         CacheIsRight', UNCHANGED <<program, loader, range, halted>>
  PROVE  IInv'
<1> DEFINE s == stack[t]
           w == wanted[t]
           f == s[1]
           v == Means(f.id)
<1>1. /\ Typed /\ StackOK(program, s, w) /\ Waiting(program, s, w) /\ program \in Programs
      /\ stack \in [Threads -> Seq(Frames)] /\ range \in [Threads -> {<<>>} \union ((0 .. Len(Table)) \X (-1 .. Len(Table) - 1))]
  BY DEF IInv, Typed, TypeOK, StackOK
<1>2. w # NoName /\ w \in Nat
  BY NameIs
<1>3. s \in Seq(Frames) /\ Top(t) = f /\ Len(s) \in Nat \ {0} /\ Len(Tail(s)) = Len(s) - 1
  BY <1>1, TopTyped, TailIs
<1>4. range'[t] = <<>> /\ \A u \in Threads \ {t} : range'[u] = range[u]
  OBVIOUS
<1>5. CASE Tail(s) = <<>>
  <2>1. Len(s) = 1
    <3>1. Len(<<>>) = 0 /\ \A n \in Nat : n - 1 = 0 => n = 1
      OBVIOUS
    <3>2. Len(s) - 1 = 0 /\ Len(s) \in Nat
      BY <1>3, <1>5, <3>1, Zenon
    <3> QED BY <3>1, <3>2, Zenon
  <2>2. MeaningOf(w) = v
    <3>1. PICK i \in EntriesOf(w) : f.id = Table[i]
      BY <1>1, <2>1 DEF Waiting, Bottom
    <3> QED BY <1>2, <3>1, MeaningOfIs
  <2>3. /\ stack' = [stack EXCEPT ![t] = <<>>] /\ wanted' = [wanted EXCEPT ![t] = NoName]
        /\ \/ /\ imported < Len(Imports) /\ imported' = imported + 1 /\ statics' = statics
              /\ got' = [got EXCEPT ![imported + 1] = v]
           \/ /\ ~(imported < Len(Imports)) /\ imported' = imported /\ got' = got
              /\ statics' = [statics EXCEPT ![wanted[t]] = v]
    BY <1>3, <1>5 DEF Give
  <2>4. stack'[t] = <<>> /\ \A u \in Threads \ {t} : stack'[u] = stack[u]
    BY <1>1, <2>3
  <2> HIDE DEF v
  <2> QED BY <1>2, <1>4, <2>2, <2>3, <2>4, AnswerInv
<1>6. CASE Tail(s) # <<>>
  <2> DEFINE c == s[2]
             r == Tail(s)
             g == IF TypeOf(c) = "MultipleCandidate" THEN [c EXCEPT !.out = v]
                  ELSE [c EXCEPT !.at = v, !.step = "given"]
  <2>1. /\ Waiting(program, r, w) /\ Head(r) = c /\ r[1] = c /\ c \in Frames /\ Len(s) > 1
        /\ CallOK(program, c, w, c.tried - 1) /\ Link(program, c, f)
    BY <1>1, <1>3, <1>6, Popped
  <2>2. r \in Seq(Frames)
    BY <1>3, TailIs
  <2>3. stack' = [stack EXCEPT ![t] = <<g>> \o Tail(r)] /\ UNCHANGED <<wanted, results>>
    BY <1>3, <1>6, <2>1 DEF Give, TypeOf
  <2>4. c.id \in Ids /\ c.tried \in Nat /\ f \in Frames /\ f.id \in Ids
    BY <1>1, <2>1, TopTyped, <1>3 DEF Frames
  <2>5. v \in Int
    BY <1>1, <2>4, MeansTyped
  <2>6. /\ g \in Frames /\ g.id = c.id /\ g.abort = c.abort /\ g.tried = c.tried
        /\ TypeOf(c) = "MultipleCandidate" => g.out = v /\ g.step = c.step
        /\ TypeOf(c) # "MultipleCandidate" => g.out = c.out /\ g.at = v /\ g.step = "given"
    <3> HIDE DEF c, v
    <3> QED BY <2>1, <2>5 DEF Frames
  <2> HIDE DEF g
  <2>7. CallOK(program, g, w, g.tried)
    <3>1. CASE TypeOf(c) = "MultipleCandidate"
      <4> DEFINE sym == Symbols[c.id]
                 L == Len(sym.candidates)
      <4>1. /\ c.step = "apply" /\ c.tried \in 1 .. 2 * L /\ ~Skipped(sym, c.tried)
            /\ f.id = Candidate(sym, c.tried) /\ c.out = 0
        BY <2>1, <3>1 DEF Link, TypeOf, Indirect
      <4>2. Tried(program, c, c.tried - 1) /\ Inner(program, c, w)
        BY <2>1, <3>1, <4>1 DEF CallOK
      <4>3. ASSUME NEW n \in 1 .. c.tried, n < c.tried, ~Skipped(sym, n)
            PROVE  Meaning[program][Candidate(sym, n)] = 0
        <5>1. n \in 1 .. c.tried - 1
          BY <2>4, <4>3
        <5>2. CASE n < c.tried - 1
          BY <4>2, <4>3, <5>1, <5>2 DEF Tried
        <5>3. CASE n = c.tried - 1
          <6>1. c.tried - 1 # 0
            BY <5>1, <5>3
          <6> QED BY <4>1, <4>2, <4>3, <5>3, <6>1 DEF Tried
        <5> QED BY <2>4, <5>1, <5>2, <5>3
      <4>4. L \in Nat
        BY <2>4, <3>1, <4>1, CandidateTyped DEF TypeOf
      <4>5. c.tried \in 0 .. 2 * L /\ c.tried # 0
        BY <4>1, <4>4
      <4>6. g.out = Meaning[program][Candidate(sym, c.tried)]
        BY <2>6, <3>1, <4>1 DEF Means
      <4>7. Tried(program, g, g.tried)
        BY <2>6, <4>1, <4>3, <4>5, <4>6 DEF Tried
      <4>8. Inner(program, g, w)
        BY <2>6, <3>1, <4>1, <4>2 DEF Inner, TypeOf
      <4> QED BY <4>7, <4>8 DEF CallOK
    <3>2. CASE TypeOf(c) # "MultipleCandidate"
      <4>1. TypeOf(c) \in Indirect /\ f.id = Source(c.id)
        BY <2>1, <3>2 DEF Link, TypeOf
      <4>2. v # 0
        BY <1>3, <2>1, <4>1 DEF IsSource
      <4>3. Inner(program, c, w)
        BY <2>1 DEF CallOK
      <4>4. Inner(program, g, w)
        BY <2>6, <3>2, <4>1, <4>2, <4>3 DEF Inner, TypeOf, Means
      <4> QED BY <2>6, <3>2, <4>4 DEF CallOK, TypeOf
    <3> QED BY <3>1, <3>2
  <2>8. r # <<>> /\ (TypeOf(g) # "MultipleCandidate" => g.out = c.out)
    BY <1>6, <2>6 DEF TypeOf
  <2>9. Waiting(program, <<g>> \o Tail(r), w)
    <3> HIDE DEF c, r
    <3> QED BY <2>1, <2>2, <2>6, <2>8, TopReplaced
  <2>10. StackOK(program, <<g>> \o Tail(r), w)
    <3>1. Tail(r) \in Seq(Frames)
      BY <2>2, <2>8, TailIs
    <3> HIDE DEF r
    <3>2. (<<g>> \o Tail(r))[1] = g
      BY <2>6, <3>1, PushIs
    <3> QED BY <2>7, <2>9, <3>2 DEF StackOK
  <2>11. stack'[t] = <<g>> \o Tail(r) /\ \A u \in Threads \ {t} : stack'[u] = stack[u]
    BY <1>1, <2>3
  <2>12. RangeOK(range'[t], stack'[t], wanted[t])
    BY <1>4 DEF RangeOK
  <2>13. UNCHANGED <<program, loader, results, wanted, halted>>
    BY <2>3
  <2> HIDE DEF r, c, s, w, f, v
  <2> QED BY <1>2, <1>4, <2>10, <2>11, <2>12, <2>13, ThreadCacheInv DEF w
<1> QED BY <1>5, <1>6

LEMMA OutcomeInv ==
  ASSUME IInv, Typed', NEW t \in Threads, stack[t] # <<>>, range[t] = <<>>, ~halted, Outcome(t)
  PROVE  IInv'
<1>1. CASE Halt /\ MeaningOf(wanted[t]) = 0
  BY <1>1, NameIs, HaltInv
<1>2. CASE Return(t, Means(Top(t).id)) /\ (IsSource(t) => Means(Top(t).id) # 0)
  <2>1. Give(t, Means(Top(t).id)) /\ UNCHANGED <<program, loader, range, halted>>
    BY <1>2 DEF Return
  <2>2. CacheIsRight'
    <3>1. CacheIsRight /\ cache \in [Ids -> Int] /\ program' = program
      BY <2>1 DEF IInv, TypeOK
    <3>2. cache' = cache \/ cache' = [cache EXCEPT ![Top(t).id] = Means(Top(t).id)]
      BY <1>2 DEF Return
    <3> QED BY <3>1, <3>2 DEF CacheIsRight, Means
  <2> QED BY <1>2, <2>1, <2>2, GiveInv
<1> QED BY <1>1, <1>2 DEF Outcome

LEMMA HitInv ==
  ASSUME IInv, NEW t \in Threads, Hit(t)
  PROVE  IInv'
<1>1. /\ stack[t] # <<>> /\ range[t] = <<>> /\ ~halted /\ Typed /\ Typed' /\ CacheIsRight
      /\ UNCHANGED <<program, loader, cache, range, halted>>
  BY HitTyped DEF Hit, TopIs, IInv, Typed
<1>2. cache[Top(t).id] = Means(Top(t).id) /\ Means(Top(t).id) # 0
  BY <1>1, TopTyped DEF Hit, CacheIsRight, Means
<1>3. Give(t, Means(Top(t).id))
  BY <1>2 DEF Hit
<1>4. CacheIsRight'
  BY <1>1 DEF CacheIsRight
<1> QED BY <1>1, <1>2, <1>3, <1>4, GiveInv

(* A step that changes the innermost call itself. *)
LEMMA StepInv ==
  ASSUME IInv, Typed', NEW t \in Threads, stack[t] # <<>>, range[t] = <<>>, NEW g \in Frames,
         g.id = Top(t).id, g.abort = Top(t).abort,
         TypeOf(g) # "MultipleCandidate" => g.out = Top(t).out,
         CallOK(program, g, wanted[t], g.tried), Step(t, g),
         UNCHANGED <<program, loader, results, cache, wanted, range, halted>>
  PROVE  IInv'
<1> DEFINE s == stack[t]
<1>1. Typed /\ Waiting(program, s, wanted[t]) /\ stack \in [Threads -> Seq(Frames)]
  BY DEF IInv, Typed, TypeOK, StackOK
<1>2. s \in Seq(Frames) /\ Top(t) = s[1] /\ Tail(s) \in Seq(Frames)
  BY <1>1, TopTyped
<1>3. stack'[t] = <<g>> \o Tail(s) /\ \A u \in Threads \ {t} : stack'[u] = stack[u] /\ range'[u] = range[u]
  BY <1>1 DEF Step
<1> HIDE DEF s
<1>4. Waiting(program, <<g>> \o Tail(s), wanted[t])
  BY <1>1, <1>2, TopReplaced DEF s
<1>5. (<<g>> \o Tail(s))[1] = g
  BY <1>2, PushIs
<1>6. StackOK(program, stack'[t], wanted[t])
  BY <1>3, <1>4, <1>5 DEF StackOK
<1>7. RangeOK(range'[t], stack'[t], wanted[t])
  BY DEF RangeOK
<1> QED BY <1>3, <1>6, <1>7, NameIs, ThreadInv

LEMMA TopCall ==
  ASSUME IInv, NEW t \in Threads, stack[t] # <<>>
  PROVE  CallOK(program, Top(t), wanted[t], Top(t).tried)
<1>1. Typed /\ StackOK(program, stack[t], wanted[t])
  BY DEF IInv, Typed
<1> QED BY <1>1, TopTyped DEF StackOK

LEMMA MissInv ==
  ASSUME IInv, NEW t \in Threads, Miss(t)
  PROVE  IInv'
<1> DEFINE f == Top(t)
           g == [f EXCEPT !.step = "apply",
                          !.out = IF Symbols[f.id].type = "MultipleCandidate" THEN 0 ELSE @]
<1>1. /\ stack[t] # <<>> /\ range[t] = <<>> /\ Typed /\ Typed' /\ f.step = "enter"
      /\ Step(t, g) /\ UNCHANGED <<program, loader, results, cache, wanted, range, halted>>
  BY MissTyped DEF Miss, TopIs, IInv, Typed
<1>2. f \in Frames /\ f.id \in Ids
  BY <1>1, TopTyped
<1>3. g \in Frames
  BY <1>2, FrameChanged
<1>4. /\ g.id = f.id /\ g.abort = f.abort /\ g.step = "apply" /\ g.tried = f.tried /\ g.at = f.at
      /\ TypeOf(f) = "MultipleCandidate" => g.out = 0
      /\ TypeOf(f) # "MultipleCandidate" => g.out = f.out
  <2> HIDE DEF f
  <2> QED BY <1>2 DEF Frames, TypeOf
<1>5. CallOK(program, f, wanted[t], f.tried)
  BY <1>1, TopCall
<1> HIDE DEF g, f
<1>6. Inner(program, g, wanted[t])
  BY <1>4, <1>5 DEF CallOK, Inner, TypeOf
<1>7. TypeOf(g) = "MultipleCandidate" => Tried(program, g, g.tried)
  <2>1. SUFFICES ASSUME TypeOf(f) = "MultipleCandidate" PROVE Tried(program, g, g.tried)
    BY <1>4 DEF TypeOf
  <2>2. g.tried = 0 /\ g.out = 0
    BY <1>1, <1>4, <1>5, <2>1 DEF CallOK, Inner
  <2>3. Symbols[g.id].candidates \in Seq(Ids)
    BY <1>2, <1>4, <2>1, EntryOf DEF IsEntry, TypeOf
  <2>4. Len(Symbols[g.id].candidates) \in Nat
    BY <2>3
  <2>5. 0 \in 0 .. 2 * Len(Symbols[g.id].candidates)
    BY <2>4
  <2> QED BY <2>2, <2>5 DEF Tried
<1>8. CallOK(program, g, wanted[t], g.tried)
  BY <1>6, <1>7 DEF CallOK
<1>9. TypeOf(g) # "MultipleCandidate" => g.out = f.out
  BY <1>4 DEF TypeOf
<1> QED BY <1>1, <1>3, <1>4, <1>8, <1>9, StepInv DEF f

LEMMA MultipleInv ==
  ASSUME IInv, NEW t \in Threads, ApplyMultipleCandidate(t)
  PROVE  IInv'
<1> DEFINE f == Top(t)
           s == Symbols[f.id]
           L == Len(s.candidates)
           n == f.tried + 1
           g == [f EXCEPT !.tried = n]
           w == wanted[t]
<1>1. /\ stack[t] # <<>> /\ range[t] = <<>> /\ ~halted /\ Typed /\ Typed' /\ program \in Programs
      /\ f.step = "apply" /\ s.type = "MultipleCandidate"
  BY MultipleTyped DEF ApplyMultipleCandidate, TopIs, IInv, Typed
<1>2. f \in Frames /\ f.id \in Ids /\ f.tried \in Nat /\ TypeOf(f) = "MultipleCandidate"
  BY <1>1, TopTyped DEF TypeOf
<1>3. Tried(program, f, f.tried) /\ Inner(program, f, w)
  BY <1>1, <1>2, TopCall DEF CallOK
<1>4. L \in Nat /\ f.tried \in 0 .. 2 * L
  <2>1. s.candidates \in Seq(Ids)
    BY <1>1, <1>2, EntryOf DEF IsEntry
  <2> QED BY <1>3, <2>1 DEF Tried
<1>5. CASE f.out # 0
  <2>1. f.out = Means(f.id)
    BY <1>1, <1>2, <1>3, <1>5, TriedIs
  <2>2. Return(t, f.out)
    BY <1>5 DEF ApplyMultipleCandidate
  <2>3. Outcome(t)
    BY <1>5, <2>1, <2>2 DEF Outcome
  <2> QED BY <1>1, <2>3, OutcomeInv
<1>6. CASE f.out = 0 /\ n > 2 * L
  <2>1. f.tried = 2 * L
    BY <1>4, <1>6
  <2>2. Means(f.id) = 0
    BY <1>1, <1>2, <1>3, <1>6, <2>1, TriedIs
  <2>3. Halt
    BY <1>6 DEF ApplyMultipleCandidate
  <2>4. Outcome(t)
    BY <1>1, <1>2, <2>2, <2>3, TopIsCalled DEF Outcome
  <2> QED BY <1>1, <2>4, OutcomeInv
<1>7. CASE f.out = 0 /\ ~(n > 2 * L)
  <2>1. n \in 1 .. 2 * L /\ n \in Nat
    BY <1>4, <1>7
  <2>2. UNCHANGED <<program, loader, results, cache, wanted, range, halted>>
    BY <1>7 DEF ApplyMultipleCandidate
  <2>3. /\ g \in Frames /\ g.id = f.id /\ g.abort = f.abort /\ g.step = f.step /\ g.out = f.out
        /\ g.at = f.at /\ g.tried = n
    <3> HIDE DEF f, n
    <3> QED BY <1>2, <2>1 DEF Frames
  <2> HIDE DEF g
  <2>4. Inner(program, g, w)
    BY <1>1, <1>3, <2>3 DEF Inner, TypeOf
  <2>5. CASE Skipped(s, n)
    <3>1. Step(t, g)
      BY <1>7, <2>5 DEF ApplyMultipleCandidate, g
    <3>2. Tried(program, g, n)
      <4>1. ASSUME NEW k \in 1 .. n, k < n, ~Skipped(s, k) PROVE Meaning[program][Candidate(s, k)] = 0
        <5>1. k \in 1 .. f.tried
          BY <1>2, <4>1
        <5>2. CASE k < f.tried
          BY <1>3, <4>1, <5>1, <5>2 DEF Tried
        <5>3. CASE k = f.tried
          <6>1. f.tried # 0
            BY <5>1, <5>3
          <6> QED BY <1>3, <1>7, <4>1, <5>3, <6>1 DEF Tried
        <5> QED BY <1>2, <5>1, <5>2, <5>3
      <4>2. n \in 0 .. 2 * L /\ n # 0
        BY <1>4, <2>1
      <4> HIDE DEF n
      <4> QED BY <1>7, <2>3, <2>5, <4>1, <4>2 DEF Tried
    <3>3. CallOK(program, g, w, g.tried)
      BY <2>3, <2>4, <3>2 DEF CallOK
    <3>4. TypeOf(g) # "MultipleCandidate" => g.out = f.out
      BY <2>3
    <3> HIDE DEF f, w
    <3> QED BY <1>1, <2>2, <2>3, <3>1, <3>3, <3>4, StepInv DEF f, w
  <2>6. CASE ~Skipped(s, n)
    <3> DEFINE rest == Tail(stack[t])
               h == Frame(Candidate(s, n), FALSE, g.out)
               r == <<g>> \o rest
    <3>1. stack' = [stack EXCEPT ![t] = <<h, g>> \o rest]
      <4>1. stack' = [stack EXCEPT ![t] = <<h, g>> \o Tail(@)]
        BY <1>7, <2>6 DEF ApplyMultipleCandidate, g
      <4> QED BY <4>1
    <3>2. Candidate(s, n) \in Ids /\ Symbols[Candidate(s, n)].type # "MultipleCandidate"
      BY <1>1, <1>2, <2>1, CandidateTyped
    <3>3. /\ h \in Frames /\ h.id = Candidate(s, n) /\ h.abort = FALSE /\ h.out = 0 /\ h.step = "enter"
          /\ h.tried = 0
      <4>1. h \in Frames
        <5>1. g.out \in Int /\ FALSE \in BOOLEAN
          BY <1>7, <2>3
        <5> HIDE DEF s, n
        <5> QED BY <3>2, <5>1, FrameTyped, Zenon
      <4> QED BY <1>7, <2>3, <4>1 DEF Frame
    <3>4. /\ Waiting(program, stack[t], w) /\ stack[t] \in Seq(Frames) /\ f = stack[t][1]
          /\ rest \in Seq(Frames) /\ stack \in [Threads -> Seq(Frames)]
      BY <1>1, TopTyped DEF IInv, StackOK, TypeOK
    <3>5. TypeOf(g) # "MultipleCandidate" => g.out = f.out
      BY <2>3
    <3>6. Waiting(program, r, w)
      <4> HIDE DEF f, w
      <4> QED BY <1>1, <2>3, <3>4, <3>5, TopReplaced
    <3> HIDE DEF h, rest
    <3>7. r \in Seq(Frames) /\ r # <<>> /\ r[1] = g
      BY <2>3, <3>4, PushIs
    <3>8. <<h, g>> \o rest = <<h>> \o r
      BY <2>3, <3>3, <3>4
    <3> HIDE DEF r
    <3>9. CallOK(program, g, w, g.tried - 1)
      <4>1. g.tried - 1 = f.tried
        BY <1>2, <2>3
      <4>2. Tried(program, g, f.tried)
        BY <1>3, <2>3 DEF Tried
      <4> QED BY <2>4, <4>1, <4>2 DEF CallOK
    <3>10. Link(program, g, h)
      BY <1>1, <1>7, <2>1, <2>3, <2>6, <3>3 DEF Link
    <3>11. CallOK(program, h, w, h.tried)
      BY <3>2, <3>3 DEF CallOK, Inner, TypeOf
    <3>12. Waiting(program, <<h>> \o r, w)
      BY <3>3, <3>6, <3>7, <3>9, <3>10, Pushed
    <3>13. StackOK(program, <<h>> \o r, w)
      <4>1. (<<h>> \o r)[1] = h
        BY <3>3, <3>7, PushIs
      <4> QED BY <3>11, <3>12, <4>1 DEF StackOK
    <3>14. /\ stack'[t] = <<h>> \o r
           /\ \A u \in Threads \ {t} : stack'[u] = stack[u] /\ range'[u] = range[u]
      BY <2>2, <3>1, <3>4, <3>8
    <3>15. RangeOK(range'[t], stack'[t], wanted[t])
      BY <1>1, <2>2 DEF RangeOK
    <3>16. wanted[t] # NoName /\ StackOK(program, stack'[t], wanted[t])
      BY <1>1, <3>13, <3>14, NameIs
    <3> QED BY <1>1, <2>2, <3>14, <3>15, <3>16, ThreadInv
  <2> QED BY <2>5, <2>6
<1> QED BY <1>5, <1>6, <1>7

LEMMA LeafInv ==
  ASSUME IInv, NEW t \in Threads, ApplyImmediate(t) \/ ApplyDynamic(t) \/ ApplyDataBlock(t)
  PROVE  IInv'
<1>1. Typed /\ stack[t] # <<>> /\ range[t] = <<>> /\ ~halted
  BY DEF ApplyImmediate, ApplyDynamic, ApplyDataBlock, TopIs, IInv, Typed
<1>2. Typed'
  BY <1>1, LeafTyped
<1>3. Outcome(t)
  BY ImmediateEnds, DynamicEnds, DataBlockEnds
<1> QED BY <1>1, <1>2, <1>3, OutcomeInv

LEMMA GivenInv ==
  ASSUME IInv, NEW t \in Threads, ApplyArithmetic(t) \/ ApplyReadADRPGlobal(t)
  PROVE  IInv'
<1>1. Typed /\ stack[t] # <<>> /\ range[t] = <<>> /\ ~halted
  BY DEF ApplyArithmetic, ApplyReadADRPGlobal, TopIs, IInv, Typed
<1>2. Typed'
  BY <1>1, IndirectTyped
<1>3. Outcome(t)
  BY ArithmeticEnds, ReadADRPGlobalEnds
<1> QED BY <1>1, <1>2, <1>3, OutcomeInv

(* A search finds any entry: it begins with the whole table. *)
LEMMA WholeTable ==
  ASSUME NEW name
  PROVE  \A i \in EntriesOf(name) : 0 <= i - 1 /\ i - 1 <= Len(Table) - 1
  BY TableTyped DEF EntriesOf

LEMMA SeekInv ==
  ASSUME IInv, NEW t \in Threads, SeekSource(t)
  PROVE  IInv'
<1>1. /\ Typed /\ stack[t] # <<>> /\ TypeOf(Top(t)) \in Indirect /\ Top(t).step = "apply"
      /\ range' = [range EXCEPT ![t] = <<0, Len(Table) - 1>>]
      /\ UNCHANGED <<program, loader, results, cache, wanted, stack, halted>>
      /\ range \in [Threads -> {<<>>} \union ((0 .. Len(Table)) \X (-1 .. Len(Table) - 1))]
      /\ StackOK(program, stack[t], wanted[t])
  BY DEF SeekSource, TopIs, TypeOf, IInv, Typed, TypeOK
<1>2. Typed'
  BY <1>1, IndirectTyped
<1>3. Top(t) = stack[t][1] /\ wanted[t] # NoName
  BY <1>1, TopTyped, NameIs
<1>4. range'[t] = <<0, Len(Table) - 1>> /\ \A u \in Threads \ {t} : range'[u] = range[u]
  BY <1>1
<1>5. RangeOK(range'[t], stack'[t], wanted[t])
  <2>1. range'[t][1] = 0 /\ range'[t][2] = Len(Table) - 1
    BY <1>4
  <2> QED BY <1>1, <1>3, <2>1, WholeTable DEF RangeOK
<1> QED BY <1>1, <1>2, <1>3, <1>4, <1>5, ThreadInv

LEMMA SoughtIs ==
  ASSUME IInv, NEW t \in Threads, range[t] # <<>>
  PROVE  /\ Sought(t) \in Nat
         /\ Sought(t) = IF stack[t] = <<>> THEN wanted[t] ELSE Symbols[stack[t][1].id].source
         /\ stack[t] # <<>> =>
              /\ Top(t) = stack[t][1] /\ Top(t).id \in Ids /\ TypeOf(Top(t)) \in Indirect
              /\ Top(t).step = "apply"
         /\ \A i \in EntriesOf(Sought(t)) : range[t][1] <= i - 1 /\ i - 1 <= range[t][2]
<1>1. RangeOK(range[t], stack[t], wanted[t]) /\ Typed
  BY DEF IInv, Typed
<1>2. stack[t] # <<>> => Top(t) = stack[t][1] /\ Top(t).id \in Ids
  BY <1>1, TopTyped
<1>3. Sought(t) = IF stack[t] = <<>> THEN wanted[t] ELSE Symbols[stack[t][1].id].source
  BY <1>2 DEF Sought
<1>4. stack[t] # <<>> => TypeOf(Top(t)) \in Indirect /\ Top(t).step = "apply"
  BY <1>1, <1>2 DEF RangeOK
<1>5. Sought(t) \in Nat
  <2>1. CASE stack[t] = <<>>
    BY <1>3, <2>1, NameIs
  <2>2. CASE stack[t] # <<>>
    BY <1>2, <1>3, <1>4, <2>2, SourceIs DEF TypeOf
  <2> QED BY <2>1, <2>2
<1> QED BY <1>1, <1>2, <1>3, <1>4, <1>5 DEF RangeOK

LEMMA NotFoundInv ==
  ASSUME IInv, NEW t \in Threads, NotFound(t)
  PROVE  IInv'
<1>1. Typed /\ ~halted /\ range[t] # <<>> /\ range[t][1] > range[t][2]
  BY DEF NotFound, IInv, Typed
<1>2. Typed'
  BY <1>1, NotFoundTyped
<1>3. EntriesOf(Sought(t)) = {}
  <2>1. SUFFICES ASSUME NEW i \in EntriesOf(Sought(t)) PROVE FALSE
    OBVIOUS
  <2>2. range[t][1] <= i - 1 /\ i - 1 <= range[t][2] /\ i \in Int
    BY <1>1, <2>1, SoughtIs, TableTyped DEF EntriesOf
  <2>3. range[t][1] \in Int /\ range[t][2] \in Int
    <3>1. range[t] \in (0 .. Len(Table)) \X (-1 .. Len(Table) - 1)
      BY <1>1 DEF Typed, TypeOK
    <3> QED BY <3>1, TableTyped
  <2> QED BY <1>1, <2>2, <2>3
<1>4. stack[t] = <<>> /\ Sought(t) = wanted[t]
  <2>1. stack[t] # <<>> => EntriesOf(Sought(t)) # {}
    BY <1>1, SoughtIs, SourceIs DEF TypeOf
  <2> QED BY <1>1, <1>3, <2>1, SoughtIs
<1>5. wanted[t] # NoName /\ MeaningOf(wanted[t]) = 0
  BY <1>1, <1>3, <1>4, NameIs, MeaningOfIs
<1>6. CASE Halt
  BY <1>5, <1>6, HaltInv
<1>7. CASE /\ imported < Len(Imports)
           /\ got' = [got EXCEPT ![imported + 1] = 0] /\ imported' = imported + 1
           /\ wanted' = [wanted EXCEPT ![t] = NoName] /\ range' = [range EXCEPT ![t] = <<>>]
           /\ UNCHANGED <<program, loader, statics, cache, stack, halted>>
  <2>1. CacheIsRight'
    BY <1>7 DEF IInv, CacheIsRight
  <2>2. range'[t] = <<>> /\ stack'[t] = <<>>
        /\ \A u \in Threads \ {t} : stack'[u] = stack[u] /\ range'[u] = range[u]
    BY <1>4, <1>7 DEF IInv, TypeOK
  <2>3. got' = [got EXCEPT ![imported + 1] = MeaningOf(wanted[t])]
    BY <1>5, <1>7
  <2> QED BY <1>1, <1>2, <1>5, <1>7, <2>1, <2>2, <2>3, AnswerInv
<1> QED BY <1>6, <1>7 DEF NotFound

(* Entries of other names are no answer. *)
LEMMA Halved ==
  ASSUME NEW k \in DOMAIN Table, NEW name \in Nat, NEW i \in EntriesOf(name)
  PROVE  /\ Symbols[Table[k]].name < name => k < i
         /\ Symbols[Table[k]].name > name => i < k
<1>1. i \in DOMAIN Table /\ Symbols[Table[i]].name = name /\ i \in Nat /\ k \in Nat
  BY TableTyped DEF EntriesOf
<1>2. Symbols[Table[k]].name \in Nat
  BY TableTyped, EntryOf
<1>3. i < k => name < Symbols[Table[k]].name
  BY <1>1, TableAssumption
<1>4. k < i => Symbols[Table[k]].name < name
  BY <1>1, TableAssumption
<1>5. i < k \/ k < i \/ i = k
  BY <1>1
<1> QED BY <1>1, <1>2, <1>3, <1>4, <1>5

LEMMA ProbeInv ==
  ASSUME IInv, NEW t \in Threads, Probe(t)
  PROVE  IInv'
<1> DEFINE low == range[t][1]
           high == range[t][2]
           mid == (low + high) \div 2
           id == Table[mid + 1]
           w == wanted[t]
<1>1. /\ Typed /\ range[t] # <<>> /\ low <= high /\ ~halted /\ program \in Programs
      /\ stack \in [Threads -> Seq(Frames)] /\ StackOK(program, stack[t], w)
      /\ range \in [Threads -> {<<>>} \union ((0 .. Len(Table)) \X (-1 .. Len(Table) - 1))]
  BY DEF Probe, IInv, Typed, TypeOK
<1>2. /\ low \in 0 .. Len(Table) - 1 /\ high \in 0 .. Len(Table) - 1 /\ mid \in low .. high
      /\ mid + 1 \in DOMAIN Table /\ id \in Ids /\ mid \in Nat
  BY <1>1, RangeTyped, TableTyped
<1>3. Typed' /\ UNCHANGED <<program, loader, results, cache, wanted, halted>>
  BY <1>1, ProbeTyped DEF Probe
<1>4. w # NoName /\ w \in Nat
  BY <1>1, NameIs
<1>5. Sought(t) \in Nat /\ \A i \in EntriesOf(Sought(t)) : low <= i - 1 /\ i - 1 <= high /\ i \in Nat
  BY <1>1, SoughtIs, TableTyped DEF EntriesOf
<1>6. CASE /\ Symbols[id].name = Sought(t) /\ range' = [range EXCEPT ![t] = <<>>]
           /\ IF stack[t] = <<>> THEN Call(t, id, TRUE, 0)
              ELSE \E out \in Garbage : Call(t, id, Top(t).abort, out)
  <2>1. mid + 1 \in EntriesOf(Sought(t))
    BY <1>2, <1>6 DEF EntriesOf
  <2>2. range'[t] = <<>> /\ \A u \in Threads \ {t} : range'[u] = range[u]
    BY <1>1, <1>6
  <2>3. RangeOK(range'[t], stack'[t], w)
    BY <2>2 DEF RangeOK
  <2>4. CASE stack[t] = <<>>
    <3> DEFINE f == Frame(id, TRUE, 0)
    <3>1. f \in Frames
      <4>1. 0 \in Int /\ TRUE \in BOOLEAN
        OBVIOUS
      <4> HIDE DEF id
      <4> QED BY <1>2, <4>1, FrameTyped, Zenon
    <3>2. f.id = id /\ f.abort = TRUE /\ f.out = 0 /\ f.step = "enter" /\ f.tried = 0
      BY DEF Frame
    <3>3. stack' = [stack EXCEPT ![t] = <<f>> \o stack[t]]
      BY <1>6, <2>4 DEF Call
    <3> HIDE DEF f
    <3>4. <<f>> \o <<>> = <<f>>
      OBVIOUS
    <3>5. stack'[t] = <<f>> /\ \A u \in Threads \ {t} : stack'[u] = stack[u]
      BY <1>1, <2>4, <3>3, <3>4
    <3>6. Sought(t) = w
      BY <2>4 DEF Sought
    <3>7. MeaningIn(program, w) = Meaning[program][id]
      <4>1. (CHOOSE i \in EntriesOf(w) : TRUE) = mid + 1 /\ EntriesOf(w) # {}
        BY <1>4, <2>1, <3>6, OneEntry
      <4> QED BY <4>1 DEF MeaningIn
    <3>8. Bottom(f, w)
      BY <2>1, <3>2, <3>6 DEF Bottom
    <3>9. CallOK(program, f, w, f.tried)
      BY <3>2, <3>7 DEF CallOK, Inner
    <3>10. StackOK(program, <<f>>, w)
      <4>1. <<f>> # <<>> /\ Len(<<f>>) = 1 /\ <<f>>[1] = f
        OBVIOUS
      <4>2. Waiting(program, <<f>>, w)
        BY <1>4, <3>8, <4>1 DEF Waiting
      <4> QED BY <3>9, <4>1, <4>2 DEF StackOK
    <3> HIDE DEF w
    <3> QED BY <1>3, <1>4, <2>2, <2>3, <3>5, <3>10, ThreadInv DEF w
  <2>5. CASE stack[t] # <<>>
    <3> DEFINE c == Top(t)
    <3>1. PICK out \in Garbage : Call(t, id, c.abort, out)
      BY <1>6, <2>5
    <3> DEFINE f == Frame(id, c.abort, out)
    <3>2. /\ c = stack[t][1] /\ c.id \in Ids /\ TypeOf(c) \in Indirect /\ c.step = "apply"
          /\ Sought(t) = Symbols[c.id].source /\ c.abort \in BOOLEAN /\ stack[t] \in Seq(Frames)
      BY <1>1, <2>5, SoughtIs, TopTyped
    <3>3. id = Source(c.id)
      BY <2>1, <3>2, SourceIs DEF TypeOf
    <3>4. f \in Frames
      <4>1. out \in Int
        BY SailAssumption
      <4> HIDE DEF id, c
      <4> QED BY <1>2, <3>2, <4>1, FrameTyped, Zenon
    <3>5. f.id = id /\ f.abort = c.abort /\ f.step = "enter" /\ f.tried = 0
      BY DEF Frame
    <3>6. stack' = [stack EXCEPT ![t] = <<f>> \o stack[t]]
      BY <3>1 DEF Call
    <3> HIDE DEF f
    <3>7. ~c.abort => Means(c.id) # 0
      BY <2>5, <3>2, IndirectHasMeaning
    <3>8. Means(Source(c.id)) = 0 => Means(c.id) = 0
      BY <1>1, <3>2, MeansIndirect DEF TypeOf
    <3>9. Link(program, c, f)
      BY <3>2, <3>3, <3>5, <3>7, <3>8 DEF Link, TypeOf, Means
    <3>10. CallOK(program, c, w, c.tried)
      BY <2>5, TopCall
    <3>11. CallOK(program, c, w, c.tried - 1)
      BY <3>2, <3>10 DEF CallOK, Indirect
    <3>12. CallOK(program, f, w, f.tried)
      <4>1. f.abort /\ Meaning[program][f.id] = 0 => MeaningIn(program, w) = 0
        BY <3>3, <3>5, <3>8, <3>10 DEF CallOK, Inner, Means
      <4> QED BY <3>5, <4>1 DEF CallOK, Inner
    <3>13. Waiting(program, <<f>> \o stack[t], w)
      <4>1. Waiting(program, stack[t], w)
        BY <1>1 DEF StackOK
      <4> HIDE DEF c
      <4> QED BY <2>5, <3>2, <3>4, <3>9, <3>11, <4>1, Pushed
    <3>14. StackOK(program, <<f>> \o stack[t], w)
      <4>1. (<<f>> \o stack[t])[1] = f
        BY <3>2, <3>4, PushIs
      <4> QED BY <3>12, <3>13, <4>1 DEF StackOK
    <3>15. stack'[t] = <<f>> \o stack[t] /\ \A u \in Threads \ {t} : stack'[u] = stack[u]
      BY <1>1, <3>6
    <3> HIDE DEF w
    <3> QED BY <1>3, <1>4, <2>2, <2>3, <3>14, <3>15, ThreadInv DEF w
  <2> QED BY <2>4, <2>5
<1>7. ASSUME NEW a \in Int, NEW b \in Int, range' = [range EXCEPT ![t] = <<a, b>>], stack' = stack,
             \A i \in EntriesOf(Sought(t)) : a <= i - 1 /\ i - 1 <= b
      PROVE  IInv'
  <2>1. range'[t] = <<a, b>> /\ \A u \in Threads \ {t} : range'[u] = range[u] /\ stack'[u] = stack[u]
    BY <1>1, <1>7
  <2>2. range'[t][1] = a /\ range'[t][2] = b
    BY <2>1
  <2>3. RangeOK(range'[t], stack'[t], w)
    <3>1. RangeOK(range[t], stack[t], w)
      BY DEF IInv
    <3>2. Sought(t) = IF stack[t] = <<>> THEN w ELSE Symbols[stack[t][1].id].source
      BY <1>1, SoughtIs
    <3> QED BY <1>1, <1>4, <1>7, <2>2, <3>1, <3>2 DEF RangeOK
  <2>4. StackOK(program, stack'[t], w)
    BY <1>1, <1>7
  <2> HIDE DEF w
  <2> QED BY <1>3, <1>4, <2>1, <2>3, <2>4, ThreadInv DEF w
<1>8. CASE Symbols[id].name < Sought(t) /\ range' = [range EXCEPT ![t] = <<mid + 1, high>>] /\ UNCHANGED stack
  <2>1. ASSUME NEW i \in EntriesOf(Sought(t)) PROVE mid + 1 <= i - 1 /\ i - 1 <= high
    <3>1. mid + 1 < i
      BY <1>2, <1>5, <1>8, Halved
    <3> HIDE DEF low, high, mid
    <3> QED BY <1>2, <1>5, <3>1
  <2>2. mid + 1 \in Int /\ high \in Int
    BY <1>2
  <2> HIDE DEF mid, high
  <2> QED BY <1>7, <1>8, <2>1, <2>2
<1>9. CASE Symbols[id].name > Sought(t) /\ range' = [range EXCEPT ![t] = <<low, mid - 1>>] /\ UNCHANGED stack
  <2>1. ASSUME NEW i \in EntriesOf(Sought(t)) PROVE low <= i - 1 /\ i - 1 <= mid - 1
    <3>1. i < mid + 1
      BY <1>2, <1>5, <1>9, Halved
    <3> HIDE DEF low, high, mid
    <3> QED BY <1>2, <1>5, <3>1
  <2>2. mid - 1 \in Int /\ low \in Int
    BY <1>2
  <2> HIDE DEF mid, low
  <2> QED BY <1>7, <1>9, <2>1, <2>2
<1> QED BY <1>6, <1>8, <1>9, Zenon DEF Probe

(* A thread that begins to look up a name. *)
LEMMA StartInv ==
  ASSUME IInv, NEW t \in Threads, NEW name \in Nat, Start(t, name), listed = Len(Listed),
         imported < Len(Imports) => t = Loader /\ name = Imports[imported + 1].name,
         imported = Len(Imports) => name \in Wanted
  PROVE  IInv'
<1>1. /\ Typed /\ ~halted /\ wanted[t] = NoName
      /\ wanted' = [wanted EXCEPT ![t] = name] /\ range' = [range EXCEPT ![t] = <<0, Len(Table) - 1>>]
      /\ UNCHANGED <<program, loader, results, cache, stack, halted>>
      /\ wanted \in [Threads -> Nat \union {NoName}]
      /\ range \in [Threads -> {<<>>} \union ((0 .. Len(Table)) \X (-1 .. Len(Table) - 1))]
  BY DEF Start, IInv, Typed, TypeOK
<1>2. Typed'
  BY <1>1, StartTyped
<1>3. TypeOK' /\ program' \in Programs /\ Suits' /\ LoadInv'
  BY <1>1, <1>2, ProgramStays, LoadStays DEF IInv, Typed
<1>4. AnswersAreRight' /\ CacheIsRight' /\ HaltIsJustified'
  BY <1>1, AnswersStay DEF IInv, CacheIsRight, HaltIsJustified
<1>5. listed' = listed /\ imported' = imported /\ program' = program /\ stack' = stack
  BY <1>1 DEF loader, results
<1>6. ASSUME NEW u \in Threads
      PROVE  /\ NameOK(u)' /\ StackOK(program', stack'[u], wanted'[u])
             /\ RangeOK(range'[u], stack'[u], wanted'[u])
  <2>1. NameOK(u) /\ StackOK(program, stack[u], wanted[u]) /\ RangeOK(range[u], stack[u], wanted[u])
    BY DEF IInv
  <2>2. CASE u = t
    <3>1. /\ wanted'[u] = name /\ range'[u] = <<0, Len(Table) - 1>> /\ stack'[u] = <<>>
          /\ name # NoName
      BY <1>1, <1>5, <2>1, <2>2, SailAssumption DEF NameOK
    <3>2. NameOK(u)'
      BY <1>5, <2>2, <3>1 DEF NameOK
    <3>3. StackOK(program', stack'[u], wanted'[u])
      <4>1. Len(stack'[u]) = 0
        BY <3>1
      <4> QED BY <3>1, <4>1 DEF StackOK, Waiting
    <3>4. RangeOK(range'[u], stack'[u], wanted'[u])
      <4>1. range'[u][1] = 0 /\ range'[u][2] = Len(Table) - 1
        BY <3>1
      <4> QED BY <3>1, <4>1, WholeTable DEF RangeOK
    <3> QED BY <3>2, <3>3, <3>4
  <2>3. CASE u # t
    <3>1. wanted'[u] = wanted[u] /\ range'[u] = range[u]
      BY <1>1, <2>3
    <3>2. NameOK(u)'
      BY <1>5, <2>1, <3>1 DEF NameOK
    <3> QED BY <1>5, <2>1, <3>1, <3>2
  <2> QED BY <2>2, <2>3
<1> QED BY <1>3, <1>4, <1>6 DEF IInv

LEMMA LoadVersionInv ==
  ASSUME IInv, LoadVersion
  PROVE  IInv'
<1> DEFINE i == listed + 1
<1>1. /\ Typed /\ ~halted /\ program \in Programs /\ SuitsModules /\ LoadInv
      /\ listed < Len(Listed) /\ listed' = i /\ found' = [found EXCEPT ![i] = ModuleFor(i)]
      /\ version' = IF OfBuild(i) = {} THEN version ELSE [version EXCEPT ![ModuleFor(i)] = VersionFor(i)]
      /\ UNCHANGED <<program, results, cache, lookups, halted>>
      /\ found \in [DOMAIN Listed -> {NoModule} \union DOMAIN program] /\ version \in [DOMAIN program -> Nat]
      /\ listed \in 0 .. Len(Listed)
  BY DEF LoadVersion, IInv, Typed, TypeOK, Suits
<1>2. i \in DOMAIN Listed /\ \A j \in 1 .. i : j \in DOMAIN Listed /\ (j = i \/ j \in 1 .. listed)
  BY <1>1, ListedAssumption
<1>3. Typed'
  BY <1>1, LoadVersionTyped
<1>4. program' = program /\ stack' = stack /\ range' = range /\ wanted' = wanted /\ imported' = imported
  BY <1>1 DEF lookups, results
<1>5. \A j \in DOMAIN Listed : OfBuild(j) # {} => ModuleFor(j) # NoModule /\ ModuleFor(j) \in DOMAIN program
  <2>1. NoModule \notin DOMAIN program
    BY <1>1, ProgramAssumption DEF NoModule
  <2>2. \A j : OfBuild(j) \subseteq DOMAIN program
    BY DEF OfBuild
  <2> QED BY <1>1, <2>1, <2>2, ModuleForIs
<1>6. LoadInv'
  <2>1. ASSUME NEW j
        PROVE  OfBuild(j)' = OfBuild(j) /\ ModuleFor(j)' = ModuleFor(j) /\ VersionFor(j)' = VersionFor(j)
    <3>1. OfBuild(j)' = OfBuild(j) /\ OfName(j)' = OfName(j)
      BY <1>4 DEF OfBuild, OfName
    <3>2. ModuleFor(j)' = ModuleFor(j)
      BY <3>1 DEF ModuleFor, NoModule
    <3>3. VersionFor(j)' = VersionFor(j)
      BY <1>4, <3>2 DEF VersionFor
    <3> QED BY <3>1, <3>2, <3>3
  <2>2. ASSUME NEW j \in DOMAIN Listed
        PROVE  found'[j] = IF j <= i THEN ModuleFor(j) ELSE NoModule
    <3>1. found[j] = IF j <= listed THEN ModuleFor(j) ELSE NoModule
      BY <1>1 DEF LoadInv
    <3>2. j \in Nat
      BY ListedAssumption
    <3>3. CASE j = i
      BY <1>1, <1>2, <3>3
    <3>4. CASE j # i
      <4>1. j <= listed <=> j <= i
        BY <1>1, <3>2, <3>4
      <4>2. found'[j] = found[j]
        BY <1>1, <3>4
      <4> QED BY <3>1, <4>1, <4>2
    <3> QED BY <3>3, <3>4
  <2>3. ASSUME NEW j \in 1 .. i, OfBuild(j) # {} PROVE version'[ModuleFor(j)] = VersionFor(j)
    <3>1. j \in DOMAIN Listed /\ ModuleFor(j) # NoModule /\ ModuleFor(j) \in DOMAIN program
      BY <1>2, <1>5, <2>3
    <3>2. CASE j = i
      BY <1>1, <2>3, <3>1, <3>2
    <3>3. CASE j # i
      <4>1. version[ModuleFor(j)] = VersionFor(j)
        BY <1>1, <1>2, <2>3, <3>3 DEF LoadInv
      <4>2. ModuleFor(j) # ModuleFor(i)
        BY <1>1, <1>2, <3>1, <3>3, ModulesDiffer
      <4> QED BY <1>1, <3>1, <4>1, <4>2
    <3> QED BY <3>2, <3>3
  <2>4. ASSUME NEW m \in DOMAIN program, \A j \in 1 .. i : OfBuild(j) # {} => ModuleFor(j) # m
        PROVE  version'[m] = 0
    <3>1. listed \in Nat /\ i \in 1 .. i /\ \A j \in 1 .. listed : j \in 1 .. i
      BY <1>1, <1>2, ListedAssumption
    <3>2. version[m] = 0
      BY <1>1, <2>4, <3>1 DEF LoadInv
    <3>3. OfBuild(i) # {} => ModuleFor(i) # m
      BY <2>4, <3>1
    <3> QED BY <1>1, <3>2, <3>3
  <2> HIDE DEF i
  <2> QED BY <1>1, <1>4, <2>1, <2>2, <2>3, <2>4 DEF LoadInv, NoModule
<1>7. ASSUME NEW u \in Threads
      PROVE  /\ NameOK(u)' /\ StackOK(program', stack'[u], wanted'[u])
             /\ RangeOK(range'[u], stack'[u], wanted'[u])
  <2>1. NameOK(u) /\ StackOK(program, stack[u], wanted[u]) /\ RangeOK(range[u], stack[u], wanted[u])
    BY DEF IInv
  <2>2. wanted[u] = NoName
    <3>1. listed # Len(Listed)
      <4>1. listed < Len(Listed) /\ listed \in Nat /\ Len(Listed) \in Nat
        BY <1>1, ListedAssumption
      <4>2. \A a, b \in Nat : a < b => a # b
        OBVIOUS
      <4> QED BY <4>1, <4>2
    <3> QED BY <2>1, <3>1 DEF NameOK
  <2>3. NameOK(u)'
    BY <1>4, <2>1, <2>2 DEF NameOK
  <2> QED BY <1>4, <2>1, <2>3
<1>8. AnswersAreRight' /\ CacheIsRight' /\ HaltIsJustified' /\ Suits'
  BY <1>1, AnswersStay, ProgramStays DEF IInv, CacheIsRight, HaltIsJustified
<1> QED BY <1>3, <1>6, <1>7, <1>8 DEF IInv, Typed

LEMMA InvNext == IInv /\ [Next]_vars => IInv'
<1> SUFFICES ASSUME IInv, [Next]_vars PROVE IInv'
  OBVIOUS
<1>1. CASE LoadVersion
  BY <1>1, LoadVersionInv
<1>2. CASE Import
  <2>1. listed = Len(Listed) /\ imported < Len(Imports) /\ Start(Loader, Imports[imported + 1].name)
    BY <1>2 DEF Import
  <2>2. Imports[imported + 1].name \in Nat /\ Loader \in Threads
    BY <2>1, ImportTyped DEF IInv, Typed
  <2>3. imported # Len(Imports)
    BY <2>1, SailAssumption
  <2> QED BY <2>1, <2>2, <2>3, StartInv
<1>3. ASSUME NEW t \in Threads, NEW name \in Wanted, Lookup(t, name) PROVE IInv'
  <2>1. listed = Len(Listed) /\ imported = Len(Imports) /\ Start(t, name) /\ name \in Nat
    BY <1>3, SailAssumption DEF Lookup
  <2>2. ~(imported < Len(Imports))
    BY <2>1, SailAssumption
  <2> QED BY <2>1, <2>2, StartInv
<1>4. ASSUME NEW t \in Threads, Proceed(t) PROVE IInv'
  BY <1>4, ProbeInv, NotFoundInv, HitInv, MissInv, LeafInv, SeekInv, GivenInv, MultipleInv
     DEF Proceed, Apply
<1>5. CASE UNCHANGED vars
  <2>1. /\ program' = program /\ cache' = cache /\ wanted' = wanted /\ halted' = halted
        /\ listed' = listed /\ imported' = imported /\ stack' = stack /\ range' = range
        /\ UNCHANGED <<loader, results>>
    BY <1>5 DEF vars, loader, results, lookups
  <2>2. Typed /\ Typed'
    BY <1>5, NextTyped DEF IInv, Typed
  <2>3. ASSUME NEW u \in Threads
        PROVE  /\ NameOK(u)' /\ StackOK(program', stack'[u], wanted'[u])
               /\ RangeOK(range'[u], stack'[u], wanted'[u])
    BY <2>1 DEF IInv, NameOK
  <2>4. Suits' /\ LoadInv' /\ AnswersAreRight' /\ CacheIsRight' /\ HaltIsJustified'
    BY <2>1, LoadStays, AnswersStay, ProgramStays DEF IInv, CacheIsRight, HaltIsJustified
  <2> QED BY <2>2, <2>3, <2>4 DEF IInv, Typed
<1> QED BY <1>1, <1>2, <1>3, <1>4, <1>5 DEF Next

LEMMA InvInit == SuitedInit => IInv
<1> SUFFICES ASSUME Init, Suits PROVE IInv
  BY DEF SuitedInit
<1>1. TypeOK /\ program \in Programs
  BY InitTyped DEF Typed
<1>2. LoadInv
  <2>1. 1 .. listed = {} /\ listed = 0 /\ \A i \in DOMAIN Listed : ~(i <= listed)
    BY ListedAssumption DEF Init
  <2> QED BY <2>1 DEF Init, LoadInv
<1>3. ASSUME NEW u \in Threads
      PROVE  NameOK(u) /\ StackOK(program, stack[u], wanted[u]) /\ RangeOK(range[u], stack[u], wanted[u])
  <2>1. wanted[u] = NoName /\ range[u] = <<>> /\ stack[u] = <<>>
    BY DEF Init
  <2>2. Len(<<>>) = 0 /\ 2 .. 0 = {}
    OBVIOUS
  <2> QED BY <2>1, <2>2 DEF NameOK, StackOK, Waiting, RangeOK
<1>4. CacheIsRight /\ HaltIsJustified
  BY DEF Init, CacheIsRight, HaltIsJustified
<1>5. AnswersAreRight
  <2>1. 1 .. imported = {} /\ \A name \in Wanted : statics[name] = 0
    BY DEF Init
  <2> QED BY <2>1 DEF AnswersAreRight
<1> QED BY <1>1, <1>2, <1>3, <1>4, <1>5 DEF IInv

LEMMA InvAlways == SuitedSpec => []IInv
  BY InvInit, InvNext, PTL DEF SuitedSpec

(* Every address a mod is given, by its imports or by lookupSymbol, is the *)
(* one the symbol language says, for any database that suits the program.  *)
THEOREM AnswersAreTheLanguages == SuitedSpec => []AnswersAreRight
<1>1. IInv => AnswersAreRight
  BY DEF IInv
<1> QED BY <1>1, InvAlways, PTL

(* An entry's cache holds what the entry means or nothing, whatever other  *)
(* threads look up and whatever an attempt without success left behind.    *)
THEOREM CachesAreRight == SuitedSpec => []CacheIsRight
<1>1. IInv => CacheIsRight
  BY DEF IInv
<1> QED BY <1>1, InvAlways, PTL

(* Sail ends the process only while a name without a meaning is looked up. *)
THEOREM HaltsAreJustified == SuitedSpec => []HaltIsJustified
<1>1. IInv => HaltIsJustified
  BY DEF IInv
<1> QED BY <1>1, InvAlways, PTL
=============================================================================
