---------------------------- MODULE BackupProofs ----------------------------
(***************************************************************************)
(* Theorems about Backup.                                                  *)
(*                                                                         *)
(* Buffers are filled within their bounds whatever is displaced, and       *)
(* literals survive if the backup has as many words as the code gives it   *)
(* at trampoline level 2, 4 * N + 5.  For these, what an instruction       *)
(* assembles to does not matter.                                           *)
(*                                                                         *)
(* For what the words do when they are run it does.  Arithmetic of fields, *)
(* pages and quarters says where assembled instructions lead; Loads,       *)
(* Branches and Mirrors say what the words do that an emitting operator    *)
(* adds to a buffer, wherever that is.  The branch at the site is one      *)
(* Branches; the backup follows the displaced instructions step by step    *)
(* (Tracks), each of them by what Mirrors it.                              *)
(***************************************************************************)
EXTENDS Backup, TLAPS, WellFoundedInduction

(* The shape of a buffer over an array of n words. *)
Shaped(b, n) ==
  /\ b = [words |-> b.words, size |-> b.size, cap |-> b.cap, lits |-> b.lits, ok |-> b.ok]
  /\ b.words = [k \in 0 .. n - 1 |-> b.words[k]]
  /\ b.ok \in BOOLEAN
  /\ b.size \in Nat /\ b.cap \in Nat
  /\ b.size <= b.cap /\ b.cap <= n

(* Literals lie behind what is left of the buffer, but for a word. *)
Behind(b, n) == \A l \in b.lits : l.at \in Nat /\ b.cap <= l.at + 1 /\ l.at + 3 <= n

(* Literals are as they were put. *)
Intact(b) ==
  \A l \in b.lits : /\ b.words[l.at] = Data(l.value % HalfWord)
                    /\ b.words[l.at + 1] = Data(l.value \div HalfWord)

Buffer(b, n) == Shaped(b, n) /\ Behind(b, n)
Left(b) == b.cap - b.size

-----------------------------------------------------------------------------
(* A function stays one on its domain when a value is replaced. *)
LEMMA ReplacedValue ==
  ASSUME NEW S, NEW f, f = [k \in S |-> f[k]], NEW i \in S, NEW v
  PROVE  LET g == [f EXCEPT ![i] = v] IN g = [k \in S |-> g[k]]
  OBVIOUS

(* Adding a word keeps the form; if two words are left it hits no literal. *)
LEMMA EmitFacts ==
  ASSUME NEW n \in Nat, NEW b, Buffer(b, n), NEW word
  PROVE  LET r == Emit(b, word)
         IN /\ Buffer(r, n)
            /\ r.lits = b.lits /\ r.cap = b.cap
            /\ r.ok => b.ok /\ Left(r) = Left(b) - 1
            /\ r.ok /\ Intact(b) /\ Left(b) >= 2 => Intact(r)
<1> DEFINE r == Emit(b, word)
<1>1. CASE b.ok /\ word # Refused /\ b.size < b.cap
  <2>1. r = [words |-> [b.words EXCEPT ![b.size] = word], size |-> b.size + 1,
             cap |-> b.cap, lits |-> b.lits, ok |-> b.ok]
    BY <1>1, ZenonT(30) DEF Emit, Buffer, Shaped
  <2>2. Shaped(r, n)
    <3> DEFINE once == [b.words EXCEPT ![b.size] = word]
    <3>0. b.size \in 0 .. n - 1 /\ b.words = [k \in 0 .. n - 1 |-> b.words[k]]
      BY <1>1 DEF Buffer, Shaped
    <3>1. once = [k \in 0 .. n - 1 |-> once[k]]
      BY <3>0, ReplacedValue
    <3> QED BY <1>1, <2>1, <3>1 DEF Buffer, Shaped
  <2>3. Behind(r, n)
    BY <2>1 DEF Buffer, Behind
  <2>4. ASSUME Intact(b), Left(b) >= 2 PROVE Intact(r)
    <3>1. \A l \in b.lits : l.at # b.size /\ l.at + 1 # b.size /\ l.at \in 0 .. n - 1 /\ l.at + 1 \in 0 .. n - 1
      BY <2>4 DEF Buffer, Shaped, Behind, Left
    <3> QED BY <2>1, <2>4, <3>1 DEF Intact, Buffer, Shaped
  <2> QED BY <1>1, <2>1, <2>2, <2>3, <2>4 DEF Buffer, Left, Shaped
<1>2. CASE ~(b.ok /\ word # Refused /\ b.size < b.cap)
  <2>1. r = [words |-> b.words, size |-> b.size, cap |-> b.cap, lits |-> b.lits, ok |-> FALSE]
    BY <1>2, ZenonT(30) DEF Emit, Buffer, Shaped
  <2> QED BY <2>1 DEF Buffer, Shaped, Behind, Left
<1> QED BY <1>1, <1>2

(* Putting a literal takes three words. *)
LEMMA EmitLiteralFacts ==
  ASSUME NEW n \in Nat, NEW b, Buffer(b, n), NEW base, NEW rd, NEW value
  PROVE  LET r == EmitLiteral(b, base, rd, value)
         IN /\ Buffer(r, n)
            /\ r.ok => b.ok /\ b.size <= r.size /\ Left(r) = Left(b) - 3
            /\ r.ok /\ Intact(b) => Intact(r)
<1> DEFINE r == EmitLiteral(b, base, rd, value)
           k == b.cap - 3
           word == AssembleRelative("ldr", rd, TRUE, 0, Rx(b, base), base + 4 * k)
           loaded == Emit(b, word)
           lit == [at |-> k, value |-> value]
<1> HIDE DEF word
<1>1. /\ Buffer(loaded, n) /\ loaded.lits = b.lits /\ loaded.cap = b.cap
      /\ loaded.ok => b.ok /\ Left(loaded) = Left(b) - 1
      /\ loaded.ok /\ Intact(b) /\ Left(b) >= 2 => Intact(loaded)
  BY EmitFacts
<1> HIDE DEF loaded
<1>2. CASE b.cap - b.size < 3 \/ ~loaded.ok
  <2>1. r = [words |-> b.words, size |-> b.size, cap |-> b.cap, lits |-> b.lits, ok |-> FALSE]
    BY <1>2 DEF EmitLiteral, Buffer, Shaped, loaded, word
  <2> QED BY <2>1 DEF Buffer, Shaped, Behind, Left
<1>3. CASE ~(b.cap - b.size < 3) /\ loaded.ok
  <2> DEFINE low == Data(value % HalfWord)
             high == Data(value \div HalfWord)
  <2>1. r = [words |-> [[loaded.words EXCEPT ![k] = low] EXCEPT ![k + 1] = high],
             size |-> loaded.size, cap |-> loaded.cap - 2,
             lits |-> loaded.lits \union {lit}, ok |-> loaded.ok]
    BY <1>1, <1>3 DEF EmitLiteral, Buffer, Shaped, loaded, word
  <2> HIDE DEF low, high
  <2>2. k \in 0 .. n - 1 /\ k + 1 \in 0 .. n - 1 /\ k + 3 <= n
    BY <1>3 DEF Buffer, Shaped
  <2>3. Shaped(r, n)
    <3> DEFINE once == [loaded.words EXCEPT ![k] = low]
    <3>1. once = [j \in 0 .. n - 1 |-> once[j]]
      BY <1>1, <2>2, ReplacedValue DEF Buffer, Shaped
    <3> DEFINE twice == [once EXCEPT ![k + 1] = high]
    <3> HIDE DEF once
    <3>2. twice = [j \in 0 .. n - 1 |-> twice[j]]
      BY <2>2, <3>1, ReplacedValue
    <3>3. r.words = twice
      BY <2>1 DEF once
    <3> HIDE DEF twice
    <3>4. /\ r = [words |-> r.words, size |-> r.size, cap |-> r.cap, lits |-> r.lits, ok |-> r.ok]
          /\ r.size = loaded.size /\ r.cap = loaded.cap - 2 /\ r.ok = loaded.ok
      BY <2>1
    <3> QED BY <1>1, <1>3, <3>2, <3>3, <3>4 DEF Buffer, Shaped, Left
  <2>4. Behind(r, n)
    BY <1>1, <2>1, <2>2, SMTT(30) DEF Buffer, Behind, Shaped
  <2>5. ASSUME Intact(b) PROVE Intact(r)
    <3>1. Intact(loaded)
      BY <1>1, <1>3, <2>5 DEF Left, Buffer, Shaped
    <3>2. /\ r.words[k] = low /\ r.words[k + 1] = high
          /\ \A j \in 0 .. n - 1 : j # k /\ j # k + 1 => r.words[j] = loaded.words[j]
      BY <1>1, <2>1, <2>2 DEF Buffer, Shaped
    <3>3. \A l \in loaded.lits : /\ l.at \in 0 .. n - 1 /\ l.at + 1 \in 0 .. n - 1
                                 /\ l.at # k /\ l.at # k + 1 /\ l.at + 1 # k /\ l.at + 1 # k + 1
      BY <1>1, <2>2, SMTT(30) DEF Buffer, Behind, Shaped
    <3>4. ASSUME NEW l \in r.lits
          PROVE  r.words[l.at] = Data(l.value % HalfWord) /\ r.words[l.at + 1] = Data(l.value \div HalfWord)
      <4>1. CASE l \in loaded.lits
        BY <3>1, <3>2, <3>3, <4>1 DEF Intact
      <4>2. CASE l = lit
        BY <3>2, <4>2 DEF low, high
      <4> QED BY <2>1, <4>1, <4>2
    <3> QED BY <3>4 DEF Intact
  <2> QED BY <1>1, <1>3, <2>1, <2>3, <2>4, <2>5, SMTT(30) DEF Buffer, Left, Shaped
<1> QED BY <1>2, <1>3

-----------------------------------------------------------------------------
(* r was made of b by taking at most w words, and harms no literal if one  *)
(* more is left.                                                           *)
Takes(r, b, n, w) ==
  /\ Buffer(r, n)
  /\ r.ok => b.ok /\ b.size <= r.size /\ Left(r) >= Left(b) - w
  /\ r.ok /\ Intact(b) /\ Left(b) >= w + 1 => Intact(r)

LEMMA LeftIsNat ==
  ASSUME NEW n \in Nat, NEW b, Buffer(b, n)
  PROVE  Left(b) \in Nat /\ b.size \in Nat
  BY DEF Left, Buffer, Shaped

LEMMA TakesMore ==
  ASSUME NEW n \in Nat, NEW b, NEW r, NEW v \in Nat, NEW w \in Nat,
         Buffer(b, n), Takes(r, b, n, v), v <= w
  PROVE  Takes(r, b, n, w)
  BY DEF Takes, Left, Buffer, Shaped

LEMMA TakesBoth ==
  ASSUME NEW n \in Nat, NEW b, NEW r, NEW q, NEW v \in Nat, NEW w \in Nat,
         Buffer(b, n), Takes(r, b, n, v), Takes(q, r, n, w)
  PROVE  Takes(q, b, n, v + w)
<1>1. /\ Left(b) \in Nat /\ Left(r) \in Nat /\ Left(q) \in Nat
      /\ b.size \in Nat /\ r.size \in Nat /\ q.size \in Nat
  BY LeftIsNat DEF Takes
<1>2. ASSUME q.ok PROVE b.ok /\ b.size <= q.size /\ Left(q) >= Left(b) - (v + w)
  BY <1>1, <1>2 DEF Takes
<1>3. ASSUME q.ok, Intact(b), Left(b) >= v + w + 1 PROVE Intact(q)
  <2>1. r.ok /\ Left(r) >= Left(b) - v
    BY <1>3 DEF Takes
  <2>2. Intact(r)
    BY <1>1, <1>3, <2>1 DEF Takes
  <2> QED BY <1>1, <1>3, <2>1, <2>2 DEF Takes
<1> QED BY <1>2, <1>3 DEF Takes

LEMMA EmitTakes ==
  ASSUME NEW n \in Nat, NEW b, Buffer(b, n), NEW word
  PROVE  Takes(Emit(b, word), b, n, 1)
<1> DEFINE r == Emit(b, word)
<1>1. /\ Buffer(r, n) /\ r.cap = b.cap
      /\ r.ok => b.ok /\ Left(r) = Left(b) - 1
      /\ r.ok /\ Intact(b) /\ Left(b) >= 2 => Intact(r)
  BY EmitFacts
<1> HIDE DEF r
<1> QED BY <1>1 DEF Takes, Left, Buffer, Shaped, r

LEMMA LiteralTakes ==
  ASSUME NEW n \in Nat, NEW b, Buffer(b, n), NEW base, NEW rd, NEW value
  PROVE  Takes(EmitLiteral(b, base, rd, value), b, n, 3)
<1> DEFINE r == EmitLiteral(b, base, rd, value)
<1>1. /\ Buffer(r, n)
      /\ r.ok => b.ok /\ b.size <= r.size /\ Left(r) = Left(b) - 3
      /\ r.ok /\ Intact(b) => Intact(r)
  BY EmitLiteralFacts
<1> HIDE DEF r
<1> QED BY <1>1 DEF Takes, Left, Buffer, Shaped, r

LEMMA PagedTakes ==
  ASSUME NEW n \in Nat, NEW b, Buffer(b, n), NEW base, NEW rd, NEW value
  PROVE  Takes(EmitPaged(b, base, rd, value), b, n, 2)
<1> DEFINE paged == Emit(b, AssembleAdr("adrp", rd, Rx(b, base), PageOf(value)))
           added == Emit(paged, AssembleAdd(rd, value % PageSize))
<1>1. Takes(paged, b, n, 1)
  BY EmitTakes
<1>2. Takes(added, paged, n, 1)
  BY <1>1, EmitTakes DEF Takes
<1>3. EmitPaged(b, base, rd, value) = IF PageOf(value) = value THEN paged ELSE added
  BY DEF EmitPaged
<1> HIDE DEF paged, added
<1>4. Takes(paged, b, n, 2)
  BY <1>1, TakesMore
<1>5. Takes(added, b, n, 1 + 1)
  BY <1>1, <1>2, TakesBoth
<1> QED BY <1>3, <1>4, <1>5

LEMMA MovTakes ==
  ASSUME NEW n \in Nat, NEW b, Buffer(b, n), NEW base, NEW rd, NEW value
  PROVE  Takes(EmitMovImmediate64(b, base, rd, value, TRUE), b, n, 3)
<1> DEFINE short == Emit(b, AssembleAdr("adr", rd, Rx(b, base), value))
           paged == EmitPaged(b, base, rd, value)
           literal == EmitLiteral(b, base, rd, value)
<1>1. EmitMovImmediate64(b, base, rd, value, TRUE) \in {short, paged, literal}
  BY DEF EmitMovImmediate64
<1>2. Takes(short, b, n, 3)
  <2>1. Takes(short, b, n, 1)
    BY EmitTakes
  <2> HIDE DEF short
  <2> QED BY <2>1, TakesMore
<1>3. Takes(paged, b, n, 3)
  <2>1. Takes(paged, b, n, 2)
    BY PagedTakes
  <2> HIDE DEF paged
  <2> QED BY <2>1, TakesMore
<1>4. Takes(literal, b, n, 3)
  BY LiteralTakes
<1> QED BY <1>1, <1>2, <1>3, <1>4

LEMMA BranchTakes ==
  ASSUME NEW n \in Nat, NEW b, Buffer(b, n), NEW base, NEW to, NEW link
  PROVE  Takes(EmitBranch(b, base, to, link, TRUE), b, n, 4)
<1> DEFINE short == Emit(b, MakeB(link, Rx(b, base), to))
           moved == EmitMovImmediate64(b, base, IP0, to, TRUE)
           long == Emit(moved, Ins(IF link THEN "blr" ELSE "br", IP0, TRUE, 0, 0))
<1>1. EmitBranch(b, base, to, link, TRUE) \in {short, long}
  BY DEF EmitBranch
<1>2. Takes(short, b, n, 4)
  <2>1. Takes(short, b, n, 1)
    BY EmitTakes
  <2> HIDE DEF short
  <2> QED BY <2>1, TakesMore
<1>3. Takes(long, b, n, 4)
  <2>1. Takes(moved, b, n, 3)
    BY MovTakes
  <2>2. Takes(long, moved, n, 1)
    BY <2>1, EmitTakes DEF Takes
  <2> HIDE DEF moved, long
  <2>3. Takes(long, b, n, 3 + 1)
    BY <2>1, <2>2, TakesBoth
  <2> QED BY <2>3
<1> QED BY <1>1, <1>2, <1>3

(* The word that was held back comes before everything that was added. *)
LEMMA ConditionalTakes ==
  ASSUME NEW n \in Nat, NEW b, Buffer(b, n), NEW base, NEW i, NEW to
  PROVE  Takes(RelocateConditional(b, base, i, to), b, n, 5)
<1> DEFINE r == RelocateConditional(b, base, i, to)
           held == Emit(b, Zero)
           done == EmitBranch(held, base, to, FALSE, TRUE)
           over == AssembleRelative(Opposite(i.op), i.rd, TRUE,
                                    IF i.op # "bcond" THEN i.aux ELSE IF i.aux % 2 = 0 THEN i.aux + 1 ELSE i.aux - 1,
                                    Rx(b, base), Rx(done, base))
<1> SUFFICES Takes(r, b, n, 5)
  OBVIOUS
<1>1. Takes(held, b, n, 1) /\ Buffer(held, n) /\ held.cap = b.cap /\ (held.ok => Left(held) = Left(b) - 1)
  BY EmitTakes, EmitFacts
<1>2. r = IF done.ok /\ over # Refused THEN [done EXCEPT !.words[b.size] = over]
                                      ELSE [done EXCEPT !.ok = FALSE]
  BY DEF RelocateConditional
<1> HIDE DEF held, over, r
<1>3. Takes(done, held, n, 4)
  BY <1>1, BranchTakes
<1> HIDE DEF done
<1>4. Takes(done, b, n, 5)
  <2>1. Takes(done, b, n, 1 + 4)
    BY <1>1, <1>3, TakesBoth
  <2> QED BY <2>1
<1>5. CASE done.ok /\ over # Refused
  <2>1. r = [words |-> [done.words EXCEPT ![b.size] = over], size |-> done.size,
             cap |-> done.cap, lits |-> done.lits, ok |-> done.ok]
    BY <1>2, <1>4, <1>5 DEF Takes, Buffer, Shaped
  <2>2. b.size < done.size
    <3>1. held.ok /\ held.size <= done.size
      BY <1>3, <1>5 DEF Takes
    <3>2. held.size = b.size + 1
      BY <1>1, <3>1 DEF Left, Buffer, Shaped
    <3> QED BY <3>1, <3>2, <1>1, <1>4 DEF Takes, Buffer, Shaped
  <2>3. b.size \in 0 .. n - 1 /\ done.words = [k \in 0 .. n - 1 |-> done.words[k]]
    BY <1>4, <2>2 DEF Takes, Buffer, Shaped
  <2>4. Buffer(r, n)
    <3> DEFINE once == [done.words EXCEPT ![b.size] = over]
    <3>1. once = [k \in 0 .. n - 1 |-> once[k]]
      BY <2>3, ReplacedValue
    <3>2. r.words = once
      BY <2>1
    <3> HIDE DEF once
    <3>3. /\ r = [words |-> r.words, size |-> r.size, cap |-> r.cap, lits |-> r.lits, ok |-> r.ok]
          /\ r.size = done.size /\ r.cap = done.cap /\ r.ok = done.ok /\ r.lits = done.lits
      BY <2>1
    <3> QED BY <1>4, <3>1, <3>2, <3>3 DEF Takes, Buffer, Shaped, Behind
  <2>5. ASSUME Intact(b), Left(b) >= 6 PROVE Intact(r)
    <3>1. Intact(done) /\ Left(done) >= 1
      BY <1>4, <1>5, <2>5, LeftIsNat DEF Takes
    <3>2. \A l \in done.lits : l.at # b.size /\ l.at + 1 # b.size /\ l.at \in 0 .. n - 1 /\ l.at + 1 \in 0 .. n - 1
      BY <1>4, <2>2, <2>3, <3>1, SMTT(30) DEF Takes, Buffer, Shaped, Behind, Left
    <3>3. r.lits = done.lits /\ \A k \in 0 .. n - 1 : k # b.size => r.words[k] = done.words[k]
      BY <2>1, <2>3
    <3> QED BY <3>1, <3>2, <3>3 DEF Intact
  <2>6. r.ok = done.ok /\ r.size = done.size /\ Left(r) = Left(done)
    BY <2>1 DEF Left
  <2> QED BY <1>4, <2>4, <2>5, <2>6 DEF Takes
<1>6. CASE ~(done.ok /\ over # Refused)
  <2>1. r = [words |-> done.words, size |-> done.size, cap |-> done.cap, lits |-> done.lits, ok |-> FALSE]
    BY <1>2, <1>4, <1>6 DEF Takes, Buffer, Shaped
  <2> QED BY <1>4, <2>1 DEF Takes, Buffer, Shaped, Behind
<1> QED BY <1>5, <1>6

(* The words an instruction may need in the backup. *)
Cost(i) == IF i.op \in Conditional THEN 5 ELSE IF i.op \in Unconditional THEN 4 ELSE 3

LEMMA RelocatedTakes ==
  ASSUME NEW n \in Nat, NEW b, Buffer(b, n), NEW base, NEW i, NEW pc
  PROVE  Takes(Relocated(b, base, i, pc), b, n, Cost(i))
<1>1. CASE i.op \in {"adr", "adrp"}
  <2> DEFINE r == EmitMovImmediate64(b, base, i.rd, AdrAddr(i, pc), TRUE)
  <2>1. Takes(r, b, n, 3)
    BY MovTakes
  <2>2. Relocated(b, base, i, pc) = r
    BY <1>1 DEF Relocated, Unconditional, Conditional
  <2> HIDE DEF r
  <2> QED BY <1>1, <2>1, <2>2 DEF Cost, Conditional, Unconditional
<1>2. CASE i.op \in Unconditional
  <2> DEFINE r == EmitBranch(b, base, BBLAddr(i, pc), i.op = "bl", TRUE)
  <2>1. Takes(r, b, n, 4)
    BY BranchTakes
  <2>2. Relocated(b, base, i, pc) = r
    BY <1>2 DEF Relocated, Unconditional, Conditional
  <2> HIDE DEF r
  <2> QED BY <1>2, <2>1, <2>2 DEF Cost, Conditional, Unconditional
<1>3. CASE i.op \in Conditional
  <2> DEFINE r == RelocateConditional(b, base, i, CondAddr(i, pc))
  <2>1. Takes(r, b, n, 5)
    BY ConditionalTakes
  <2>2. Relocated(b, base, i, pc) = r
    BY <1>3 DEF Relocated, Unconditional, Conditional
  <2> HIDE DEF r
  <2> QED BY <1>3, <2>1, <2>2 DEF Cost
<1>4. CASE i.op \notin {"adr", "adrp"} \union Unconditional \union Conditional
  <2> DEFINE r == Emit(b, i)
  <2>1. Takes(r, b, n, 1)
    BY EmitTakes
  <2>2. Relocated(b, base, i, pc) = r
    BY <1>4 DEF Relocated
  <2> HIDE DEF r
  <2>3. Takes(r, b, n, 3)
    BY <2>1, TakesMore
  <2> QED BY <1>4, <2>2, <2>3 DEF Cost
<1> QED BY <1>1, <1>2, <1>3, <1>4

(* Without literals: what the branch at the site is made of. *)
WithoutLiteral(r, b, n) == Buffer(r, n) /\ r.lits = b.lits

LEMMA EmitWithoutLiteral ==
  ASSUME NEW n \in Nat, NEW b, Buffer(b, n), NEW word
  PROVE  WithoutLiteral(Emit(b, word), b, n)
  BY EmitFacts DEF WithoutLiteral

LEMMA QuartersWithoutLiteral ==
  ASSUME NEW n \in Nat, NEW b, Buffer(b, n), NEW base, NEW rd, NEW value
  PROVE  WithoutLiteral(EmitQuarters(b, base, rd, value), b, n)
<1> DEFINE pc == Rx(b, base)
           other == {i \in 0 .. 3 : QuarterOf(value, i) # QuarterOf(pc, i)}
           movk(x, i) == IF i \in other THEN Emit(x, AssembleMovk(rd, QuarterOf(value, i), i)) ELSE x
           start == IF other # 0 .. 3 THEN Emit(b, AssembleAdr("adr", rd, pc, pc)) ELSE b
<1>1. EmitQuarters(b, base, rd, value) = movk(movk(movk(movk(start, 0), 1), 2), 3)
  BY DEF EmitQuarters
<1> HIDE DEF pc, other
<1>2. WithoutLiteral(start, b, n)
  <2>1. WithoutLiteral(b, b, n)
    BY DEF WithoutLiteral
  <2>2. WithoutLiteral(Emit(b, AssembleAdr("adr", rd, pc, pc)), b, n)
    BY EmitWithoutLiteral
  <2> QED BY <2>1, <2>2
<1>3. ASSUME NEW x, WithoutLiteral(x, b, n), NEW i
      PROVE  WithoutLiteral(movk(x, i), b, n)
  <2> DEFINE word == AssembleMovk(rd, QuarterOf(value, i), i)
  <2> HIDE DEF word
  <2>1. WithoutLiteral(Emit(x, word), x, n)
    BY <1>3, EmitWithoutLiteral DEF WithoutLiteral
  <2>2. WithoutLiteral(Emit(x, word), b, n)
    BY <1>3, <2>1 DEF WithoutLiteral
  <2> QED BY <1>3, <2>2 DEF word
<1> HIDE DEF movk, start
<1>4. WithoutLiteral(movk(start, 0), b, n)
  BY <1>2, <1>3
<1>5. WithoutLiteral(movk(movk(start, 0), 1), b, n)
  BY <1>3, <1>4
<1>6. WithoutLiteral(movk(movk(movk(start, 0), 1), 2), b, n)
  BY <1>3, <1>5
<1> QED BY <1>1, <1>3, <1>6

LEMMA PagedWithoutLiteral ==
  ASSUME NEW n \in Nat, NEW b, Buffer(b, n), NEW base, NEW rd, NEW value
  PROVE  WithoutLiteral(EmitPaged(b, base, rd, value), b, n)
<1> DEFINE paged == Emit(b, AssembleAdr("adrp", rd, Rx(b, base), PageOf(value)))
           added == Emit(paged, AssembleAdd(rd, value % PageSize))
<1>1. WithoutLiteral(paged, b, n)
  BY EmitWithoutLiteral
<1>2. WithoutLiteral(added, paged, n)
  BY <1>1, EmitWithoutLiteral DEF WithoutLiteral
<1>3. EmitPaged(b, base, rd, value) \in {paged, added}
  BY DEF EmitPaged
<1> HIDE DEF paged, added
<1> QED BY <1>1, <1>2, <1>3 DEF WithoutLiteral

LEMMA BranchWithoutLiteral ==
  ASSUME NEW n \in Nat, NEW b, Buffer(b, n), NEW base, NEW to, NEW link
  PROVE  WithoutLiteral(EmitBranch(b, base, to, link, FALSE), b, n)
<1> DEFINE short == Emit(b, MakeB(link, Rx(b, base), to))
           adr == Emit(b, AssembleAdr("adr", IP0, Rx(b, base), to))
           paged == EmitPaged(b, base, IP0, to)
           quarters == EmitQuarters(b, base, IP0, to)
           moved == EmitMovImmediate64(b, base, IP0, to, FALSE)
           jump == Ins(IF link THEN "blr" ELSE "br", IP0, TRUE, 0, 0)
           long == Emit(moved, jump)
<1>1. EmitBranch(b, base, to, link, FALSE) \in {short, long}
  BY DEF EmitBranch
<1>2. moved \in {adr, paged, quarters}
  BY DEF EmitMovImmediate64
<1>3. WithoutLiteral(short, b, n)
  BY EmitWithoutLiteral
<1>4. WithoutLiteral(adr, b, n) /\ WithoutLiteral(paged, b, n) /\ WithoutLiteral(quarters, b, n)
  BY EmitWithoutLiteral, PagedWithoutLiteral, QuartersWithoutLiteral
<1> HIDE DEF short, adr, paged, quarters, moved, jump
<1>5. WithoutLiteral(moved, b, n)
  BY <1>2, <1>4
<1>6. WithoutLiteral(long, moved, n)
  BY <1>5, EmitWithoutLiteral DEF WithoutLiteral
<1> HIDE DEF long
<1> QED BY <1>1, <1>3, <1>5, <1>6 DEF WithoutLiteral

-----------------------------------------------------------------------------
(* The inductive invariant of TypeOK. *)
Filled ==
  /\ orig \in Seq(Originals)
  /\ Buffer(branch, N) /\ branch.lits = {}
  /\ Buffer(backup, Capacity)
  /\ phase = "hook" => orig = <<>>
  /\ phase # "hook" => Len(orig) <= branch.size

LEMMA EmptyIsBuffer ==
  ASSUME NEW n \in Nat
  PROVE  Buffer(Empty(n), n) /\ Empty(n).lits = {} /\ Empty(n).ok /\ Left(Empty(n)) = n
  BY DEF Buffer, Shaped, Behind, Empty, Left

LEMMA FilledInit == Init => Filled
<1> SUFFICES ASSUME Init PROVE Filled
  OBVIOUS
<1>1. Buffer(branch, N) /\ branch.lits = {} /\ Buffer(backup, Capacity)
  BY BackupAssumption, EmptyIsBuffer DEF Init
<1> QED BY <1>1 DEF Init, Filled

LEMMA FilledStep == Filled /\ [Next]_vars => Filled'
<1> SUFFICES ASSUME Filled, [Next]_vars PROVE Filled'
  OBVIOUS
<1>0. N \in Nat /\ Capacity \in Nat /\ Len(orig) \in Nat /\ branch.size \in Nat
  BY BackupAssumption DEF Filled, Buffer, Shaped
<1>1. CASE MakeBranch
  <2>1. Buffer(branch', N) /\ branch'.lits = {}
    <3> DEFINE r == EmitBranch(branch, place.at, place.to, FALSE, FALSE)
    <3>1. Buffer(branch, N) /\ branch.lits = {}
      BY DEF Filled
    <3>2. WithoutLiteral(r, branch, N)
      BY <1>0, <3>1, BranchWithoutLiteral
    <3>3. branch' = r
      BY <1>1 DEF MakeBranch
    <3> HIDE DEF r
    <3> QED BY <3>1, <3>2, <3>3 DEF WithoutLiteral
  <2>2. Len(orig) <= branch'.size
    <3>1. Len(orig) = 0
      BY <1>1 DEF MakeBranch, Filled
    <3> QED BY <2>1, <3>1 DEF Buffer, Shaped
  <2>3. orig \in Seq(Originals) /\ Buffer(backup, Capacity) /\ phase' # "hook" /\ UNCHANGED <<orig, backup>>
    BY <1>1 DEF MakeBranch, Filled
  <2> QED BY <2>1, <2>2, <2>3 DEF Filled
<1>2. ASSUME NEW i \in Originals, Relocate(i) PROVE Filled'
  <2>1. Buffer(backup', Capacity)
    BY <1>0, <1>2, RelocatedTakes DEF Relocate, Filled, Takes
  <2>2. orig' \in Seq(Originals) /\ Len(orig') = Len(orig) + 1
    BY <1>2 DEF Relocate, Filled
  <2>3. Len(orig) < branch.size /\ UNCHANGED branch /\ phase' # "hook"
    BY <1>2 DEF Relocate, NumInstrs
  <2>4. Buffer(branch, N) /\ branch.lits = {}
    BY DEF Filled
  <2> QED BY <1>0, <2>1, <2>2, <2>3, <2>4 DEF Filled
<1>3. ASSUME NEW i \in Originals, Abort(i) PROVE Filled'
  BY <1>3 DEF Abort, Filled
<1>4. CASE EmitReturn
  <2>1. Buffer(EmitBranch(backup, place.rx, ReturnAddr, FALSE, TRUE), Capacity)
    BY <1>0, BranchTakes DEF Filled, Takes
  <2>2. Buffer(backup', Capacity)
    BY <1>4, <2>1 DEF EmitReturn, Filled
  <2>3. UNCHANGED <<branch, orig>> /\ phase' # "hook" /\ phase # "hook"
    BY <1>4 DEF EmitReturn
  <2> QED BY <2>2, <2>3 DEF Filled
<1>5. CASE UNCHANGED vars
  BY <1>5 DEF vars, Filled
<1> QED BY <1>1, <1>2, <1>3, <1>4, <1>5 DEF Next

LEMMA FilledTypeOK == Filled => TypeOK
<1> SUFFICES ASSUME Filled PROVE TypeOK
  OBVIOUS
<1>1. branch.size \in 0 .. branch.cap /\ \A l \in branch.lits : l.at >= 0 /\ l.at + 1 < Capacity
  BY DEF Filled, Buffer, Shaped
<1>2. backup.size \in 0 .. backup.cap /\ \A l \in backup.lits : l.at >= 0 /\ l.at + 1 < Capacity
  BY BackupAssumption, SMTT(30) DEF Filled, Buffer, Shaped, Behind
<1>3. Len(orig) <= N
  <2>1. CASE phase = "hook"
    BY <2>1, BackupAssumption DEF Filled
  <2>2. CASE phase # "hook"
    BY <2>2, BackupAssumption DEF Filled, Buffer, Shaped
  <2> QED BY <2>1, <2>2
<1> QED BY <1>1, <1>2, <1>3 DEF TypeOK

(* Whatever instructions installAtOffset meets at a site, and wherever the *)
(* site, the backup and the hook are, it writes no word and no literal     *)
(* outside of the arrays it fills: Trampoline.cpp and Assembler.h check    *)
(* what is left before they write.                                         *)
THEOREM BackupTypeCorrect == Spec => []TypeOK
<1>1. Init => Filled
  BY FilledInit
<1>2. Filled /\ [Next]_vars => Filled'
  BY FilledStep
<1>3. Filled => TypeOK
  BY FilledTypeOK
<1> QED BY <1>1, <1>2, <1>3, PTL DEF Spec

-----------------------------------------------------------------------------
(* Four words are enough for an instruction but for a conditional branch,  *)
(* which comes last and takes a fifth, and one that is no branch leaves    *)
(* one of them.                                                            *)
Stays(i) == i.op \notin Unconditional \union Conditional
SomeStays == \E k \in 1 .. Len(orig) : Stays(orig[k])
EndsInCondition == Len(orig) > 0 /\ orig[Len(orig)].op \in Conditional
Credit == IF SomeStays THEN 1 ELSE 0
Debt == IF EndsInCondition THEN 1 ELSE 0

Roomy ==
  /\ phase # "halted" => backup.ok /\ Intact(backup)
  /\ phase \in {"hook", "copy"} => Left(backup) >= Capacity - 4 * Len(orig) + Credit - Debt
  /\ phase = "made" => Left(backup) >= 1
  /\ EndsInCondition => Len(orig) = NumInstrs
  /\ Len(orig) = N => SomeStays

LEMMA RoomyInit == Init => Roomy
<1> SUFFICES ASSUME Init PROVE Roomy
  OBVIOUS
<1>1. N \in Nat \ {0} /\ Capacity \in Nat
  BY BackupAssumption
<1>2. backup.lits = {} /\ backup.ok /\ Left(backup) = Capacity
  BY <1>1, EmptyIsBuffer DEF Init
<1>3. phase = "hook" /\ Len(orig) = 0 /\ ~SomeStays /\ ~EndsInCondition
  BY DEF Init, SomeStays, EndsInCondition
<1> QED BY <1>1, <1>2, <1>3 DEF Roomy, Intact, Credit, Debt

(* What appending an instruction does to credit and debt. *)
LEMMA Appended ==
  ASSUME orig \in Seq(Originals), NEW i \in Originals, orig' = Append(orig, i)
  PROVE  /\ Len(orig') = Len(orig) + 1
         /\ SomeStays' <=> SomeStays \/ Stays(i)
         /\ EndsInCondition' <=> i.op \in Conditional
<1>1. Len(orig') = Len(orig) + 1 /\ Len(orig) \in Nat
  OBVIOUS
<1>2. orig'[Len(orig) + 1] = i /\ \A k \in 1 .. Len(orig) : orig'[k] = orig[k]
  OBVIOUS
<1>3. SomeStays' <=> \E k \in 1 .. Len(orig) + 1 : Stays(orig'[k])
  BY <1>1 DEF SomeStays, Stays, Unconditional, Conditional
<1>4. (\E k \in 1 .. Len(orig) + 1 : Stays(orig'[k])) <=> SomeStays \/ Stays(i)
  BY <1>1, <1>2 DEF SomeStays
<1>5. EndsInCondition' <=> i.op \in Conditional
  BY <1>1, <1>2 DEF EndsInCondition, Conditional
<1> QED BY <1>1, <1>3, <1>4, <1>5

LEMMA RoomyStep ==
  ASSUME Capacity >= 4 * N + 5
  PROVE  Filled /\ Roomy /\ [SuitedNext]_vars => Roomy'
<1> SUFFICES ASSUME Filled, Roomy, [SuitedNext]_vars PROVE Roomy'
  OBVIOUS
<1>0. /\ N \in Nat \ {0} /\ Capacity \in Nat /\ Len(orig) \in Nat
      /\ branch.size \in Nat /\ branch.size <= N
      /\ Credit \in 0 .. 1 /\ Debt \in 0 .. 1
      /\ Buffer(backup, Capacity) /\ Left(backup) \in Nat
  <2>1. N \in Nat \ {0} /\ Capacity \in Nat /\ Len(orig) \in Nat
    BY BackupAssumption DEF Filled
  <2>2. branch.size \in Nat /\ branch.size <= N
    BY <2>1 DEF Filled, Buffer, Shaped
  <2>3. Credit \in 0 .. 1 /\ Debt \in 0 .. 1
    BY DEF Credit, Debt
  <2>4. Buffer(backup, Capacity)
    BY DEF Filled
  <2> QED BY <2>1, <2>2, <2>3, <2>4, LeftIsNat
<1>1. CASE MakeBranch
  <2>1. phase = "hook" /\ phase' \in {"copy", "halted"} /\ UNCHANGED <<orig, backup>>
    BY <1>1 DEF MakeBranch
  <2>2. Len(orig) = 0 /\ ~EndsInCondition
    BY <2>1 DEF Filled, EndsInCondition
  <2>3. (SomeStays' <=> SomeStays) /\ ~EndsInCondition' /\ Credit' = Credit /\ Debt' = Debt
    BY <2>1, <2>2 DEF SomeStays, EndsInCondition, Credit, Debt
  <2> QED BY <2>1, <2>2, <2>3 DEF Roomy, Left, Intact
<1>2. ASSUME NEW i \in Originals, Suits(i), Relocate(i) PROVE Roomy'
  <2>1. /\ phase = "copy" /\ Len(orig) < branch.size /\ orig' = Append(orig, i)
        /\ phase' = IF backup'.ok THEN "copy" ELSE "halted"
        /\ i.op \in Conditional => Len(orig) + 1 = branch.size
        /\ UNCHANGED branch
    BY <1>2 DEF Relocate, CannotRelocate, NumInstrs
  <2>2. Takes(backup', backup, Capacity, Cost(i))
    BY <1>0, <1>2, RelocatedTakes DEF Relocate
  <2>3. /\ Len(orig') = Len(orig) + 1
        /\ SomeStays' <=> SomeStays \/ Stays(i)
        /\ EndsInCondition' <=> i.op \in Conditional
    BY <2>1, Appended DEF Filled
  <2>4. Debt = 0 /\ Left(backup) >= Capacity - 4 * Len(orig) + Credit
    BY <1>0, <2>1 DEF Roomy, Debt, NumInstrs
  <2>5. Cost(i) \in 3 .. 5 /\ Left(backup) >= Cost(i) + 1
    BY <1>0, <2>1, <2>4 DEF Cost
  <2>6. phase' # "halted" => backup'.ok /\ Intact(backup')
    BY <2>1, <2>2, <2>5 DEF Roomy, Takes
  <2>7. Cost(i) <= 4 + Debt' - Credit' + Credit /\ Credit' \in 0 .. 1 /\ Debt' \in 0 .. 1
    BY <2>3 DEF Cost, Credit, Debt, Stays, Unconditional, Conditional
  <2>8. phase' = "copy" => Left(backup') >= Capacity - 4 * Len(orig') + Credit' - Debt'
    <3>1. SUFFICES ASSUME phase' = "copy" PROVE Left(backup') >= Capacity - 4 * Len(orig') + Credit' - Debt'
      OBVIOUS
    <3>2. Left(backup') >= Left(backup) - Cost(i) /\ Left(backup') \in Nat
      <4>1. backup'.ok
        BY <2>1, <3>1
      <4>2. Buffer(backup', Capacity) /\ Left(backup') >= Left(backup) - Cost(i)
        BY <2>2, <4>1 DEF Takes
      <4>3. Left(backup)' \in Nat
        BY <1>0, <4>2, LeftIsNat DEF Left
      <4> QED BY <4>2, <4>3 DEF Left
    <3>3. ASSUME NEW left \in Nat, NEW after \in Nat, NEW len \in Nat, NEW cost \in Nat,
                 NEW c \in Nat, NEW cc \in Nat, NEW d \in Nat,
                 left >= Capacity - 4 * len + c, after >= left - cost, cost <= 4 + d - cc + c
          PROVE  after >= Capacity - 4 * (len + 1) + cc - d
      BY <1>0, <3>3
    <3>4. Credit \in Nat /\ Credit' \in Nat /\ Debt' \in Nat /\ Cost(i) \in Nat
      <4>1. Credit \in Nat
        BY <1>0
      <4>2. Credit' \in Nat /\ Debt' \in Nat
        BY <2>7
      <4>3. Cost(i) \in Nat
        BY <2>5
      <4> QED BY <4>1, <4>2, <4>3
    <3>5. Left(backup') >= Capacity - 4 * (Len(orig) + 1) + Credit' - Debt'
      BY <1>0, <2>4, <2>7, <3>2, <3>3, <3>4
    <3>6. Len(orig') = Len(orig) + 1
      BY <2>3
    <3> QED BY <3>5, <3>6
  <2>9. Len(orig') = N => SomeStays'
    <3>1. SUFFICES ASSUME Len(orig') = N PROVE SomeStays'
      OBVIOUS
    <3>2. Len(orig) = N - 1
      BY <1>0, <2>3, <3>1
    <3>3. \E k \in 1 .. N : orig'[k].op \notin Unconditional \union Conditional
      BY <1>2, <2>1, <3>2 DEF Suits, LeavesRoom
    <3> QED BY <3>1, <3>3 DEF SomeStays, Stays, Unconditional, Conditional
  <2>10. EndsInCondition' => Len(orig') = NumInstrs'
    BY <2>1, <2>3 DEF NumInstrs
  <2>11. phase' \in {"copy", "halted"}
    BY <2>1
  <2> QED BY <2>6, <2>8, <2>9, <2>10, <2>11 DEF Roomy, Left, Intact
<1>3. ASSUME NEW i \in Originals, Abort(i) PROVE Roomy'
  <2>1. phase' = "halted" /\ UNCHANGED <<orig, branch>>
    BY <1>3 DEF Abort
  <2>2. (SomeStays' <=> SomeStays) /\ (EndsInCondition' <=> EndsInCondition) /\ NumInstrs' = NumInstrs
    BY <2>1 DEF SomeStays, EndsInCondition, NumInstrs
  <2> QED BY <2>1, <2>2 DEF Roomy
<1>4. CASE EmitReturn
  <2> DEFINE r == EmitBranch(backup, place.rx, ReturnAddr, FALSE, TRUE)
  <2>1. /\ phase = "copy" /\ Len(orig) = branch.size /\ phase' \in {"made", "halted"}
        /\ phase' = "made" => backup'.ok
        /\ backup' = IF skipReturn THEN backup ELSE r
        /\ UNCHANGED <<orig, branch>>
    BY <1>4 DEF EmitReturn, NumInstrs
  <2>2. Takes(r, backup, Capacity, 4)
    BY <1>0, BranchTakes
  <2> HIDE DEF r
  <2>3. Left(backup) >= 5
    <3>1. CASE Len(orig) = N
      <4>1. Credit = 1
        BY <3>1 DEF Roomy, Credit
      <4> QED BY <1>0, <2>1, <3>1, <4>1 DEF Roomy
    <3>2. CASE Len(orig) < N
      BY <1>0, <2>1, <3>2 DEF Roomy
    <3> QED BY <1>0, <2>1, <3>1, <3>2
  <2>4. phase' # "halted" => backup'.ok /\ Intact(backup')
    BY <2>1, <2>2, <2>3 DEF Roomy, Takes
  <2>5. (SomeStays' <=> SomeStays) /\ (EndsInCondition' <=> EndsInCondition) /\ NumInstrs' = NumInstrs
    BY <2>1 DEF SomeStays, EndsInCondition, NumInstrs
  <2>6. phase' = "made" => Left(backup') >= 1
    <3>1. r.ok => Left(r) >= 1
      <4>1. r.ok => Left(r) >= Left(backup) - 4 /\ Left(r) \in Nat
        BY <1>0, <2>2, LeftIsNat DEF Takes
      <4> QED BY <1>0, <2>3, <4>1
    <3>2. backup' = backup \/ backup' = r
      BY <2>1
    <3>3. CASE backup' = backup
      BY <1>0, <2>3, <3>3
    <3>4. CASE backup' = r
      BY <2>1, <3>1, <3>4
    <3> QED BY <3>2, <3>3, <3>4
  <2> QED BY <2>1, <2>4, <2>5, <2>6 DEF Roomy, Intact, Left
<1>5. CASE UNCHANGED vars
  <2>1. UNCHANGED <<orig, branch, backup, phase>>
    BY <1>5 DEF vars
  <2>2. (SomeStays' <=> SomeStays) /\ (EndsInCondition' <=> EndsInCondition) /\ NumInstrs' = NumInstrs
    BY <2>1 DEF SomeStays, EndsInCondition, NumInstrs
  <2> QED BY <2>1, <2>2 DEF Roomy, Left, Intact, Credit, Debt
<1> QED BY <1>1, <1>2, <1>3, <1>4, <1>5 DEF SuitedNext

(* A backup of 4 * N + 5 words, what Trampoline.h makes of it at level 2,  *)
(* is large enough for no literal to be written over, whatever N displaced *)
(* instructions are, if one of N is no branch or call.                     *)
THEOREM LiteralsAreSafe ==
  Capacity >= 4 * N + 5 => (SuitedSpec => []LiteralsSurvive)
<1> SUFFICES ASSUME Capacity >= 4 * N + 5 PROVE SuitedSpec => []LiteralsSurvive
  OBVIOUS
<1>1. Init => Filled /\ Roomy
  BY FilledInit, RoomyInit
<1>2. SuitedNext => Next
  BY DEF SuitedNext, Next
<1>3. Filled /\ Roomy /\ [SuitedNext]_vars => (Filled /\ Roomy)'
  BY <1>2, FilledStep, RoomyStep
<1>4. Roomy => LiteralsSurvive
  BY DEF Roomy, Intact, LiteralsSurvive
<1> QED BY <1>1, <1>3, <1>4, PTL DEF SuitedSpec
-----------------------------------------------------------------------------
(* Arithmetic of fields.  A number has one quotient and one remainder.     *)
LEMMA Division ==
  ASSUME NEW d \in Nat, d > 0, NEW k \in Int, NEW r \in 0 .. d - 1
  PROVE  (k * d + r) % d = r /\ (k * d + r) \div d = k
  OBVIOUS

LEMMA DivisionIs ==
  ASSUME NEW d \in Nat, d > 0, NEW v \in Int
  PROVE  /\ v % d \in 0 .. d - 1 /\ v \div d \in Int /\ v = d * (v \div d) + (v % d)
         /\ v >= 0 => v \div d >= 0
<1>1. v % d \in 0 .. d - 1 /\ v \div d \in Int
  OBVIOUS
<1>2. v = d * (v \div d) + (v % d)
  OBVIOUS
<1>3. v >= 0 => v \div d >= 0
  OBVIOUS
<1> QED BY <1>1, <1>2, <1>3

(* Half is 2^(w - 1) for the width w of a field.                           *)
LEMMA WidthIs ==
  ASSUME NEW w \in {AdrBits, BranchBits, CondBits, TestBits}
  PROVE  /\ 2^w \in Nat /\ 2^(w - 1) \in Nat \ {0} /\ 2^w = 2 * 2^(w - 1)
         /\ w - 1 \in Nat
<1>1. w \in Nat \ {0} /\ w <= 4 * Quarter /\ Quarter \in Nat
  BY A64Assumption, WidthsAssumption
<1>2. 1 \in 0 .. 4 * Quarter /\ w - 1 \in 0 .. 4 * Quarter - 1 /\ 1 + (w - 1) = w /\ w - 1 \in 0 .. 4 * Quarter
  BY <1>1
<1>3. 2^(1 + (w - 1)) = 2^1 * 2^(w - 1) /\ 2^(w - 1) \in Nat \ {0} /\ 2^1 = 2
  BY <1>2, PowersAssumption
<1> QED BY <1>1, <1>2, <1>3

(* The powers of a quarter. *)
LEMMA QuartersAre ==
  /\ 2^Quarter \in Nat /\ 2^Quarter >= 2
  /\ 2^(0 * Quarter) = 1 /\ 2^(1 * Quarter) = 2^Quarter
  /\ 2^(2 * Quarter) = 2^Quarter * 2^Quarter
  /\ 2^(3 * Quarter) = 2^Quarter * 2^Quarter * 2^Quarter
  /\ Modulus = 2^Quarter * 2^Quarter * 2^Quarter * 2^Quarter
  /\ HalfWord = 2^Quarter * 2^Quarter
<1> DEFINE q == Quarter
<1>1. q \in Nat \ {0} /\ q + q = 2 * q /\ 2 * q + q = 3 * q /\ 3 * q + q = 4 * q /\ 1 * q = q /\ 0 * q = 0
  BY A64Assumption
<1>2. 2^(q + q) = 2^q * 2^q
  BY <1>1, PowersAssumption
<1>3. 2^(2 * q + q) = 2^(2 * q) * 2^q
  BY <1>1, PowersAssumption
<1>4. 2^(3 * q + q) = 2^(3 * q) * 2^q
  BY <1>1, PowersAssumption
<1>5. 2^0 = 1
  <2>1. 2^(0 + 0) = 2^0 * 2^0 /\ 2^0 \in Nat \ {0}
    BY <1>1, PowersAssumption
  <2> QED BY <2>1
<1>6. 2^q \in Nat /\ 2^q >= 2
  <2>1. 1 \in 0 .. 4 * q /\ q - 1 \in 0 .. 4 * q - 1 /\ q - 1 \in 0 .. 4 * q /\ 1 + (q - 1) = q
    BY <1>1
  <2>2. 2^(1 + (q - 1)) = 2 * 2^(q - 1) /\ 2^(q - 1) \in Nat \ {0}
    BY <2>1, PowersAssumption
  <2> QED BY <2>1, <2>2
<1> QED BY <1>1, <1>2, <1>3, <1>4, <1>5, <1>6 DEF Modulus, HalfWord

(* A field of instructions, in words, divides what an address may be.      *)
LEMMA WordsDivide ==
  ASSUME NEW w \in {BranchBits, CondBits, TestBits}
  PROVE  \E c \in Nat \ {0} : Modulus = 2^w * 4 * c
<1>1. w \in Nat \ {0} /\ w + 2 <= 4 * Quarter /\ Quarter \in Nat
  BY A64Assumption, WidthsAssumption
<1> DEFINE left == 4 * Quarter - (w + 2)
<1>2. /\ left \in 0 .. 4 * Quarter /\ w \in 0 .. 4 * Quarter /\ 2 \in 0 .. 4 * Quarter - w
      /\ w + 2 \in 0 .. 4 * Quarter /\ left \in 0 .. 4 * Quarter - (w + 2)
      /\ (w + 2) + left = 4 * Quarter /\ 1 + 1 = 2 /\ 1 \in 0 .. 4 * Quarter - 1 /\ 1 \in 0 .. 4 * Quarter
  BY <1>1
<1> HIDE DEF left
<1>3. 2^(1 + 1) = 2^1 * 2^1 /\ 2^1 = 2
  BY <1>2, PowersAssumption
<1>4. 2^(w + 2) = 2^w * 2^2 /\ 2^w \in Nat
  BY <1>2, PowersAssumption
<1>5. 2^((w + 2) + left) = 2^(w + 2) * 2^left /\ 2^left \in Nat \ {0}
  BY <1>2, PowersAssumption
<1>6. 2^2 = 4
  BY <1>2, <1>3
<1>7. Modulus = 2^w * 4 * 2^left
  BY <1>2, <1>4, <1>5, <1>6 DEF Modulus
<1> QED BY <1>5, <1>7

LEMMA PagesDivide ==
  /\ PageSize \in Nat /\ PageSize > 0
  /\ \E c \in Nat \ {0} : Modulus = PageSize * 2^AdrBits * c
<1>1. AdrBits \in Nat \ {0} /\ PageBits \in Nat \ {0} /\ PageBits + AdrBits <= 4 * Quarter /\ Quarter \in Nat
  BY A64Assumption, WidthsAssumption
<1> DEFINE left == 4 * Quarter - (PageBits + AdrBits)
<1>2. /\ left \in 0 .. 4 * Quarter /\ PageBits \in 0 .. 4 * Quarter /\ AdrBits \in 0 .. 4 * Quarter - PageBits
      /\ PageBits + AdrBits \in 0 .. 4 * Quarter /\ left \in 0 .. 4 * Quarter - (PageBits + AdrBits)
      /\ (PageBits + AdrBits) + left = 4 * Quarter
  BY <1>1
<1> HIDE DEF left
<1>3. 2^PageBits \in Nat \ {0} /\ 2^(PageBits + AdrBits) = 2^PageBits * 2^AdrBits
  BY <1>2, PowersAssumption
<1>4. 2^((PageBits + AdrBits) + left) = 2^(PageBits + AdrBits) * 2^left /\ 2^left \in Nat \ {0}
  BY <1>2, PowersAssumption
<1>5. Modulus = PageSize * 2^AdrBits * 2^left
  BY <1>2, <1>3, <1>4 DEF Modulus, PageSize
<1> QED BY <1>3, <1>4, <1>5 DEF PageSize

-----------------------------------------------------------------------------
LEMMA ModulusIs ==
  /\ Modulus \in Nat /\ Modulus >= 8 /\ Modulus % 4 = 0
  /\ Modulus \div 2 \in Nat /\ 2 * (Modulus \div 2) = Modulus
<1>1. PICK c \in Nat \ {0} : Modulus = 2^BranchBits * 4 * c
  BY WordsDivide
<1>2. 2^BranchBits \in Nat /\ 2^(BranchBits - 1) \in Nat \ {0} /\ 2^BranchBits = 2 * 2^(BranchBits - 1)
  BY WidthIs
<1> DEFINE h == 2^(BranchBits - 1)
           m == h * c
<1>3. m \in Nat \ {0} /\ Modulus = 8 * m
  BY <1>1, <1>2
<1> HIDE DEF m
<1> QED BY <1>3

(* Addresses *)
Address == 0 .. Modulus - 1

(* The signed distance from a to b: adding it comes back to b.             *)
Distance(a, b) == Signed(Minus(b, a))

LEMMA DistanceIs ==
  ASSUME NEW a \in Address, NEW b \in Address
  PROVE  /\ Distance(a, b) \in {b - a, b - a + Modulus, b - a - Modulus}
         /\ Distance(a, b) \in Int
         /\ Plus(a, Distance(a, b)) = b
         /\ Minus(b, a) \in Address
         /\ Abs(Minus(b, a)) = IF Distance(a, b) < 0 THEN -Distance(a, b) ELSE Distance(a, b)
         /\ Abs(Minus(a, b)) = Abs(Minus(b, a))
         /\ Minus(b, a) = Distance(a, b) % Modulus
<1> DEFINE M == Modulus
           H == M \div 2
<1>1. M \in Nat /\ H \in Nat /\ 2 * H = M /\ H > 0
  BY ModulusIs
<1>2. a \in Int /\ b \in Int /\ 0 <= a /\ a < M /\ 0 <= b /\ b < M
  BY <1>1 DEF Address
<1> HIDE DEF H
<1>3. ASSUME NEW x \in Int, -M < x, x < M
      PROVE  x % M = IF x < 0 THEN x + M ELSE x
  <2>1. CASE x < 0
    <3>1. (-1 * M + (x + M)) % M = x + M
      BY <1>1, <1>3, <2>1, Division
    <3> QED BY <1>1, <1>3, <2>1, <3>1
  <2>2. CASE x >= 0
    <3>1. (0 * M + x) % M = x
      BY <1>1, <1>3, <2>2, Division
    <3> QED BY <1>1, <1>3, <2>2, <3>1
  <2> QED BY <2>1, <2>2, <1>3
<1> HIDE DEF M
<1>4. Minus(b, a) = IF b - a < 0 THEN b - a + M ELSE b - a
  BY <1>1, <1>2, <1>3 DEF Minus, M
<1>5. Minus(a, b) = IF a - b < 0 THEN a - b + M ELSE a - b
  BY <1>1, <1>2, <1>3 DEF Minus, M
<1>6. /\ Distance(a, b) = IF Minus(b, a) < H THEN Minus(b, a) ELSE Minus(b, a) - M
      /\ Signed(Minus(a, b)) = IF Minus(a, b) < H THEN Minus(a, b) ELSE Minus(a, b) - M
  BY DEF Distance, Signed, M, H
<1> DEFINE d == Distance(a, b)
<1>7. d \in {b - a, b - a + M, b - a - M} /\ d \in Int /\ -M < d /\ d < M
  BY <1>1, <1>2, <1>4, <1>6
<1>8. Minus(b, a) = d % M
  BY <1>1, <1>2, <1>3, <1>4, <1>6, <1>7
<1>9. Plus(a, d) = b
  <2>1. (0 * M + b) % M = b /\ (1 * M + b) % M = b /\ (-1 * M + b) % M = b
    BY <1>1, <1>2, Division
  <2>2. a + d \in {0 * M + b, 1 * M + b, -1 * M + b}
    BY <1>1, <1>2, <1>7
  <2>3. (a + d) % M = b
    BY <2>1, <2>2
  <2> QED BY <2>3 DEF Plus, M
<1>10. Abs(Minus(b, a)) = (IF d < 0 THEN -d ELSE d) /\ Abs(Minus(a, b)) = Abs(Minus(b, a))
  <2>1. Abs(Minus(a, b)) = IF Signed(Minus(a, b)) < 0 THEN -Signed(Minus(a, b)) ELSE Signed(Minus(a, b))
    BY DEF Abs
  <2>2. Abs(Minus(b, a)) = IF d < 0 THEN -d ELSE d
    BY DEF Abs, Distance
  <2>3. Signed(Minus(a, b)) = -d \/ (Signed(Minus(a, b)) = d)
    BY <1>1, <1>2, <1>4, <1>5, <1>6
  <2> QED BY <1>7, <2>1, <2>2, <2>3
<1>11. Minus(b, a) \in Address
  BY <1>1, <1>2, <1>4 DEF Address, M
<1> QED BY <1>7, <1>8, <1>9, <1>10, <1>11 DEF M

LEMMA DistanceRange ==
  ASSUME NEW a \in Address, NEW b \in Address
  PROVE  -Modulus < Distance(a, b) /\ Distance(a, b) < Modulus
<1>1. Modulus \in Nat /\ Modulus \div 2 \in Nat /\ 2 * (Modulus \div 2) = Modulus /\ Modulus > 0
  BY ModulusIs
<1>2. Minus(b, a) \in 0 .. Modulus - 1
  BY DistanceIs DEF Address
<1> QED BY <1>1, <1>2 DEF Distance, Signed

(* A number that a signed field of w bits can hold comes back from it, as  *)
(* a number or as one of 64 bits.                                          *)
Fits(k, w) == -2^(w - 1) <= k /\ k < 2^(w - 1)

LEMMA FieldIs ==
  ASSUME NEW w \in {AdrBits, BranchBits, CondBits, TestBits}, NEW k \in Int, Fits(k, w)
  PROVE  /\ SignExtend(Field(k, w), w) = k
         /\ (\E c \in Nat \ {0} : Modulus = 2^w * c) => Field(k % Modulus, w) = Field(k, w)
<1> DEFINE h == 2^(w - 1)
           s == 2^w
<1>1. h \in Nat /\ h > 0 /\ s = 2 * h /\ s \in Nat
  BY WidthIs
<1>2. -h <= k /\ k < h
  BY DEF Fits
<1>3. Field(k, w) = k % s
  BY DEF Field
<1>4. k % s = IF k < 0 THEN k + s ELSE k
  <2> HIDE DEF h, s
  <2>1. CASE k < 0
    <3>1. (-1 * s + (k + s)) % s = k + s
      BY <1>1, <1>2, <2>1, Division
    <3> QED BY <1>1, <2>1, <3>1
  <2>2. CASE k >= 0
    <3>1. (0 * s + k) % s = k
      BY <1>1, <1>2, <2>2, Division
    <3> QED BY <1>1, <2>2, <3>1
  <2> QED BY <2>1, <2>2
<1>5. \A v : SignExtend(v, w) = (IF v < h THEN v + h ELSE v - h) - h
  BY DEF SignExtend
<1>6. SignExtend(Field(k, w), w) = k
  <2> HIDE DEF h, s
  <2> QED BY <1>1, <1>2, <1>3, <1>4, <1>5
<1>7. ASSUME NEW c \in Nat \ {0}, Modulus = s * c PROVE Field(k % Modulus, w) = Field(k, w)
  <2> DEFINE M == Modulus
  <2>1. M \in Nat /\ M > 0
    BY ModulusIs
  <2>2. M = s * c /\ M >= s
    <3> HIDE DEF s, h
    <3>1. s * c >= s
      BY <1>1
    <3> QED BY <1>7, <3>1
  <2>3. \A x : Field(x, w) = x % s
    BY DEF Field
  <2> HIDE DEF M, s, h
  <2>4. CASE k >= 0
    <3>1. (0 * M + k) % M = k
      BY <1>1, <1>2, <2>1, <2>2, <2>4, Division
    <3>2. k % M = k
      BY <2>1, <2>4, <3>1
    <3> QED BY <3>2 DEF M
  <2>5. CASE k < 0
    <3>1. (-1 * M + (k + M)) % M = k + M
      BY <1>1, <1>2, <2>1, <2>2, <2>5, Division
    <3>2. k % M = k + M
      BY <2>1, <2>5, <3>1
    <3>3. ((c - 1) * s + (k + s)) % s = k + s
      <4>1. k + s \in 0 .. s - 1 /\ c - 1 \in Int /\ s \in Nat /\ s > 0
        BY <1>1, <1>2, <2>5
      <4> QED BY <4>1, Division
    <3>4. k + M = (c - 1) * s + (k + s)
      BY <1>1, <2>2
    <3>5. (k % M) % s = k % s
      BY <1>4, <2>5, <3>2, <3>3, <3>4
    <3> QED BY <2>3, <3>5 DEF M
  <2> QED BY <2>4, <2>5
<1> QED BY <1>6, <1>7

-----------------------------------------------------------------------------
(* Code that is run: n words at base, under flag.  It leads from state s   *)
(* to z in k steps if each of them begins inside of it.                    *)
Code(words, n, base, flag) == [words |-> words, n |-> n, base |-> base, flag |-> flag]
Within(c, s) == Inside(c.n, c.base, s)
Turn(c, s) == Step(c.words, c.n, c.base, s, c.flag)

Along(c, t, k) ==
  \A j \in 0 .. k - 1 : Within(c, t[j]) /\ t[j + 1] = Turn(c, t[j])
Leads(c, s, k, z) ==
  \E t : Along(c, t, k) /\ t[0] = s /\ t[k] = z

LEMMA LeadsNowhere ==
  ASSUME NEW c, NEW s
  PROVE  Leads(c, s, 0, s)
<1> DEFINE t == [j \in {0} |-> s]
<1>1. Along(c, t, 0) /\ t[0] = s
  BY DEF Along
<1> QED BY <1>1 DEF Leads

LEMMA LeadsOn ==
  ASSUME NEW c, NEW s, Within(c, s)
  PROVE  Leads(c, s, 1, Turn(c, s))
<1> DEFINE t == [j \in 0 .. 1 |-> IF j = 0 THEN s ELSE Turn(c, s)]
<1>1. t[0] = s /\ t[1] = Turn(c, s)
  OBVIOUS
<1> HIDE DEF t
<1>2. \A j \in 0 .. 1 - 1 : j = 0 /\ j + 1 = 1
  OBVIOUS
<1>3. Along(c, t, 1)
  BY <1>1, <1>2 DEF Along
<1> QED BY <1>1, <1>3 DEF Leads

LEMMA LeadsFurther ==
  ASSUME NEW c, NEW s, NEW y, NEW z, NEW j \in Nat, NEW k \in Nat,
         Leads(c, s, j, y), Leads(c, y, k, z)
  PROVE  Leads(c, s, j + k, z)
<1>1. PICK t : Along(c, t, j) /\ t[0] = s /\ t[j] = y
  BY DEF Leads
<1>2. PICK u : Along(c, u, k) /\ u[0] = y /\ u[k] = z
  BY DEF Leads
<1> DEFINE v == [i \in 0 .. j + k |-> IF i <= j THEN t[i] ELSE u[i - j]]
<1>3. \A i \in 0 .. j : v[i] = t[i]
  OBVIOUS
<1>4. \A i \in 0 .. k : v[j + i] = u[i]
  <2> SUFFICES ASSUME NEW i \in 0 .. k PROVE v[j + i] = u[i]
    OBVIOUS
  <2>1. CASE i = 0
    <3>1. v[j] = t[j]
      BY <1>3
    <3> HIDE DEF v
    <3> QED BY <1>1, <1>2, <2>1, <3>1
  <2>2. CASE i # 0
    <3>1. j + i \in 0 .. j + k /\ ~(j + i <= j) /\ (j + i) - j = i
      BY <2>2
    <3> QED BY <3>1
  <2> QED BY <2>1, <2>2
<1> HIDE DEF v
<1>5. ASSUME NEW i \in 0 .. j + k - 1
      PROVE  Within(c, v[i]) /\ v[i + 1] = Turn(c, v[i])
  <2>1. CASE i < j
    <3>1. i \in 0 .. j - 1 /\ i \in 0 .. j /\ i + 1 \in 0 .. j
      BY <2>1
    <3> QED BY <1>1, <1>3, <3>1 DEF Along
  <2>2. CASE i >= j
    <3> DEFINE m == i - j
    <3>1. m \in 0 .. k - 1 /\ m \in 0 .. k /\ m + 1 \in 0 .. k /\ j + m = i /\ j + (m + 1) = i + 1
      BY <2>2
    <3> HIDE DEF m
    <3>2. v[i] = u[m] /\ v[i + 1] = u[m + 1]
      BY <1>4, <3>1
    <3> QED BY <1>2, <3>1, <3>2 DEF Along
  <2> QED BY <2>1, <2>2
<1>6. v[0] = s /\ v[j + k] = z
  BY <1>1, <1>2, <1>3, <1>4
<1> QED BY <1>5, <1>6 DEF Leads, Along

LEMMA LeastNumberOf ==
  ASSUME NEW T, T \subseteq Nat, T # {}
  PROVE  \E x \in T : \A y \in T : x <= y
<1> DEFINE R == OpToRel(<, Nat)
<1>1. PICK x \in T : \A y \in T : ~(<<y, x>> \in R)
  <2> HIDE DEF R
  <2>1. IsWellFoundedOn(R, Nat)
    BY NatLessThanWellFounded DEF R
  <2> QED BY <2>1, WFMin, Zenon
<1>2. \A y \in T : ~(y < x)
  BY <1>1 DEF OpToRel
<1> HIDE DEF R
<1>3. \A y \in T : x <= y
  BY <1>1, <1>2
<1> QED BY <1>3, <1>1

(* The function of Run, which it defines by recursion. *)
Running(words, n, base, s, flag, f) ==
  f = [fuel \in 0 .. n + 1 |->
         IF fuel = 0 THEN s ELSE Step(words, n, base, f[fuel - 1], flag)]

(* Code that leads out of itself has run when it is outside.               *)
LEMMA RunIs ==
  ASSUME NEW words, NEW n \in Nat, NEW base, NEW flag, NEW s, NEW z, NEW k \in 0 .. n + 1,
         Leads(Code(words, n, base, flag), s, k, z), ~Inside(n, base, z)
  PROVE  Run(words, n, base, s, flag) = z
<1> DEFINE c == Code(words, n, base, flag)
<1>1. PICK t : Along(c, t, k) /\ t[0] = s /\ t[k] = z
  BY DEF Leads
<1>2. c.n = n /\ \A x : Turn(c, x) = Step(words, n, base, x, flag) /\ (Within(c, x) <=> Inside(n, base, x))
  BY DEF Code, Turn, Within
<1>3. Turn(c, z) = z
  BY <1>2 DEF Step
<1> HIDE DEF c
<1> DEFINE g == [j \in 0 .. n + 1 |-> IF j <= k THEN t[j] ELSE z]
<1>4. ASSUME NEW j \in 1 .. n + 1 PROVE g[j] = Turn(c, g[j - 1])
  <2>1. CASE j <= k
    <3>1. j - 1 \in 0 .. k - 1 /\ (j - 1) + 1 = j /\ j - 1 \in 0 .. n + 1 /\ j - 1 <= k /\ j \in 0 .. n + 1
      BY <2>1
    <3>2. g[j] = t[j] /\ g[j - 1] = t[j - 1]
      BY <2>1, <3>1
    <3>3. t[(j - 1) + 1] = Turn(c, t[j - 1])
      BY <1>1, <3>1 DEF Along
    <3> HIDE DEF g
    <3> QED BY <3>1, <3>2, <3>3
  <2>2. CASE j > k
    <3>1. j - 1 \in 0 .. n + 1 /\ j \in 0 .. n + 1 /\ (j - 1 <= k => j - 1 = k)
      BY <2>2
    <3>2. g[j] = z /\ g[j - 1] = z
      BY <1>1, <2>2, <3>1
    <3> HIDE DEF g
    <3> QED BY <1>3, <3>2
  <2> QED BY <2>1, <2>2
<1>5. g[0] = s /\ g[n + 1] = z /\ g = [j \in 0 .. n + 1 |-> g[j]]
  BY <1>1
<1> HIDE DEF g
<1>6. Running(words, n, base, s, flag, g)
  <2> DEFINE next(j) == IF j = 0 THEN s ELSE Step(words, n, base, g[j - 1], flag)
  <2>1. ASSUME NEW j \in 0 .. n + 1 PROVE g[j] = next(j)
    <3>1. CASE j = 0
      BY <1>5, <3>1
    <3>2. CASE j # 0
      <4>1. j \in 1 .. n + 1
        BY <3>2
      <4>2. g[j] = Turn(c, g[j - 1])
        BY <1>4, <4>1
      <4> QED BY <1>2, <3>2, <4>2
    <3> QED BY <3>1, <3>2
  <2> HIDE DEF next
  <2>2. g = [j \in 0 .. n + 1 |-> next(j)]
    BY <1>5, <2>1
  <2> QED BY <2>2 DEF Running, next
<1> DEFINE run == CHOOSE f : Running(words, n, base, s, flag, f)
<1>7. Running(words, n, base, s, flag, run)
  BY <1>6
<1>8. Run(words, n, base, s, flag) = run[n + 1]
  BY DEF Run, Running
<1> HIDE DEF run
<1>9. run[0] = s /\ \A j \in 1 .. n + 1 : run[j] = Turn(c, run[j - 1])
  <2>1. \A j \in 0 .. n + 1 : run[j] = IF j = 0 THEN s ELSE Step(words, n, base, run[j - 1], flag)
    BY <1>7 DEF Running
  <2> QED BY <1>2, <2>1
<1>10. \A j \in 0 .. n + 1 : run[j] = g[j]
  <2> DEFINE T == {j \in 0 .. n + 1 : run[j] # g[j]}
  <2>1. SUFFICES ASSUME T # {} PROVE FALSE
    OBVIOUS
  <2>2. PICK j \in T : \A m \in T : j <= m
    <3>1. T \subseteq Nat
      OBVIOUS
    <3> HIDE DEF T
    <3> QED BY <2>1, <3>1, LeastNumberOf
  <2>3. j # 0
    BY <1>5, <1>9, <2>2
  <2>4. j - 1 \in 0 .. n + 1 /\ j - 1 \notin T /\ j \in 1 .. n + 1
    BY <2>2, <2>3
  <2>5. run[j - 1] = g[j - 1]
    BY <2>4
  <2>6. run[j] = g[j]
    BY <1>4, <1>9, <2>4, <2>5
  <2> QED BY <2>2, <2>6
<1> QED BY <1>5, <1>8, <1>10

-----------------------------------------------------------------------------
(* Contents of the registers, and the states of a processor that runs.     *)
Files == [Registers -> Address]
With(regs, rd, v) == [regs EXCEPT ![rd] = v]
At(pc, regs, trace) == [pc |-> pc, regs |-> regs, trace |-> trace, mode |-> "runs"]

(* n words at base lie within the addresses. *)
Placed(n, base) == n \in Nat /\ base \in Address /\ base % 4 = 0 /\ base + 4 * n < Modulus

LEMMA AtIs ==
  ASSUME NEW pc, NEW regs, NEW tr, NEW x, NEW s, s = At(pc, regs, tr)
  PROVE  /\ s.pc = pc /\ s.regs = regs /\ s.trace = tr /\ s.mode = "runs"
         /\ [s EXCEPT !.pc = x] = At(x, regs, tr)
         /\ [s EXCEPT !.regs = x] = At(pc, x, tr)
         /\ [s EXCEPT !.trace = x] = At(pc, regs, x)
<1>1. s.pc = pc /\ s.regs = regs /\ s.trace = tr /\ s.mode = "runs"
  BY DEF At
<1>2. [s EXCEPT !.pc = x] = At(x, regs, tr)
  BY DEF At
<1>3. [s EXCEPT !.regs = x] = At(pc, x, tr)
  BY DEF At
<1>4. [s EXCEPT !.trace = x] = At(pc, regs, x)
  BY DEF At
<1> QED BY <1>1, <1>2, <1>3, <1>4

LEMMA EffectIs ==
  ASSUME NEW i, NEW literal, NEW pc, NEW regs, NEW tr, NEW flag
  PROVE  LET e == Effect(i, literal, At(pc, regs, tr), flag)
             on(g) == At(Plus(pc, 4), g, tr)
             sets(v) == on(With(regs, i.rd, v))
             does(what) == At(Plus(pc, 4), regs, Append(tr, what))
         IN /\ i.op \in {"adr", "adrp"} => e = sets(AdrAddr(i, pc))
            /\ i.op = "add" => e = sets(Plus(regs[i.rd], i.imm))
            /\ i.op = "movk" =>
                 e = sets(regs[i.rd] + (i.imm - QuarterOf(regs[i.rd], i.aux)) * 2^(i.aux * Quarter))
            /\ i.op = "ldr" => e = sets(literal[RelativeAddr(i, pc)])
            /\ i.op = "b" => e = At(BBLAddr(i, pc), regs, tr)
            /\ i.op = "bl" => e = does(BBLAddr(i, pc))
            /\ i.op = "br" => e = At(regs[i.rd], regs, tr)
            /\ i.op = "blr" => e = does(regs[i.rd])
            /\ i.op = "plain" => e = does(i.aux)
            /\ i.op \in Conditional =>
                 e = IF Tested(i, regs, flag) THEN At(CondAddr(i, pc), regs, tr) ELSE on(regs)
<1> DEFINE s == At(pc, regs, tr)
           e == Effect(i, literal, s, flag)
           next == [s EXCEPT !.pc = Plus(s.pc, 4)]
           sets(v) == [next EXCEPT !.regs[i.rd] = v]
           does(what) == [next EXCEPT !.trace = Append(@, what)]
<1>1. s.pc = pc /\ s.regs = regs /\ s.trace = tr /\ \A x : [s EXCEPT !.pc = x] = At(x, regs, tr)
  BY AtIs
<1> HIDE DEF s
<1>2. next = At(Plus(pc, 4), regs, tr)
  BY <1>1
<1>3. ASSUME NEW x
      PROVE  /\ next.regs = regs /\ next.trace = tr
             /\ [next EXCEPT !.regs = x] = At(Plus(pc, 4), x, tr)
             /\ [next EXCEPT !.trace = x] = At(Plus(pc, 4), regs, x)
  <2> DEFINE there == Plus(pc, 4)
  <2>1. next = At(there, regs, tr)
    BY <1>2
  <2> HIDE DEF next, there
  <2>2. /\ next.regs = regs /\ next.trace = tr
        /\ [next EXCEPT !.regs = x] = At(there, x, tr)
        /\ [next EXCEPT !.trace = x] = At(there, regs, x)
    BY <2>1, AtIs
  <2> QED BY <2>2 DEF there
<1>4. ASSUME NEW x
      PROVE  /\ sets(x) = At(Plus(pc, 4), With(regs, i.rd, x), tr)
             /\ does(x) = At(Plus(pc, 4), regs, Append(tr, x))
  <2>1. sets(x) = [next EXCEPT !.regs = [next.regs EXCEPT ![i.rd] = x]]
    OBVIOUS
  <2>2. does(x) = [next EXCEPT !.trace = Append(next.trace, x)]
    OBVIOUS
  <2> HIDE DEF next, sets, does
  <2> DEFINE g == With(regs, i.rd, x)
             u == Append(tr, x)
  <2>3. sets(x) = [next EXCEPT !.regs = g] /\ does(x) = [next EXCEPT !.trace = u]
    BY <1>3, <2>1, <2>2 DEF With
  <2> HIDE DEF g, u
  <2>4. sets(x) = At(Plus(pc, 4), g, tr) /\ does(x) = At(Plus(pc, 4), regs, u)
    BY <1>3, <2>3
  <2> QED BY <2>4 DEF g, u
<1>5. /\ i.op \in {"adr", "adrp"} => e = sets(AdrAddr(i, s.pc))
      /\ i.op = "add" => e = sets(Plus(s.regs[i.rd], i.imm))
      /\ i.op = "movk" =>
           e = sets(s.regs[i.rd] + (i.imm - QuarterOf(s.regs[i.rd], i.aux)) * 2^(i.aux * Quarter))
      /\ i.op = "ldr" => e = sets(literal[RelativeAddr(i, s.pc)])
      /\ i.op = "b" => e = [s EXCEPT !.pc = BBLAddr(i, s.pc)]
      /\ i.op = "bl" => e = does(BBLAddr(i, s.pc))
      /\ i.op = "br" => e = [s EXCEPT !.pc = s.regs[i.rd]]
      /\ i.op = "blr" => e = does(s.regs[i.rd])
      /\ i.op = "plain" => e = does(i.aux)
      /\ i.op \in Conditional =>
           e = IF Tested(i, s.regs, flag) THEN [s EXCEPT !.pc = CondAddr(i, s.pc)] ELSE next
  <2> HIDE DEF s
  <2> QED BY DEF Effect, Conditional
<1> HIDE DEF s, e, next, sets, does
<1> QED BY <1>1, <1>2, <1>4, <1>5 DEF e, s

(* The word behind one of placed code. *)
LEMMA NextIs ==
  ASSUME NEW n, NEW base, Placed(n, base), NEW j \in 0 .. n - 1
  PROVE  /\ Plus(base + 4 * j, 4) = base + 4 * (j + 1)
         /\ base + 4 * j \in Address /\ (base + 4 * j) % 4 = 0
<1> DEFINE pc == base + 4 * j
<1>1. n \in Nat /\ base \in Nat /\ base % 4 = 0 /\ base + 4 * n < Modulus /\ Modulus \in Nat
  BY ModulusIs DEF Placed, Address
<1>2. pc \in 0 .. Modulus - 1 /\ pc % 4 = 0 /\ pc + 4 \in 0 .. Modulus - 1
  BY <1>1
<1>3. Plus(pc, 4) = pc + 4
  <2>1. (0 * Modulus + (pc + 4)) % Modulus = pc + 4
    BY <1>1, <1>2, Division
  <2>2. 0 * Modulus + (pc + 4) = pc + 4
    BY <1>1, <1>2
  <2> QED BY <2>1, <2>2 DEF Plus
<1>4. pc + 4 = base + 4 * (j + 1)
  BY <1>1
<1> QED BY <1>2, <1>3, <1>4 DEF Address

(* A step of placed code at one of its words. *)
LEMMA TurnIs ==
  ASSUME NEW words, NEW n, NEW base, NEW flag, Placed(n, base), NEW j \in 0 .. n - 1, NEW regs, NEW tr
  PROVE  LET c == Code(words, n, base, flag)
             s == At(base + 4 * j, regs, tr)
         IN /\ Within(c, s)
            /\ Turn(c, s) = Effect(words[j], Literals(words, n, base), s, flag)
            /\ Plus(base + 4 * j, 4) = base + 4 * (j + 1)
            /\ base + 4 * j \in Address /\ (base + 4 * j) % 4 = 0
<1> DEFINE c == Code(words, n, base, flag)
           pc == base + 4 * j
           s == At(pc, regs, tr)
<1>1. n \in Nat /\ base \in Nat /\ base % 4 = 0 /\ base + 4 * n < Modulus /\ Modulus \in Nat
  BY ModulusIs DEF Placed, Address
<1>2. pc \in base .. base + 4 * n - 1 /\ (pc - base) % 4 = 0 /\ (pc - base) \div 4 = j
  BY <1>1
<1>3. s.mode = "runs" /\ s.pc = pc
  BY AtIs
<1>4. Plus(pc, 4) = base + 4 * (j + 1) /\ pc \in Address /\ pc % 4 = 0
  BY NextIs
<1>5. Inside(n, base, s)
  <2> HIDE DEF s
  <2> QED BY <1>2, <1>3 DEF Inside
<1>6. c.words = words /\ c.n = n /\ c.base = base /\ c.flag = flag
  BY DEF Code
<1>7. Within(c, s) /\ Turn(c, s) = Effect(words[j], Literals(words, n, base), s, flag)
  <2> HIDE DEF c, s
  <2> QED BY <1>2, <1>3, <1>5, <1>6 DEF Within, Turn, Step
<1> QED BY <1>4, <1>7

-----------------------------------------------------------------------------
(* What instructions are assembled to. *)
LEMMA AdrIs ==
  ASSUME NEW rd, NEW pc \in Address, NEW value \in Address,
         Abs(Minus(pc, value)) <= MaxAdrDistance,
         AssembleAdr("adr", rd, pc, value) # Refused
  PROVE  LET i == AssembleAdr("adr", rd, pc, value)
         IN i.op = "adr" /\ i.rd = rd /\ AdrAddr(i, pc) = value
<1> DEFINE i == AssembleAdr("adr", rd, pc, value)
           d == Distance(pc, value)
           w == AdrBits
           diff == Minus(value, pc)
           imm == Field(diff, w)
<1>1. i = Ins("adr", rd, TRUE, imm, 0)
  BY DEF AssembleAdr
<1>2. d \in Int /\ Plus(pc, d) = value /\ diff = d % Modulus
      /\ Abs(Minus(pc, value)) = IF d < 0 THEN -d ELSE d
  BY DistanceIs
<1>3. 2^(w - 1) \in Nat /\ MaxAdrDistance = 2^(w - 1) - 1
  BY WidthIs DEF MaxAdrDistance
<1> HIDE DEF d, diff
<1>4. Fits(d, w)
  BY <1>2, <1>3 DEF Fits
<1>5. \E c \in Nat \ {0} : Modulus = 2^w * c
  <2>1. PICK c \in Nat \ {0} : Modulus = PageSize * 2^w * c
    BY PagesDivide
  <2>2. PageSize \in Nat /\ PageSize > 0 /\ 2^w \in Nat
    BY PagesDivide, WidthIs
  <2> DEFINE p == PageSize
             s == 2^w
             e == p * c
  <2>3. e \in Nat \ {0} /\ p * s * c = s * e
    <3>1. p \in Nat \ {0} /\ s \in Nat
      BY <2>2
    <3> HIDE DEF p, s
    <3> QED BY <3>1
  <2> HIDE DEF e
  <2> QED BY <2>1, <2>3
<1>6. SignExtend(imm, w) = d
  BY <1>2, <1>4, <1>5, FieldIs
<1> HIDE DEF imm
<1>7. i.op = "adr" /\ i.rd = rd /\ i.imm = imm
  BY <1>1 DEF Ins
<1> HIDE DEF i
<1>8. AdrAddr(i, pc) = value
  BY <1>2, <1>6, <1>7 DEF AdrAddr
<1> QED BY <1>7, <1>8 DEF i

(* Pages *)
LEMMA PageIs ==
  ASSUME NEW a \in Address
  PROVE  /\ PageOf(a) \in Address /\ a % PageSize \in Nat /\ PageOf(a) + (a % PageSize) = a
         /\ \E k \in Nat : PageOf(a) = k * PageSize
         /\ Plus(PageOf(a), a % PageSize) = a
<1> DEFINE p == PageSize
           M == Modulus
<1>1. p \in Nat /\ p > 0 /\ M \in Nat /\ a \in Nat /\ a < M
  BY PagesDivide, ModulusIs DEF Address
<1>2. \A x : PageOf(x) = x - (x % p)
  BY DEF PageOf
<1>3. \A x, y : Plus(x, y) = (x + y) % M
  BY DEF Plus
<1> HIDE DEF p, M
<1>4. a % p \in 0 .. p - 1 /\ a \div p \in Nat /\ a = p * (a \div p) + (a % p)
  BY <1>1, DivisionIs
<1> DEFINE k == a \div p
           r == a % p
<1> HIDE DEF k, r
<1>5. r \in Nat /\ k \in Nat /\ a = p * k + r
  BY <1>1, <1>4 DEF k, r
<1>6. a - r = k * p /\ a - r >= 0 /\ a - r <= a /\ (a - r) + r = a
  BY <1>1, <1>5
<1>7. (a - r + r) % M = a
  <2>1. (0 * M + a) % M = a
    BY <1>1, Division
  <2> QED BY <1>1, <1>6, <2>1
<1>8. PageOf(a) = a - r
  BY <1>2 DEF r
<1>9. a - r \in 0 .. M - 1
  BY <1>1, <1>5, <1>6
<1>10. Plus(a - r, r) = a
  BY <1>3, <1>7
<1> QED BY <1>5, <1>6, <1>8, <1>9, <1>10 DEF Address, M, p, r

LEMMA AdrpIs ==
  ASSUME NEW rd, NEW pc \in Address, NEW value \in Address,
         Abs(Minus(PageOf(pc), PageOf(value))) \div PageSize <= MaxAdrDistance,
         AssembleAdr("adrp", rd, pc, PageOf(value)) # Refused
  PROVE  LET i == AssembleAdr("adrp", rd, pc, PageOf(value))
         IN i.op = "adrp" /\ i.rd = rd /\ AdrAddr(i, pc) = PageOf(value)
<1> DEFINE i == AssembleAdr("adrp", rd, pc, PageOf(value))
           from == PageOf(pc)
           to == PageOf(value)
           d == Distance(from, to)
           p == PageSize
           M == Modulus
           w == AdrBits
           imm == Field((d \div p) % M, w)
<1>1. i = Ins("adrp", rd, TRUE, imm, 0)
  BY DEF AssembleAdr, Distance
<1>2. from \in Address /\ to \in Address
  BY PageIs
<1>3. PICK j \in Nat : from = j * p
  BY PageIs
<1>4. PICK k \in Nat : to = k * p
  BY PageIs
<1>5. p \in Nat /\ p > 0 /\ M \in Nat /\ 2^w \in Nat
  BY PagesDivide, ModulusIs, WidthIs
<1>6. PICK c \in Nat \ {0} : M = p * 2^w * c
  BY PagesDivide
<1>7. d \in {to - from, to - from + M, to - from - M} /\ Plus(from, d) = to
      /\ Abs(Minus(from, to)) = IF d < 0 THEN -d ELSE d
  BY <1>2, DistanceIs
<1> DEFINE s == 2^w
           m == s * c
<1>8. M = p * m /\ m \in Nat /\ M = s * (p * c) /\ p * c \in Nat \ {0}
  <2> HIDE DEF s, p, M
  <2> QED BY <1>5, <1>6 DEF s
<1> HIDE DEF m, s
<1>9. PICK q \in Int : d = q * p
  <2> HIDE DEF p, M, from, to, d
  <2>1. /\ k - j \in Int /\ k - j + m \in Int /\ k - j - m \in Int
        /\ (k - j) * p = to - from /\ (k - j + m) * p = to - from + M /\ (k - j - m) * p = to - from - M
    BY <1>3, <1>4, <1>5, <1>8
  <2> QED BY <1>7, <2>1
<1>10. d \div p = q /\ (-d) \div p = -q /\ d \in Int
  <2> HIDE DEF p, d
  <2>1. (q * p + 0) \div p = q /\ ((-q) * p + 0) \div p = -q
    BY <1>5, Division
  <2>2. q * p + 0 = d /\ (-q) * p + 0 = -d
    BY <1>5, <1>9
  <2> QED BY <1>5, <1>9, <2>1, <2>2
<1>11. 2^(w - 1) \in Nat /\ MaxAdrDistance = 2^(w - 1) - 1
  BY WidthIs DEF MaxAdrDistance
<1>12. Fits(q, w)
  <2>1. (IF d < 0 THEN -d ELSE d) \div p <= MaxAdrDistance
    BY <1>7
  <2>2. d < 0 => -q <= MaxAdrDistance /\ q <= 0
    <3> HIDE DEF d, p
    <3>1. d < 0 => q < 0
      BY <1>5, <1>9
    <3> QED BY <1>10, <2>1, <3>1
  <2>3. ~(d < 0) => q <= MaxAdrDistance /\ q >= 0
    <3> HIDE DEF d, p
    <3>1. ~(d < 0) => q >= 0
      BY <1>5, <1>9
    <3> QED BY <1>10, <2>1, <3>1
  <2> HIDE DEF d
  <2> QED BY <1>11, <2>2, <2>3 DEF Fits
<1>13. SignExtend(imm, w) = q
  <2>1. \E e \in Nat \ {0} : Modulus = 2^w * e
    BY <1>8 DEF s
  <2>2. imm = Field(q % Modulus, w)
    BY <1>10
  <2> HIDE DEF imm
  <2> QED BY <1>12, <2>1, <2>2, FieldIs
<1> HIDE DEF imm
<1>14. i.op = "adrp" /\ i.rd = rd /\ i.imm = imm
  BY <1>1 DEF Ins
<1> HIDE DEF i
<1>15. AdrAddr(i, pc) = Plus(from, q * p)
  BY <1>13, <1>14 DEF AdrAddr
<1>16. AdrAddr(i, pc) = to
  BY <1>7, <1>9, <1>15
<1> QED BY <1>14, <1>16 DEF i

-----------------------------------------------------------------------------
(* An immediate that counts words: where it leads from pc. *)
LEMMA WordsAway ==
  ASSUME NEW w \in {BranchBits, CondBits, TestBits}, NEW pc \in Address, NEW to \in Address,
         NEW k \in Int, Fits(k, w), 4 * k = Distance(pc, to)
  PROVE  /\ SignExtend(Field(k, w), w) = k
         /\ Plus(pc, 4 * SignExtend(Field(k, w), w)) = to
<1>1. SignExtend(Field(k, w), w) = k
  BY FieldIs
<1>2. Plus(pc, Distance(pc, to)) = to
  BY DistanceIs
<1> QED BY <1>1, <1>2

LEMMA MakeBIs ==
  ASSUME NEW link \in BOOLEAN, NEW pc \in Address, NEW to \in Address, pc % 4 = 0, to % 4 = 0,
         Abs(Minus(to, pc)) <= MaxBranchDistance
  PROVE  LET i == MakeB(link, pc, to)
         IN i.op = (IF link THEN "bl" ELSE "b") /\ BBLAddr(i, pc) = to
<1> DEFINE i == MakeB(link, pc, to)
           d == Distance(pc, to)
           k == d \div 4
           imm == Field(k, BranchBits)
           op == IF link THEN "bl" ELSE "b"
<1>1. i = Ins(op, IP0, TRUE, imm, 0)
  BY DEF MakeB, Distance
<1>2. /\ d \in {to - pc, to - pc + Modulus, to - pc - Modulus} /\ d \in Int
      /\ Abs(Minus(to, pc)) = IF d < 0 THEN -d ELSE d
  BY DistanceIs
<1>3. /\ 2^(BranchBits - 1) \in Nat
      /\ MaxBranchDistance = 4 * 2^(BranchBits - 1) - 1
  BY WidthIs DEF MaxBranchDistance
<1>4. Modulus \in Nat /\ Modulus % 4 = 0 /\ pc \in Nat /\ to \in Nat
  BY ModulusIs DEF Address
<1> HIDE DEF d
<1>5. d % 4 = 0
  BY <1>2, <1>4
<1>6. k \in Int /\ 4 * k = d
  BY <1>2, <1>5
<1> HIDE DEF k
<1>7. Fits(k, BranchBits)
  BY <1>2, <1>3, <1>6 DEF Fits
<1>8. Plus(pc, 4 * SignExtend(imm, BranchBits)) = to
  BY <1>6, <1>7, WordsAway DEF d
<1> HIDE DEF imm, op
<1>9. i.op = op /\ i.imm = imm
  BY <1>1 DEF Ins
<1> HIDE DEF i
<1>10. BBLAddr(i, pc) = to
  BY <1>8, <1>9 DEF BBLAddr
<1> QED BY <1>9, <1>10 DEF i, op

(* A conditional branch or a load of what lies j words ahead. *)
LEMMA AheadIs ==
  ASSUME NEW op, NEW rd, NEW wide, NEW aux, NEW pc \in Address, pc % 4 = 0, NEW j \in Nat,
         pc + 4 * j < Modulus,
         NEW w \in {CondBits, TestBits}, op \in {"tbz", "tbnz"} => w = TestBits, op \notin {"tbz", "tbnz"} => w = CondBits,
         j < 2^(w - 1),
         AssembleRelative(op, rd, wide, aux, pc, pc + 4 * j) # Refused
  PROVE  LET i == AssembleRelative(op, rd, wide, aux, pc, pc + 4 * j)
         IN /\ i.op = op /\ i.rd = rd /\ i.wide = wide /\ i.aux = aux
            /\ Plus(pc, 4 * SignExtend(i.imm, w)) = pc + 4 * j
<1> DEFINE to == pc + 4 * j
           i == AssembleRelative(op, rd, wide, aux, pc, to)
           imm == Field(j, w)
<1>1. pc \in Nat /\ Modulus \in Nat /\ to \in Address /\ Modulus % 4 = 0 /\ Modulus > 0
  BY ModulusIs DEF Address
<1>2. Minus(to, pc - (pc % 4)) = 4 * j
  <2>1. (0 * Modulus + 4 * j) % Modulus = 4 * j
    BY <1>1, Division
  <2>2. to - (pc - (pc % 4)) = 0 * Modulus + 4 * j
    BY <1>1
  <2> QED BY <2>1, <2>2 DEF Minus
<1>3. Minus(to, pc - (pc % 4)) \div 4 = j
  BY <1>2
<1>4. i = Ins(op, rd, wide, imm, aux)
  <2>1. w = IF op \in {"tbz", "tbnz"} THEN TestBits ELSE CondBits
    OBVIOUS
  <2> QED BY <1>3, <2>1 DEF AssembleRelative
<1>5. w \in {BranchBits, CondBits, TestBits}
  OBVIOUS
<1>6. Fits(j, w)
  <2>1. 2^(w - 1) \in Nat
    BY <1>5, WidthIs
  <2> QED BY <2>1 DEF Fits
<1>7. SignExtend(imm, w) = j
  BY <1>5, <1>6, FieldIs
<1>8. Plus(pc, 4 * j) = to
  <2>1. (0 * Modulus + to) % Modulus = to
    BY <1>1, Division DEF Address
  <2>2. 0 * Modulus + to = pc + 4 * j
    BY <1>1
  <2> QED BY <2>1, <2>2 DEF Plus
<1> HIDE DEF imm, to
<1>9. i.op = op /\ i.rd = rd /\ i.wide = wide /\ i.aux = aux /\ i.imm = imm
  BY <1>4 DEF Ins
<1> HIDE DEF i
<1>10. Plus(pc, 4 * SignExtend(i.imm, w)) = to
  BY <1>7, <1>8, <1>9
<1> QED BY <1>9, <1>10 DEF i, to

-----------------------------------------------------------------------------
(* A number by its quarters. *)
Quartered(b, d, e, f, g) == d + e * b + f * b * b + g * b * b * b

LEMMA QuartersOf ==
  ASSUME NEW b \in Nat, b >= 2, NEW d \in 0 .. b - 1, NEW e \in 0 .. b - 1, NEW f \in 0 .. b - 1, NEW g \in 0 .. b - 1
  PROVE  LET v == Quartered(b, d, e, f, g)
         IN /\ v \in Nat /\ v < b * b * b * b
            /\ v % b = d /\ (v \div b) % b = e
            /\ (v \div (b * b)) % b = f /\ (v \div (b * b * b)) % b = g
<1> DEFINE v == Quartered(b, d, e, f, g)
           bb == b * b
           bbb == b * b * b
           low == e * b + d
           mid == f * bb + low
<1>1. /\ bb \in Nat /\ bb > 0 /\ bbb \in Nat /\ bbb > 0 /\ bb = b * b /\ bbb = bb * b
      /\ e * b \in Nat /\ f * bb \in Nat /\ g * bbb \in Nat
  <2>1. bb \in Nat /\ bb > 0
    OBVIOUS
  <2> HIDE DEF bb
  <2>2. bbb = bb * b
    BY DEF bb
  <2>3. bbb \in Nat /\ bbb > 0
    <3> HIDE DEF bbb
    <3> QED BY <2>1, <2>2
  <2> HIDE DEF bbb
  <2>4. e * b \in Nat
    OBVIOUS
  <2>5. f * bb \in Nat
    BY <2>1
  <2>6. g * bbb \in Nat
    BY <2>3
  <2> QED BY <2>1, <2>2, <2>3, <2>4, <2>5, <2>6 DEF bb
<1>2. v = g * bbb + mid
  <2>1. f * b * b = f * bb /\ g * b * b * b = g * bbb
    OBVIOUS
  <2> HIDE DEF bb, bbb
  <2> QED BY <1>1, <2>1 DEF Quartered
<1> HIDE DEF bb, bbb, v
<1>3. low \in 0 .. bb - 1
  <2>1. e * b <= (b - 1) * b /\ (b - 1) * b = bb - b
    BY <1>1
  <2> QED BY <1>1, <2>1
<1> HIDE DEF low
<1>4. mid \in 0 .. bbb - 1
  <2>1. f * bb <= (b - 1) * bb /\ (b - 1) * bb = bbb - bb
    BY <1>1
  <2> QED BY <1>1, <1>3, <2>1
<1>5. mid = f * bb + low
  OBVIOUS
<1> HIDE DEF mid
<1>6. v \in Nat /\ v < bbb * b
  <2>1. g * bbb <= (b - 1) * bbb /\ (b - 1) * bbb = bbb * b - bbb
    BY <1>1
  <2> QED BY <1>1, <1>2, <1>4, <2>1
<1>7. v \div bbb = g /\ g % b = g
  <2>1. (g * bbb + mid) \div bbb = g
    BY <1>1, <1>4, Division
  <2>2. (0 * b + g) % b = g
    BY Division
  <2> QED BY <1>2, <2>1, <2>2
<1>8. (v \div bb) % b = f
  <2>1. v = (g * b + f) * bb + low
    <3>1. (g * b) * bb = g * bbb
      BY <1>1
    <3> DEFINE x == g * b
    <3>2. x \in Int
      OBVIOUS
    <3> HIDE DEF x
    <3>3. (x + f) * bb = x * bb + f * bb
      BY <1>1, <3>2
    <3> QED BY <1>1, <1>2, <1>3, <1>5, <3>1, <3>3 DEF x
  <2>2. ((g * b + f) * bb + low) \div bb = g * b + f
    BY <1>1, <1>3, Division
  <2>3. (g * b + f) % b = f
    BY Division
  <2> QED BY <2>1, <2>2, <2>3
<1>9. v = ((g * bb + f * b) + e) * b + d
  <2>1. v = g * bbb + f * bb + (e * b + d)
    BY <1>1, <1>2, <1>5 DEF low
  <2>2. (g * bb) * b = g * bbb /\ (f * b) * b = f * bb
    BY <1>1
  <2> DEFINE x == g * bb
             y == f * b
  <2>3. x \in Int /\ y \in Int
    BY <1>1
  <2> HIDE DEF x, y
  <2>4. ((x + y) + e) * b + d = x * b + y * b + (e * b + d)
    BY <2>3
  <2> QED BY <2>1, <2>2, <2>4 DEF x, y
<1>10. v % b = d /\ v \div b = (g * bb + f * b) + e
  <2> DEFINE x == (g * bb + f * b) + e
  <2>1. x \in Int
    BY <1>1
  <2>2. v = x * b + d
    BY <1>9
  <2> HIDE DEF x
  <2>3. (x * b + d) % b = d /\ (x * b + d) \div b = x
    BY <2>1, Division
  <2>4. v % b = d /\ v \div b = x
    BY <2>2, <2>3
  <2> QED BY <2>4 DEF x
<1>11. (v \div b) % b = e
  <2>1. (g * bb + f * b) + e = (g * b + f) * b + e
    BY <1>1
  <2>2. ((g * b + f) * b + e) % b = e
    BY Division
  <2> QED BY <1>10, <2>1, <2>2
<1> QED BY <1>1, <1>6, <1>7, <1>8, <1>10, <1>11 DEF v, bb, bbb

LEMMA IsQuartered ==
  ASSUME NEW b \in Nat, b >= 2, NEW v \in Nat, v < b * b * b * b
  PROVE  \E d, e, f, g \in 0 .. b - 1 : v = Quartered(b, d, e, f, g)
<1> DEFINE x == v \div b
           y == x \div b
           z == y \div b
<1>1. v % b \in 0 .. b - 1 /\ x \in Nat /\ v = b * x + (v % b)
  BY DivisionIs
<1> HIDE DEF x
<1>2. x % b \in 0 .. b - 1 /\ y \in Nat /\ x = b * y + (x % b)
  BY <1>1, DivisionIs
<1> HIDE DEF y
<1>3. y % b \in 0 .. b - 1 /\ z \in Nat /\ y = b * z + (y % b)
  BY <1>2, DivisionIs
<1> HIDE DEF z
<1> DEFINE d == v % b
           e == x % b
           f == y % b
<1>4. d \in 0 .. b - 1 /\ e \in 0 .. b - 1 /\ f \in 0 .. b - 1 /\ v = b * x + d /\ x = b * y + e /\ y = b * z + f
  BY <1>1, <1>2, <1>3
<1> HIDE DEF d, e, f
<1>5. v = Quartered(b, d, e, f, z)
  <2>1. v = b * (b * (b * z + f) + e) + d
    BY <1>1, <1>2, <1>3, <1>4
  <2> QED BY <1>3, <1>4, <2>1 DEF Quartered
<1>6. z < b
  <2>1. SUFFICES ASSUME z >= b PROVE FALSE
    BY <1>3
  <2>2. y >= b * b
    <3>1. b * z >= b * b
      BY <1>3, <2>1
    <3> QED BY <1>2, <1>3, <1>4, <3>1
  <2> DEFINE bb == b * b
             bbb == bb * b
  <2>3. bb \in Nat
    OBVIOUS
  <2>4. y >= bb
    BY <2>2
  <2> HIDE DEF bb
  <2>5. x >= bbb /\ bbb \in Nat
    <3>1. b * y >= bb * b
      BY <1>2, <2>3, <2>4
    <3> QED BY <1>1, <1>2, <1>4, <2>3, <3>1
  <2> HIDE DEF bbb
  <2>6. v >= bbb * b
    <3>1. b * x >= bbb * b
      BY <1>1, <2>5
    <3> QED BY <1>1, <1>4, <2>5, <3>1
  <2> QED BY <2>6 DEF bb, bbb
<1>7. z \in 0 .. b - 1
  BY <1>3, <1>6
<1> QED BY <1>4, <1>5, <1>7

-----------------------------------------------------------------------------
Quarters == 0 .. 2^Quarter - 1

LEMMA QuarterOfIs ==
  ASSUME NEW d \in Quarters, NEW e \in Quarters, NEW f \in Quarters, NEW g \in Quarters
  PROVE  LET v == Quartered(2^Quarter, d, e, f, g)
         IN /\ v \in Address
            /\ QuarterOf(v, 0) = d /\ QuarterOf(v, 1) = e /\ QuarterOf(v, 2) = f /\ QuarterOf(v, 3) = g
<1> DEFINE b == 2^Quarter
           v == Quartered(b, d, e, f, g)
<1>1. /\ b \in Nat /\ b >= 2 /\ Modulus = b * b * b * b
      /\ 2^(0 * Quarter) = 1 /\ 2^(1 * Quarter) = b /\ 2^(2 * Quarter) = b * b /\ 2^(3 * Quarter) = b * b * b
  BY QuartersAre
<1>2. /\ QuarterOf(v, 0) = (v \div 2^(0 * Quarter)) % b /\ QuarterOf(v, 1) = (v \div 2^(1 * Quarter)) % b
      /\ QuarterOf(v, 2) = (v \div 2^(2 * Quarter)) % b /\ QuarterOf(v, 3) = (v \div 2^(3 * Quarter)) % b
  BY DEF QuarterOf
<1>3. d \in 0 .. b - 1 /\ e \in 0 .. b - 1 /\ f \in 0 .. b - 1 /\ g \in 0 .. b - 1
  BY DEF Quarters
<1> HIDE DEF b
<1>4. /\ v \in Nat /\ v < b * b * b * b /\ v % b = d /\ (v \div b) % b = e
      /\ (v \div (b * b)) % b = f /\ (v \div (b * b * b)) % b = g
  BY <1>1, <1>3, QuartersOf
<1> HIDE DEF v
<1>5. v \in Address
  BY <1>1, <1>4 DEF Address
<1>6. (v \div 1) % b = d
  <2>1. v \div 1 = v
    BY <1>4
  <2> QED BY <1>4, <2>1
<1>7. QuarterOf(v, 0) = d
  BY <1>1, <1>2, <1>6
<1>8. QuarterOf(v, 1) = e /\ QuarterOf(v, 2) = f /\ QuarterOf(v, 3) = g
  BY <1>1, <1>2, <1>4
<1> QED BY <1>5, <1>7, <1>8 DEF v, b

LEMMA AreQuarters ==
  ASSUME NEW v \in Address
  PROVE  /\ \A i \in 0 .. 3 : QuarterOf(v, i) \in Quarters
         /\ v = Quartered(2^Quarter, QuarterOf(v, 0), QuarterOf(v, 1), QuarterOf(v, 2), QuarterOf(v, 3))
<1> DEFINE b == 2^Quarter
<1>1. b \in Nat /\ b >= 2 /\ Modulus = b * b * b * b /\ v \in Nat /\ v < Modulus
  <2>1. v \in Nat /\ v < Modulus
    BY ModulusIs DEF Address
  <2> QED BY <2>1, QuartersAre
<1>2. Quarters = 0 .. b - 1
  BY DEF Quarters
<1>3. PICK d, e, f, g \in Quarters : v = Quartered(b, d, e, f, g)
  <2> HIDE DEF b
  <2> QED BY <1>1, <1>2, IsQuartered
<1>4. QuarterOf(v, 0) = d /\ QuarterOf(v, 1) = e /\ QuarterOf(v, 2) = f /\ QuarterOf(v, 3) = g
  BY <1>3, QuarterOfIs
<1>5. \A i \in 0 .. 3 : i \in {0, 1, 2, 3}
  OBVIOUS
<1> HIDE DEF b
<1> QED BY <1>3, <1>4, <1>5 DEF b

(* Quarters tell numbers apart. *)
LEMMA QuartersTell ==
  ASSUME NEW u \in Address, NEW v \in Address, \A i \in 0 .. 3 : QuarterOf(u, i) = QuarterOf(v, i)
  PROVE  u = v
<1>1. /\ QuarterOf(u, 0) = QuarterOf(v, 0) /\ QuarterOf(u, 1) = QuarterOf(v, 1)
      /\ QuarterOf(u, 2) = QuarterOf(v, 2) /\ QuarterOf(u, 3) = QuarterOf(v, 3)
  OBVIOUS
<1> QED BY <1>1, AreQuarters

(* What movk leaves in a register. *)
Moved(v, x, i) == v + (x - QuarterOf(v, i)) * 2^(i * Quarter)

LEMMA MovedIs ==
  ASSUME NEW v \in Address, NEW x \in Quarters, NEW i \in 0 .. 3
  PROVE  /\ Moved(v, x, i) \in Address
         /\ \A j \in 0 .. 3 : QuarterOf(Moved(v, x, i), j) = IF j = i THEN x ELSE QuarterOf(v, j)
<1> DEFINE b == 2^Quarter
           d == QuarterOf(v, 0)
           e == QuarterOf(v, 1)
           f == QuarterOf(v, 2)
           g == QuarterOf(v, 3)
           u == Moved(v, x, i)
<1>1. /\ b \in Nat
      /\ 2^(0 * Quarter) = 1 /\ 2^(1 * Quarter) = b /\ 2^(2 * Quarter) = b * b /\ 2^(3 * Quarter) = b * b * b
  BY QuartersAre
<1>2. d \in Quarters /\ e \in Quarters /\ f \in Quarters /\ g \in Quarters /\ v = Quartered(b, d, e, f, g)
  BY AreQuarters
<1>3. Quarters \subseteq Int /\ x \in Int
  BY <1>1 DEF Quarters
<1>4. u = v + (x - QuarterOf(v, i)) * 2^(i * Quarter)
  BY DEF Moved
<1> HIDE DEF u
<1>5. CASE i = 0
  <2>1. u = v + (x - d) * 1
    BY <1>1, <1>4, <1>5
  <2> HIDE DEF b, d, e, f, g
  <2>2. u = Quartered(b, x, e, f, g)
    BY <1>1, <1>2, <1>3, <2>1 DEF Quartered
  <2>3. /\ u \in Address
        /\ QuarterOf(u, 0) = x /\ QuarterOf(u, 1) = e /\ QuarterOf(u, 2) = f /\ QuarterOf(u, 3) = g
    BY <1>2, <2>2, QuarterOfIs DEF b
  <2> QED BY <1>5, <2>3 DEF u, d, e, f, g
<1>6. CASE i = 1
  <2>1. u = v + (x - e) * b
    BY <1>1, <1>4, <1>6
  <2> HIDE DEF b, d, e, f, g
  <2>2. u = Quartered(b, d, x, f, g)
    BY <1>1, <1>2, <1>3, <2>1 DEF Quartered
  <2>3. /\ u \in Address
        /\ QuarterOf(u, 0) = d /\ QuarterOf(u, 1) = x /\ QuarterOf(u, 2) = f /\ QuarterOf(u, 3) = g
    BY <1>2, <2>2, QuarterOfIs DEF b
  <2> QED BY <1>6, <2>3 DEF u, d, e, f, g
<1>7. CASE i = 2
  <2>1. u = v + (x - f) * (b * b)
    BY <1>1, <1>4, <1>7
  <2> HIDE DEF b, d, e, f, g
  <2>2. u = Quartered(b, d, e, x, g)
    BY <1>1, <1>2, <1>3, <2>1 DEF Quartered
  <2>3. /\ u \in Address
        /\ QuarterOf(u, 0) = d /\ QuarterOf(u, 1) = e /\ QuarterOf(u, 2) = x /\ QuarterOf(u, 3) = g
    BY <1>2, <2>2, QuarterOfIs DEF b
  <2> QED BY <1>7, <2>3 DEF u, d, e, f, g
<1>8. CASE i = 3
  <2>1. u = v + (x - g) * (b * b * b)
    BY <1>1, <1>4, <1>8
  <2> HIDE DEF b, d, e, f, g
  <2>2. u = Quartered(b, d, e, f, x)
    BY <1>1, <1>2, <1>3, <2>1 DEF Quartered
  <2>3. /\ u \in Address
        /\ QuarterOf(u, 0) = d /\ QuarterOf(u, 1) = e /\ QuarterOf(u, 2) = f /\ QuarterOf(u, 3) = x
    BY <1>2, <2>2, QuarterOfIs DEF b
  <2> QED BY <1>8, <2>3 DEF u, d, e, f, g
<1> QED BY <1>5, <1>6, <1>7, <1>8

-----------------------------------------------------------------------------
(* m words at base hold, from word k on, what a buffer does, and its       *)
(* literals.                                                               *)
Carries(words, m, base, b, k) ==
  /\ Placed(m, base) /\ b.size <= m
  /\ \A j \in k .. b.size - 1 : words[j] = b.words[j]
  /\ \A l \in b.lits : /\ l.at \in 0 .. m - 2
                       /\ words[l.at] = Data(l.value % HalfWord)
                       /\ words[l.at + 1] = Data(l.value \div HalfWord)

(* r was made of b by adding words and literals. *)
Continues(r, b, n) ==
  /\ Buffer(r, n)
  /\ r.ok => /\ b.ok /\ b.size <= r.size /\ r.cap <= b.cap /\ Left(r) <= Left(b) /\ b.lits \subseteq r.lits
             /\ \A j \in 0 .. b.size - 1 : r.words[j] = b.words[j]

(* The word that loads the last literal is not under it. *)
Safe(b) == Left(b) >= 1 \/ b.lits = {}

LEMMA EmitIs ==
  ASSUME NEW n \in Nat, NEW b, Buffer(b, n), NEW word
  PROVE  LET r == Emit(b, word)
         IN /\ Continues(r, b, n)
            /\ r.ok => /\ word # Refused /\ b.size \in 0 .. n - 1 /\ r.size = b.size + 1
                       /\ r.words[b.size] = word /\ r.lits = b.lits
<1> DEFINE r == Emit(b, word)
<1>1. Buffer(r, n) /\ (r.ok => Left(r) <= Left(b) /\ r.cap <= b.cap)
  <2>1. Buffer(r, n) /\ (r.ok => Left(r) = Left(b) - 1) /\ r.cap = b.cap
    BY EmitFacts
  <2>2. Left(b) \in Nat /\ b.cap \in Nat
    BY LeftIsNat DEF Buffer, Shaped
  <2> QED BY <2>1, <2>2
<1>2. CASE b.ok /\ word # Refused /\ b.size < b.cap
  <2>1. r = [words |-> [b.words EXCEPT ![b.size] = word], size |-> b.size + 1,
             cap |-> b.cap, lits |-> b.lits, ok |-> b.ok]
    BY <1>2, ZenonT(30) DEF Emit, Buffer, Shaped
  <2>2. b.size \in 0 .. n - 1 /\ b.words = [k \in 0 .. n - 1 |-> b.words[k]] /\ n \in Nat
    BY <1>2 DEF Buffer, Shaped
  <2> HIDE DEF r
  <2>3. r.words[b.size] = word /\ \A j \in 0 .. n - 1 : j # b.size => r.words[j] = b.words[j]
    BY <2>1, <2>2
  <2>4. \A j \in 0 .. b.size - 1 : j \in 0 .. n - 1 /\ j # b.size
    BY <2>2
  <2>5. r.size = b.size + 1 /\ r.lits = b.lits /\ r.ok = b.ok
    BY <2>1
  <2> QED BY <1>1, <1>2, <2>2, <2>3, <2>4, <2>5 DEF Continues, r
<1>3. CASE ~(b.ok /\ word # Refused /\ b.size < b.cap)
  <2>1. r = [words |-> b.words, size |-> b.size, cap |-> b.cap, lits |-> b.lits, ok |-> FALSE]
    BY <1>3, ZenonT(30) DEF Emit, Buffer, Shaped
  <2>2. ~r.ok
    BY <2>1
  <2> HIDE DEF r
  <2> QED BY <1>1, <2>2 DEF Continues, r
<1> QED BY <1>2, <1>3

LEMMA ContinuesBoth ==
  ASSUME NEW n \in Nat, NEW b, NEW p, NEW r, Buffer(b, n), Continues(p, b, n), Continues(r, p, n)
  PROVE  /\ Continues(r, b, n)
         /\ r.ok => /\ p.ok /\ (Safe(r) => Safe(p)) /\ b.size \in Nat /\ p.size \in Nat /\ r.size \in Nat
                    /\ b.size <= p.size /\ p.size <= r.size
                    /\ \A words, m, base : Carries(words, m, base, r, b.size) =>
                                    Carries(words, m, base, p, b.size) /\ Carries(words, m, base, r, p.size)
<1>1. b.size \in Nat /\ p.size \in Nat /\ r.size \in Nat
  BY DEF Continues, Buffer, Shaped
<1>2. SUFFICES ASSUME r.ok
               PROVE  /\ b.ok /\ b.size <= r.size /\ r.cap <= b.cap /\ Left(r) <= Left(b) /\ b.lits \subseteq r.lits
                      /\ (Safe(r) => Safe(p))
                      /\ \A j \in 0 .. b.size - 1 : r.words[j] = b.words[j]
                      /\ p.ok /\ b.size <= p.size /\ p.size <= r.size
                      /\ \A words, m, base : Carries(words, m, base, r, b.size) =>
                                      Carries(words, m, base, p, b.size) /\ Carries(words, m, base, r, p.size)
  BY <1>1 DEF Continues
<1>3. /\ p.ok /\ p.size <= r.size /\ r.cap <= p.cap /\ Left(r) <= Left(p) /\ p.lits \subseteq r.lits
      /\ \A j \in 0 .. p.size - 1 : r.words[j] = p.words[j]
  BY <1>2 DEF Continues
<1>4. /\ b.ok /\ b.size <= p.size /\ p.cap <= b.cap /\ Left(p) <= Left(b) /\ b.lits \subseteq p.lits
      /\ \A j \in 0 .. b.size - 1 : p.words[j] = b.words[j]
  BY <1>3 DEF Continues
<1>5. \A j \in 0 .. b.size - 1 : r.words[j] = b.words[j]
  BY <1>1, <1>3, <1>4
<1>6. ASSUME NEW words, NEW m, NEW base, Carries(words, m, base, r, b.size)
      PROVE  Carries(words, m, base, p, b.size) /\ Carries(words, m, base, r, p.size)
  <2>1. \A j \in b.size .. r.size - 1 : words[j] = r.words[j]
    BY <1>6 DEF Carries
  <2>2. \A j \in b.size .. p.size - 1 : words[j] = p.words[j]
    BY <1>1, <1>3, <2>1
  <2>3. \A j \in p.size .. r.size - 1 : words[j] = r.words[j]
    BY <1>1, <1>4, <2>1
  <2>4. m \in Nat /\ p.size <= m
    BY <1>1, <1>3, <1>6 DEF Carries, Placed
  <2> QED BY <1>3, <1>6, <2>2, <2>3, <2>4 DEF Carries
<1>7. r.cap <= b.cap /\ Left(r) <= Left(b) /\ (Safe(r) => Safe(p))
  <2>1. /\ Left(b) \in Nat /\ Left(p) \in Nat /\ Left(r) \in Nat
        /\ b.cap \in Nat /\ p.cap \in Nat /\ r.cap \in Nat
    BY LeftIsNat DEF Continues, Buffer, Shaped
  <2> QED BY <1>3, <1>4, <2>1 DEF Safe
<1> QED BY <1>1, <1>3, <1>4, <1>5, <1>6, <1>7

(* A word that was added is run. *)
LEMMA EmitTurns ==
  ASSUME NEW n, NEW base, Placed(n, base), NEW b, Buffer(b, n), NEW word,
         NEW r, r = Emit(b, word), r.ok, NEW words, NEW m, NEW flag, Carries(words, m, base, r, b.size),
         NEW regs, NEW tr
  PROVE  LET s == At(Rx(b, base), regs, tr)
         IN /\ Leads(Code(words, m, base, flag), s, 1, Effect(word, Literals(words, m, base), s, flag))
            /\ r.size - b.size = 1
            /\ Plus(Rx(b, base), 4) = Rx(r, base)
            /\ Rx(b, base) \in Address /\ Rx(b, base) % 4 = 0
<1> DEFINE c == Code(words, m, base, flag)
           j == b.size
           s == At(Rx(b, base), regs, tr)
<1>1. n \in Nat /\ base \in Nat
  BY ModulusIs DEF Placed, Address
<1>2. j \in 0 .. n - 1 /\ r.size = j + 1 /\ r.words[j] = word
  <2> DEFINE e == Emit(b, word)
  <2>1. e.ok => b.size \in 0 .. n - 1 /\ e.size = b.size + 1 /\ e.words[b.size] = word
    BY <1>1, EmitIs
  <2> HIDE DEF e
  <2>2. r = e
    BY DEF e
  <2> QED BY <2>1, <2>2
<1>3. words[j] = word
  <2>1. j \in b.size .. r.size - 1
    BY <1>2
  <2>2. words[j] = r.words[j]
    BY <2>1 DEF Carries
  <2> HIDE DEF j
  <2> QED BY <1>2, <2>2
<1>4. Rx(b, base) = base + 4 * j /\ Rx(r, base) = base + 4 * (j + 1)
  BY <1>2 DEF Rx
<1> DEFINE at == At(base + 4 * j, regs, tr)
<1>5. /\ Within(c, at) /\ Turn(c, at) = Effect(words[j], Literals(words, m, base), at, flag)
      /\ Plus(base + 4 * j, 4) = base + 4 * (j + 1)
      /\ base + 4 * j \in Address /\ (base + 4 * j) % 4 = 0
  <2>1. Placed(m, base) /\ j \in 0 .. m - 1
    BY <1>2 DEF Carries, Placed
  <2> HIDE DEF j
  <2> QED BY <2>1, TurnIs
<1>6. Leads(c, at, 1, Turn(c, at))
  <2> HIDE DEF c, at
  <2> QED BY <1>5, LeadsOn
<1>7. r.size - b.size = 1
  BY <1>2
<1>8. at = s
  BY <1>4
<1> HIDE DEF c, s, at, j
<1>9. Leads(c, s, 1, Effect(word, Literals(words, m, base), s, flag))
  BY <1>3, <1>5, <1>6, <1>8
<1> QED BY <1>4, <1>5, <1>7, <1>9 DEF c, s

-----------------------------------------------------------------------------
(* r is b with words that set a register to a value and nothing else.      *)
Loads(r, b, n, base, rd, value) ==
  /\ Continues(r, b, n)
  /\ r.ok /\ Safe(r) =>
       \A words, m, flag, tr : \A regs \in Files :
         Carries(words, m, base, r, b.size) =>
           Leads(Code(words, m, base, flag), At(Rx(b, base), regs, tr), r.size - b.size,
                 At(Rx(r, base), With(regs, rd, value), tr))

(* The same, but of registers of which the one that is set is given. *)
LoadsFrom(r, b, n, base, rd, given, value) ==
  /\ Continues(r, b, n)
  /\ r.ok /\ Safe(r) =>
       \A words, m, flag, tr : \A regs \in Files :
         Carries(words, m, base, r, b.size) /\ regs[rd] = given =>
           Leads(Code(words, m, base, flag), At(Rx(b, base), regs, tr), r.size - b.size,
                 At(Rx(r, base), With(regs, rd, value), tr))

LEMMA LoadsAll ==
  ASSUME NEW r, NEW b, NEW n, NEW base, NEW rd \in Registers, NEW value
  PROVE  Loads(r, b, n, base, rd, value) <=> \A given \in Address : LoadsFrom(r, b, n, base, rd, given, value)
<1>1. \A regs \in Files : regs[rd] \in Address
  BY DEF Files
<1>2. 0 \in Address
  BY ModulusIs DEF Address
<1> QED BY <1>1, <1>2 DEF Loads, LoadsFrom

LEMMA FileWith ==
  ASSUME NEW regs \in Files, NEW rd \in Registers, NEW v \in Address, NEW u
  PROVE  /\ With(regs, rd, v) \in Files /\ With(regs, rd, v)[rd] = v
         /\ With(With(regs, rd, v), rd, u) = With(regs, rd, u)
         /\ \A r \in Registers \ {rd} : With(regs, rd, v)[r] = regs[r]
  BY DEF Files, With

(* A word sets a register, given what it was. *)
Sets(word, rd, v, u) ==
  \A literal, pc, tr, flag : \A regs \in Files :
    regs[rd] = v => Effect(word, literal, At(pc, regs, tr), flag)
                      = At(Plus(pc, 4), With(regs, rd, u), tr)

LEMMA ThenLoadsFrom ==
  ASSUME NEW n, NEW base, Placed(n, base), NEW b, Buffer(b, n), NEW rd \in Registers,
         NEW v \in Address, NEW u, NEW given, NEW p, LoadsFrom(p, b, n, base, rd, given, v),
         NEW word, Sets(word, rd, v, u)
  PROVE  LoadsFrom(Emit(p, word), b, n, base, rd, given, u)
<1> DEFINE r == Emit(p, word)
<1>1. n \in Nat /\ Continues(p, b, n) /\ Buffer(p, n)
  BY DEF LoadsFrom, Continues, Placed
<1>2. Continues(r, p, n)
  BY <1>1, EmitIs
<1>3. SUFFICES ASSUME r.ok, Safe(r), NEW words, NEW m, NEW flag, NEW tr, NEW regs \in Files, Carries(words, m, base, r, b.size), regs[rd] = given
               PROVE  Leads(Code(words, m, base, flag), At(Rx(b, base), regs, tr), r.size - b.size,
                            At(Rx(r, base), With(regs, rd, u), tr))
  <2> HIDE DEF r
  <2>1. Continues(r, b, n)
    BY <1>1, <1>2, ContinuesBoth
  <2> QED BY <2>1 DEF LoadsFrom, r
<1> DEFINE c == Code(words, m, base, flag)
           g == With(regs, rd, v)
           h == With(regs, rd, u)
           s == At(Rx(p, base), g, tr)
<1>4. /\ p.ok /\ Safe(p) /\ b.size \in Nat /\ p.size \in Nat /\ r.size \in Nat /\ b.size <= p.size /\ p.size <= r.size
      /\ Carries(words, m, base, p, b.size) /\ Carries(words, m, base, r, p.size)
  <2> HIDE DEF r
  <2> QED BY <1>1, <1>2, <1>3, ContinuesBoth
<1>5. Leads(c, At(Rx(b, base), regs, tr), p.size - b.size, s)
  BY <1>3, <1>4 DEF LoadsFrom
<1>6. g \in Files /\ g[rd] = v /\ With(g, rd, u) = h
  BY FileWith
<1>7. /\ Leads(c, s, 1, Effect(word, Literals(words, m, base), s, flag))
      /\ r.size - p.size = 1
      /\ Plus(Rx(p, base), 4) = Rx(r, base)
  <2> HIDE DEF g
  <2> QED BY <1>1, <1>3, <1>4, EmitTurns
<1>8. Effect(word, Literals(words, m, base), s, flag) = At(Rx(r, base), h, tr)
  <2> HIDE DEF g, h, r
  <2> QED BY <1>6, <1>7 DEF Sets
<1> HIDE DEF c, s, g, h, r
<1>9. Leads(c, At(Rx(b, base), regs, tr), (p.size - b.size) + 1, At(Rx(r, base), h, tr))
  <2>1. p.size - b.size \in Nat
    BY <1>4
  <2> QED BY <1>5, <1>7, <1>8, <2>1, LeadsFurther
<1>10. (p.size - b.size) + 1 = r.size - b.size
  BY <1>4, <1>7
<1> QED BY <1>9, <1>10 DEF c, h, r

LEMMA ThenLoads ==
  ASSUME NEW n, NEW base, Placed(n, base), NEW b, Buffer(b, n), NEW rd \in Registers,
         NEW v \in Address, NEW u, NEW p, Loads(p, b, n, base, rd, v),
         NEW word, Sets(word, rd, v, u)
  PROVE  Loads(Emit(p, word), b, n, base, rd, u)
<1> DEFINE r == Emit(p, word)
<1>1. \A given \in Address : LoadsFrom(p, b, n, base, rd, given, v)
  BY LoadsAll
<1>2. \A given \in Address : LoadsFrom(r, b, n, base, rd, given, u)
  BY <1>1, ThenLoadsFrom
<1> HIDE DEF r
<1> QED BY <1>2, LoadsAll DEF r

(* A word that sets a register whatever it was. *)
LEMMA FirstLoads ==
  ASSUME NEW n, NEW base, Placed(n, base), NEW b, Buffer(b, n), NEW rd, NEW u, NEW word,
         Emit(b, word).ok =>
           \A literal, tr, flag : \A regs \in Files :
             Effect(word, literal, At(Rx(b, base), regs, tr), flag)
               = At(Plus(Rx(b, base), 4), With(regs, rd, u), tr)
  PROVE  Loads(Emit(b, word), b, n, base, rd, u)
<1> DEFINE r == Emit(b, word)
<1>1. n \in Nat
  BY DEF Placed
<1>2. Continues(r, b, n)
  BY <1>1, EmitIs
<1>3. SUFFICES ASSUME r.ok, Safe(r), NEW words, NEW m, NEW flag, NEW tr, NEW regs \in Files, Carries(words, m, base, r, b.size)
               PROVE  Leads(Code(words, m, base, flag), At(Rx(b, base), regs, tr), r.size - b.size,
                            At(Rx(r, base), With(regs, rd, u), tr))
  BY <1>2 DEF Loads
<1> DEFINE s == At(Rx(b, base), regs, tr)
<1>4. /\ Leads(Code(words, m, base, flag), s, 1, Effect(word, Literals(words, m, base), s, flag))
      /\ r.size - b.size = 1
      /\ Plus(Rx(b, base), 4) = Rx(r, base)
  BY <1>1, <1>3, EmitTurns
<1>5. Effect(word, Literals(words, m, base), s, flag) = At(Rx(r, base), With(regs, rd, u), tr)
  BY <1>3, <1>4
<1> HIDE DEF r, s
<1>6. Leads(Code(words, m, base, flag), s, 1, At(Rx(r, base), With(regs, rd, u), tr))
  BY <1>4, <1>5
<1> QED BY <1>4, <1>6 DEF r, s

-----------------------------------------------------------------------------
(* Where the next word goes, if there is room for one. *)
LEMMA RxIs ==
  ASSUME NEW n, NEW base, Placed(n, base), NEW b, Buffer(b, n), b.size < n
  PROVE  Rx(b, base) \in Address /\ Rx(b, base) % 4 = 0
<1>1. /\ n \in Nat /\ base \in Nat /\ base % 4 = 0 /\ base + 4 * n < Modulus /\ Modulus \in Nat
      /\ b.size \in Nat
  BY ModulusIs DEF Placed, Address, Buffer, Shaped
<1> DEFINE j == b.size
<1>2. j \in Nat /\ j < n
  BY <1>1
<1> HIDE DEF j
<1>3. base + 4 * j \in 0 .. Modulus - 1 /\ (base + 4 * j) % 4 = 0
  BY <1>1, <1>2
<1> QED BY <1>3 DEF Rx, Address, j

LEMMA EmitRx ==
  ASSUME NEW n, NEW base, Placed(n, base), NEW b, Buffer(b, n), NEW word, Emit(b, word).ok
  PROVE  /\ Rx(b, base) \in Address /\ Rx(b, base) % 4 = 0 /\ word # Refused
         /\ b.size \in 0 .. n - 1 /\ Rx(b, base) = base + 4 * b.size
<1>1. n \in Nat
  BY DEF Placed
<1>2. b.size \in 0 .. n - 1 /\ word # Refused
  BY <1>1, EmitIs
<1>3. b.size < n
  BY <1>1, <1>2
<1> QED BY <1>2, <1>3, RxIs DEF Rx

LEMMA AdrLoads ==
  ASSUME NEW n, NEW base, Placed(n, base), NEW b, Buffer(b, n), NEW rd, NEW value \in Address,
         Abs(Minus(Rx(b, base), value)) <= MaxAdrDistance
  PROVE  Loads(Emit(b, AssembleAdr("adr", rd, Rx(b, base), value)), b, n, base, rd, value)
<1> DEFINE pc == Rx(b, base)
           i == AssembleAdr("adr", rd, pc, value)
<1>1. ASSUME Emit(b, i).ok, NEW literal, NEW tr, NEW flag, NEW regs \in Files
      PROVE  Effect(i, literal, At(pc, regs, tr), flag) = At(Plus(pc, 4), With(regs, rd, value), tr)
  <2>1. pc \in Address /\ i # Refused
    BY <1>1, EmitRx
  <2>2. i.op = "adr" /\ i.rd = rd /\ AdrAddr(i, pc) = value
    BY <2>1, AdrIs
  <2> HIDE DEF i, pc
  <2> QED BY <2>2, EffectIs
<1> HIDE DEF i
<1> QED BY <1>1, FirstLoads DEF i

LEMMA AdrpLoads ==
  ASSUME NEW n, NEW base, Placed(n, base), NEW b, Buffer(b, n), NEW rd, NEW value \in Address,
         Abs(Minus(PageOf(Rx(b, base)), PageOf(value))) \div PageSize <= MaxAdrDistance
  PROVE  Loads(Emit(b, AssembleAdr("adrp", rd, Rx(b, base), PageOf(value))), b, n, base, rd, PageOf(value))
<1> DEFINE pc == Rx(b, base)
           i == AssembleAdr("adrp", rd, pc, PageOf(value))
<1>1. ASSUME Emit(b, i).ok, NEW literal, NEW tr, NEW flag, NEW regs \in Files
      PROVE  Effect(i, literal, At(pc, regs, tr), flag) = At(Plus(pc, 4), With(regs, rd, PageOf(value)), tr)
  <2>1. pc \in Address /\ i # Refused
    BY <1>1, EmitRx
  <2>2. i.op = "adrp" /\ i.rd = rd /\ AdrAddr(i, pc) = PageOf(value)
    BY <2>1, AdrpIs
  <2> HIDE DEF i, pc
  <2> QED BY <2>2, EffectIs
<1> HIDE DEF i
<1> QED BY <1>1, FirstLoads DEF i

LEMMA PagedLoads ==
  ASSUME NEW n, NEW base, Placed(n, base), NEW b, Buffer(b, n), NEW rd \in Registers, NEW value \in Address,
         Abs(Minus(PageOf(Rx(b, base)), PageOf(value))) \div PageSize <= MaxAdrDistance
  PROVE  Loads(EmitPaged(b, base, rd, value), b, n, base, rd, value)
<1> DEFINE paged == Emit(b, AssembleAdr("adrp", rd, Rx(b, base), PageOf(value)))
           add == AssembleAdd(rd, value % PageSize)
<1>1. Loads(paged, b, n, base, rd, PageOf(value))
  BY AdrpLoads
<1>2. PageOf(value) \in Address /\ Plus(PageOf(value), value % PageSize) = value
  BY PageIs
<1>3. Sets(add, rd, PageOf(value), value)
  <2>1. add.op = "add" /\ add.rd = rd /\ add.imm = value % PageSize
    BY DEF AssembleAdd, Ins
  <2> HIDE DEF add
  <2>2. ASSUME NEW literal, NEW pc, NEW tr, NEW flag, NEW regs \in Files, regs[rd] = PageOf(value)
        PROVE  Effect(add, literal, At(pc, regs, tr), flag) = At(Plus(pc, 4), With(regs, rd, value), tr)
    <3>1. Effect(add, literal, At(pc, regs, tr), flag)
            = At(Plus(pc, 4), With(regs, rd, Plus(regs[rd], value % PageSize)), tr)
      BY <2>1, EffectIs
    <3> QED BY <1>2, <2>2, <3>1
  <2> QED BY <2>2 DEF Sets
<1>4. EmitPaged(b, base, rd, value) = IF PageOf(value) = value THEN paged ELSE Emit(paged, add)
  BY DEF EmitPaged
<1> HIDE DEF paged, add
<1>5. Loads(Emit(paged, add), b, n, base, rd, value)
  BY <1>1, <1>2, <1>3, ThenLoads
<1> QED BY <1>1, <1>4, <1>5

-----------------------------------------------------------------------------
(* The literal that a load finds. *)
LEMMA LiteralIs ==
  ASSUME NEW n, NEW base, Placed(n, base), NEW words, NEW k \in 0 .. n - 2, NEW value \in Address,
         words[k] = Data(value % HalfWord), words[k + 1] = Data(value \div HalfWord)
  PROVE  Literals(words, n, base)[base + 4 * k] = value
<1>1. n \in Nat /\ base \in Nat /\ value \in Nat
  BY ModulusIs DEF Placed, Address
<1>2. HalfWord \in Nat /\ HalfWord > 0
  <2> DEFINE q == 2^Quarter
  <2>1. q \in Nat /\ q >= 2 /\ HalfWord = q * q
    BY QuartersAre
  <2> HIDE DEF q
  <2> QED BY <2>1
<1> DEFINE S == {base + 4 * j : j \in 0 .. n - 2}
           a == base + 4 * k
<1>3. a \in S /\ (a - base) \div 4 = k
  BY <1>1
<1>4. Literals(words, n, base) = [x \in S |-> words[(x - base) \div 4].imm
                                               + HalfWord * words[(x - base) \div 4 + 1].imm]
  BY DEF Literals
<1>5. words[k].imm = value % HalfWord /\ words[k + 1].imm = value \div HalfWord
  <2>1. \A v : Data(v).imm = v
    BY DEF Data, Zero, Ins
  <2> QED BY <2>1
<1>6. Literals(words, n, base)[a] = words[k].imm + HalfWord * words[k + 1].imm
  <2> HIDE DEF S, a
  <2> QED BY <1>3, <1>4
<1>7. (value % HalfWord) + HalfWord * (value \div HalfWord) = value
  <2> DEFINE h == HalfWord
             q == value \div h
             r == value % h
  <2>1. r \in 0 .. h - 1 /\ q \in Int /\ value = h * q + r
    <3> HIDE DEF h
    <3> QED BY <1>1, <1>2, DivisionIs DEF h
  <2> HIDE DEF h, q, r
  <2>2. r + h * q = value
    <3>1. r \in Int /\ h * q \in Int
      BY <1>2, <2>1 DEF h
    <3> QED BY <2>1, <3>1
  <2> QED BY <2>2 DEF h, q, r
<1> QED BY <1>5, <1>6, <1>7

LEMMA LiteralLoads ==
  ASSUME NEW n, NEW base, Placed(n, base), n <= 2^(CondBits - 1), NEW b, Buffer(b, n),
         NEW rd \in Registers, NEW value \in Address
  PROVE  Loads(EmitLiteral(b, base, rd, value), b, n, base, rd, value)
<1> DEFINE k == b.cap - 3
           pc == Rx(b, base)
           i == AssembleRelative("ldr", rd, TRUE, 0, pc, base + 4 * k)
           loaded == Emit(b, i)
           r == EmitLiteral(b, base, rd, value)
           lit == [at |-> k, value |-> value]
<1>1. n \in Nat /\ base \in Nat /\ base + 4 * n < Modulus /\ Modulus \in Nat /\ 2^(CondBits - 1) \in Nat
  BY ModulusIs, WidthIs DEF Placed, Address
<1>2. Continues(loaded, b, n)
  BY <1>1, EmitIs
<1>3. Buffer(r, n)
  BY <1>1, EmitLiteralFacts
<1>4. CASE b.cap - b.size < 3 \/ ~loaded.ok
  <2> HIDE DEF i
  <2>1. r = [words |-> b.words, size |-> b.size, cap |-> b.cap, lits |-> b.lits, ok |-> FALSE]
    BY <1>4 DEF EmitLiteral, Buffer, Shaped, i
  <2>2. ~r.ok
    BY <2>1
  <2> HIDE DEF r
  <2> QED BY <1>3, <2>2 DEF Loads, Continues, r
<1>5. CASE ~(b.cap - b.size < 3) /\ loaded.ok
  <2>1. /\ b.size \in 0 .. n - 1 /\ loaded.size = b.size + 1
        /\ loaded.lits = b.lits /\ i # Refused /\ b.ok
    <3> HIDE DEF i
    <3> QED BY <1>1, <1>2, <1>5, EmitIs DEF Continues
  <2>2. pc \in Address /\ pc % 4 = 0 /\ pc = base + 4 * b.size
    BY <1>5, EmitRx
  <2> DEFINE low == Data(value % HalfWord)
             high == Data(value \div HalfWord)
  <2> HIDE DEF i
  <2>3. Buffer(loaded, n) /\ loaded.cap = b.cap
    <3>1. loaded.cap = b.cap
      BY <1>1, EmitFacts
    <3> HIDE DEF loaded
    <3> QED BY <1>2, <3>1 DEF Continues
  <2>4. r = [words |-> [[loaded.words EXCEPT ![k] = low] EXCEPT ![k + 1] = high],
             size |-> loaded.size, cap |-> loaded.cap - 2,
             lits |-> loaded.lits \union {lit}, ok |-> loaded.ok]
    <3> HIDE DEF low, high, loaded
    <3>1. loaded = [words |-> loaded.words, size |-> loaded.size, cap |-> loaded.cap,
                    lits |-> loaded.lits, ok |-> loaded.ok]
      BY <2>3 DEF Buffer, Shaped
    <3> QED BY <1>5, <3>1 DEF EmitLiteral, loaded, i, low, high
  <2> HIDE DEF low, high, loaded, r
  <2>5. /\ b.cap \in Nat /\ b.cap <= n /\ b.size \in Nat /\ b.size <= k /\ k \in Nat /\ k + 3 <= n
        /\ k = b.cap - 3
    BY <1>1, <1>5, <2>1 DEF Buffer, Shaped
  <2>6. /\ r.size = b.size + 1 /\ r.lits = b.lits \union {lit} /\ Left(r) = k - b.size
        /\ r.cap = b.cap - 2
        /\ r.words = [[loaded.words EXCEPT ![k] = low] EXCEPT ![k + 1] = high]
    <3>1. r.size = loaded.size /\ r.lits = loaded.lits \union {lit} /\ r.cap = loaded.cap - 2
          /\ r.words = [[loaded.words EXCEPT ![k] = low] EXCEPT ![k + 1] = high]
      BY <2>4
    <3> HIDE DEF k, lit
    <3> QED BY <2>1, <2>3, <2>5, <3>1 DEF Left
  <2> HIDE DEF k
  <2>7. \A j \in 0 .. n - 1 : j # k /\ j # k + 1 => r.words[j] = loaded.words[j]
    <3>1. loaded.words = [j \in 0 .. n - 1 |-> loaded.words[j]]
      BY <2>3 DEF Buffer, Shaped
    <3> QED BY <2>6, <3>1
  <2>8. Continues(r, b, n)
    <3>1. \A j \in 0 .. b.size - 1 : loaded.words[j] = b.words[j]
      BY <1>2, <1>5 DEF Continues
    <3>2. \A j \in 0 .. b.size - 1 : j \in 0 .. n - 1 /\ j # k /\ j # k + 1
      BY <1>1, <2>5
    <3>3. \A j \in 0 .. b.size - 1 : r.words[j] = b.words[j]
      BY <2>7, <3>1, <3>2
    <3>4. b.size <= r.size /\ b.lits \subseteq r.lits /\ Left(r) <= Left(b) /\ r.cap <= b.cap
      BY <2>5, <2>6 DEF Left
    <3> QED BY <1>3, <2>1, <3>3, <3>4 DEF Continues, r
  <2>9. ASSUME Safe(r), NEW words, NEW m, NEW flag, NEW tr, NEW regs \in Files, Carries(words, m, base, r, b.size)
        PROVE  Leads(Code(words, m, base, flag), At(pc, regs, tr), r.size - b.size,
                     At(Rx(r, base), With(regs, rd, value), tr))
    <3>0. b.size < k
      <4>1. r.lits # {}
        BY <2>6
      <4> QED BY <2>5, <2>6, <2>9, <4>1 DEF Safe
    <3>1. words[k] = low /\ words[k + 1] = high
      <4>1. lit \in r.lits /\ lit.at = k /\ lit.value = value
        BY <2>6
      <4> HIDE DEF lit
      <4> QED BY <2>9, <4>1 DEF Carries, low, high
    <3>2. Literals(words, m, base)[base + 4 * k] = value
      <4>1. k \in 0 .. m - 2 /\ Placed(m, base)
        <5>1. lit \in r.lits /\ lit.at = k
          BY <2>6
        <5> HIDE DEF lit
        <5> QED BY <2>9, <5>1 DEF Carries
      <4> QED BY <3>1, <4>1, LiteralIs DEF low, high
    <3>3. Carries(words, m, base, loaded, b.size)
      <4>1. \A j \in b.size .. loaded.size - 1 :
              j \in b.size .. r.size - 1 /\ j \in 0 .. n - 1 /\ j # k /\ j # k + 1
        BY <1>1, <2>1, <2>5, <2>6, <3>0
      <4>2. loaded.lits \subseteq r.lits
        BY <2>1, <2>6
      <4>3. Placed(m, base) /\ loaded.size <= m
        BY <2>1, <2>6, <2>9 DEF Carries
      <4> QED BY <2>7, <2>9, <4>1, <4>2, <4>3 DEF Carries
    <3> DEFINE s == At(pc, regs, tr)
    <3>4. /\ Leads(Code(words, m, base, flag), s, 1, Effect(i, Literals(words, m, base), s, flag))
          /\ loaded.size - b.size = 1
          /\ Plus(pc, 4) = Rx(loaded, base)
      <4>1. loaded = Emit(b, i)
        BY DEF loaded
      <4> QED BY <1>1, <1>5, <3>3, <4>1, EmitTurns
    <3>5. i.op = "ldr" /\ i.rd = rd /\ RelativeAddr(i, pc) = base + 4 * k
      <4> DEFINE j == k - b.size
      <4> HIDE DEF pc
      <4>1. j \in Nat /\ base + 4 * k = pc + 4 * j /\ pc + 4 * j < Modulus /\ j < 2^(CondBits - 1)
        BY <1>1, <2>1, <2>2, <2>5, <3>0
      <4> HIDE DEF j
      <4> DEFINE yes == TRUE
                 x == AssembleRelative("ldr", rd, yes, 0, pc, pc + 4 * j)
      <4>2. i = x
        BY <4>1 DEF i, pc
      <4>3. "ldr" \notin {"tbz", "tbnz"}
        OBVIOUS
      <4> HIDE DEF yes
      <4>4. x.op = "ldr" /\ x.rd = rd /\ Plus(pc, 4 * SignExtend(x.imm, CondBits)) = pc + 4 * j
        <5>1. x # Refused
          BY <2>1, <4>2
        <5>2. /\ CondBits \in {CondBits, TestBits} /\ ("ldr" \in {"tbz", "tbnz"} => CondBits = TestBits)
              /\ ("ldr" \notin {"tbz", "tbnz"} => CondBits = CondBits)
          BY <4>3
        <5>3. pc \in Address /\ pc % 4 = 0
          BY <2>2
        <5> QED BY <4>1, <5>1, <5>2, <5>3, AheadIs
      <4> HIDE DEF x
      <4> QED BY <4>1, <4>2, <4>4 DEF RelativeAddr
    <3>6. Effect(i, Literals(words, m, base), s, flag) = At(Rx(loaded, base), With(regs, rd, value), tr)
      <4> HIDE DEF pc
      <4> QED BY <3>2, <3>4, <3>5, EffectIs
    <3>7. Rx(r, base) = Rx(loaded, base) /\ r.size - b.size = 1
      BY <2>1, <2>6 DEF Rx
    <3> HIDE DEF s, pc
    <3> QED BY <3>4, <3>6, <3>7 DEF s
  <2> HIDE DEF pc
  <2> QED BY <2>8, <2>9 DEF Loads, r, pc
<1> QED BY <1>4, <1>5

-----------------------------------------------------------------------------
(* A number that has value's quarters below i and where it had to have no  *)
(* other.                                                                  *)
Toward(v, i, other, value) ==
  /\ v \in Address
  /\ \A j \in 0 .. 3 : j < i \/ j \notin other => QuarterOf(v, j) = QuarterOf(value, j)

LEMMA MovkLoads ==
  ASSUME NEW n, NEW base, Placed(n, base), NEW b, Buffer(b, n), NEW rd \in Registers, NEW value \in Address,
         NEW other, NEW i \in 0 .. 3, NEW v, Toward(v, i, other, value), NEW given, NEW p,
         LoadsFrom(p, b, n, base, rd, given, v)
  PROVE  \E u : /\ Toward(u, i + 1, other, value)
               /\ LoadsFrom(IF i \in other THEN Emit(p, AssembleMovk(rd, QuarterOf(value, i), i)) ELSE p,
                            b, n, base, rd, given, u)
<1>1. CASE i \notin other
  <2>1. Toward(v, i + 1, other, value)
    <3>1. \A j \in 0 .. 3 : j < i + 1 => j < i \/ j = i
      OBVIOUS
    <3> QED BY <1>1, <3>1 DEF Toward
  <2> QED BY <1>1, <2>1
<1>2. CASE i \in other
  <2> DEFINE x == QuarterOf(value, i)
             u == Moved(v, x, i)
             word == AssembleMovk(rd, x, i)
  <2>1. v \in Address /\ x \in Quarters
    BY AreQuarters DEF Toward
  <2>2. u \in Address /\ \A j \in 0 .. 3 : QuarterOf(u, j) = IF j = i THEN x ELSE QuarterOf(v, j)
    <3> HIDE DEF x
    <3> QED BY <2>1, MovedIs
  <2>3. Sets(word, rd, v, u)
    <3>1. word.op = "movk" /\ word.rd = rd /\ word.imm = x /\ word.aux = i
      BY DEF AssembleMovk, Ins
    <3> HIDE DEF word, x
    <3>2. ASSUME NEW literal, NEW pc, NEW tr, NEW flag, NEW regs \in Files, regs[rd] = v
          PROVE  Effect(word, literal, At(pc, regs, tr), flag) = At(Plus(pc, 4), With(regs, rd, u), tr)
      <4>1. Effect(word, literal, At(pc, regs, tr), flag)
              = At(Plus(pc, 4), With(regs, rd, regs[rd] + (x - QuarterOf(regs[rd], i)) * 2^(i * Quarter)), tr)
        BY <3>1, EffectIs
      <4> QED BY <3>2, <4>1 DEF Moved
    <3> QED BY <3>2 DEF Sets
  <2> HIDE DEF word, u
  <2>4. Toward(u, i + 1, other, value)
    <3>1. \A j \in 0 .. 3 : j < i + 1 => j < i \/ j = i
      OBVIOUS
    <3> QED BY <2>2, <3>1 DEF Toward
  <2>5. LoadsFrom(Emit(p, word), b, n, base, rd, given, u)
    BY <2>1, <2>3, ThenLoadsFrom
  <2> QED BY <1>2, <2>4, <2>5 DEF word
<1> QED BY <1>1, <1>2

LEMMA ContinuesSame ==
  ASSUME NEW n, NEW b, Buffer(b, n)
  PROVE  Continues(b, b, n) /\ b.size - b.size = 0
<1>1. b.size \in Nat /\ b.cap \in Nat /\ Left(b) \in Int
  BY DEF Buffer, Shaped, Left
<1>2. b.size <= b.size /\ b.cap <= b.cap /\ Left(b) <= Left(b) /\ b.size - b.size = 0
  BY <1>1
<1> QED BY <1>2 DEF Continues

LEMMA QuartersLoad ==
  ASSUME NEW n, NEW base, Placed(n, base), NEW b, Buffer(b, n), NEW rd \in Registers, NEW value \in Address
  PROVE  Loads(EmitQuarters(b, base, rd, value), b, n, base, rd, value)
<1> DEFINE pc == Rx(b, base)
           other == {i \in 0 .. 3 : QuarterOf(value, i) # QuarterOf(pc, i)}
           movk(x, i) == IF i \in other THEN Emit(x, AssembleMovk(rd, QuarterOf(value, i), i)) ELSE x
           adr == AssembleAdr("adr", rd, pc, pc)
           start == IF other # 0 .. 3 THEN Emit(b, adr) ELSE b
<1>1. EmitQuarters(b, base, rd, value) = movk(movk(movk(movk(start, 0), 1), 2), 3)
  BY DEF EmitQuarters
<1>2. SUFFICES ASSUME NEW given \in Address
               PROVE  LoadsFrom(movk(movk(movk(movk(start, 0), 1), 2), 3), b, n, base, rd, given, value)
  BY <1>1, LoadsAll
<1>3. \E u : Toward(u, 0, other, value) /\ LoadsFrom(start, b, n, base, rd, given, u)
  <2>1. CASE other = 0 .. 3
    <3>1. Toward(given, 0, other, value)
      BY <2>1 DEF Toward
    <3>2. Continues(b, b, n) /\ b.size - b.size = 0
      BY ContinuesSame
    <3>3. \A regs \in Files : regs[rd] = given => With(regs, rd, given) = regs
      BY DEF Files, With
    <3>4. LoadsFrom(b, b, n, base, rd, given, given)
      BY <3>2, <3>3, LeadsNowhere DEF LoadsFrom
    <3>5. start = b
      <4> HIDE DEF other
      <4> QED BY <2>1
    <3> QED BY <3>1, <3>4, <3>5
  <2>2. CASE other # 0 .. 3 /\ Emit(b, adr).ok
    <3>1. pc \in Address
      <4> HIDE DEF adr
      <4> QED BY <2>2, EmitRx
    <3>2. Toward(pc, 0, other, value)
      <4>1. \A j \in 0 .. 3 : ~(j < 0)
        OBVIOUS
      <4> HIDE DEF pc
      <4> QED BY <3>1, <4>1 DEF Toward
    <3>3. Abs(Minus(pc, pc)) <= MaxAdrDistance
      <4> HIDE DEF pc
      <4>1. Distance(pc, pc) = 0
        <5>1. Modulus \in Nat /\ Modulus >= 8 /\ pc \in Int
          BY <3>1, ModulusIs DEF Address
        <5>2. Minus(pc, pc) = 0
          <6>1. (0 * Modulus + 0) % Modulus = 0
            BY <5>1, Division
          <6> QED BY <5>1, <6>1 DEF Minus
        <5> QED BY <5>1, <5>2 DEF Distance, Signed
      <4>2. Abs(Minus(pc, pc)) = 0
        BY <3>1, <4>1, DistanceIs
      <4>3. MaxAdrDistance >= 0
        BY WidthIs DEF MaxAdrDistance
      <4> QED BY <4>2, <4>3
    <3>4. Loads(Emit(b, adr), b, n, base, rd, pc)
      BY <3>1, <3>3, AdrLoads
    <3> HIDE DEF adr, pc, other
    <3> QED BY <2>2, <3>2, <3>4, LoadsAll
  <2>3. CASE other # 0 .. 3 /\ ~Emit(b, adr).ok
    <3> DEFINE r == Emit(b, adr)
    <3>1. Continues(r, b, n)
      BY EmitIs DEF Placed
    <3> HIDE DEF r
    <3>2. ~r.ok
      BY <2>3 DEF r
    <3>3. LoadsFrom(r, b, n, base, rd, given, value)
      BY <3>1, <3>2 DEF LoadsFrom
    <3>4. Toward(value, 0, other, value)
      BY DEF Toward
    <3> HIDE DEF other
    <3> QED BY <2>3, <3>3, <3>4 DEF r
  <2> QED BY <2>1, <2>2, <2>3
<1> HIDE DEF start, other
<1>4. \E u : Toward(u, 1, other, value) /\ LoadsFrom(movk(start, 0), b, n, base, rd, given, u)
  BY <1>3, MovkLoads
<1> DEFINE m0 == movk(start, 0)
<1> HIDE DEF m0
<1>5. \E u : Toward(u, 2, other, value) /\ LoadsFrom(movk(m0, 1), b, n, base, rd, given, u)
  BY <1>4, MovkLoads DEF m0
<1> DEFINE m1 == movk(m0, 1)
<1> HIDE DEF m1
<1>6. \E u : Toward(u, 3, other, value) /\ LoadsFrom(movk(m1, 2), b, n, base, rd, given, u)
  BY <1>5, MovkLoads DEF m1
<1> DEFINE m2 == movk(m1, 2)
<1> HIDE DEF m2
<1>7. \E u : Toward(u, 4, other, value) /\ LoadsFrom(movk(m2, 3), b, n, base, rd, given, u)
  BY <1>6, MovkLoads DEF m2
<1>8. \A u : Toward(u, 4, other, value) => u = value
  BY QuartersTell DEF Toward
<1> QED BY <1>7, <1>8 DEF m0, m1, m2

-----------------------------------------------------------------------------
LEMMA MovLoads ==
  ASSUME NEW n, NEW base, Placed(n, base), NEW b, Buffer(b, n), NEW rd \in Registers, NEW value \in Address,
         NEW use \in BOOLEAN, use => n <= 2^(CondBits - 1)
  PROVE  Loads(EmitMovImmediate64(b, base, rd, value, use), b, n, base, rd, value)
<1> DEFINE r == EmitMovImmediate64(b, base, rd, value, use)
           pc == Rx(b, base)
           near == Abs(Minus(pc, value)) <= MaxAdrDistance
           paged == Abs(Minus(PageOf(pc), PageOf(value))) \div PageSize <= MaxAdrDistance
           adr == Emit(b, AssembleAdr("adr", rd, pc, value))
           page == EmitPaged(b, base, rd, value)
           lit == EmitLiteral(b, base, rd, value)
           quarters == EmitQuarters(b, base, rd, value)
<1>1. r = CASE near -> adr [] ~near /\ paged -> page [] OTHER -> IF use THEN lit ELSE quarters
  BY DEF EmitMovImmediate64
<1>2. /\ near => Loads(adr, b, n, base, rd, value)
      /\ paged => Loads(page, b, n, base, rd, value)
      /\ use => Loads(lit, b, n, base, rd, value)
      /\ Loads(quarters, b, n, base, rd, value)
  BY AdrLoads, PagedLoads, LiteralLoads, QuartersLoad
<1> HIDE DEF r, near, paged, adr, page, lit, quarters
<1>3. Loads(r, b, n, base, rd, value)
  <2>1. CASE near
    BY <1>1, <1>2, <2>1
  <2>2. CASE ~near /\ paged
    BY <1>1, <1>2, <2>2
  <2>3. CASE ~near /\ ~paged /\ use
    <3>1. r = lit
      BY <1>1, <2>3
    <3> QED BY <1>2, <2>3, <3>1
  <2>4. CASE ~near /\ ~paged /\ ~use
    <3>1. r = quarters
      BY <1>1, <2>4
    <3> QED BY <1>2, <3>1
  <2> QED BY <2>1, <2>2, <2>3, <2>4
<1> QED BY <1>3 DEF r

(* Registers that are alike but for the one that calls may change.         *)
Alike(g, h) == \A x \in Registers \ {IP0} : g[x] = h[x]

(* r is b with a branch to an address, or a call of it and no more.        *)
Branches(r, b, n, base, to, link) ==
  /\ Continues(r, b, n)
  /\ r.ok /\ Safe(r) =>
       \A words, m, flag, tr : \A regs \in Files :
         Carries(words, m, base, r, b.size) =>
           \E g \in Files :
             /\ Alike(g, regs)
             /\ Leads(Code(words, m, base, flag), At(Rx(b, base), regs, tr), r.size - b.size,
                      IF link THEN At(Rx(r, base), g, Append(tr, to)) ELSE At(to, g, tr))

LEMMA ShortBranches ==
  ASSUME NEW n, NEW base, Placed(n, base), NEW b, Buffer(b, n), NEW to \in Address, to % 4 = 0,
         NEW link \in BOOLEAN, Abs(Minus(to, Rx(b, base))) <= MaxBranchDistance
  PROVE  Branches(Emit(b, MakeB(link, Rx(b, base), to)), b, n, base, to, link)
<1> DEFINE pc == Rx(b, base)
           i == MakeB(link, pc, to)
           r == Emit(b, i)
<1>1. n \in Nat
  BY DEF Placed
<1>2. Continues(r, b, n)
  <2> HIDE DEF i
  <2> QED BY <1>1, EmitIs
<1>3. ASSUME r.ok, NEW words, NEW m, NEW flag, NEW tr, NEW regs \in Files, Carries(words, m, base, r, b.size)
      PROVE  Leads(Code(words, m, base, flag), At(pc, regs, tr), r.size - b.size,
                   IF link THEN At(Rx(r, base), regs, Append(tr, to)) ELSE At(to, regs, tr))
  <2> DEFINE s == At(pc, regs, tr)
  <2> HIDE DEF i
  <2>1. /\ Leads(Code(words, m, base, flag), s, 1, Effect(i, Literals(words, m, base), s, flag))
        /\ r.size - b.size = 1
        /\ Plus(pc, 4) = Rx(r, base)
        /\ pc \in Address /\ pc % 4 = 0
    BY <1>1, <1>3, EmitTurns
  <2> HIDE DEF pc, r
  <2>2. i.op = (IF link THEN "bl" ELSE "b") /\ BBLAddr(i, pc) = to
    BY <2>1, MakeBIs DEF i, pc
  <2>3. Effect(i, Literals(words, m, base), s, flag)
          = IF link THEN At(Rx(r, base), regs, Append(tr, to)) ELSE At(to, regs, tr)
    <3>1. CASE link
      <4>1. i.op = "bl"
        BY <2>2, <3>1
      <4> QED BY <2>1, <2>2, <3>1, <4>1, EffectIs
    <3>2. CASE ~link
      <4>1. i.op = "b"
        BY <2>2, <3>2
      <4> QED BY <2>1, <2>2, <3>2, <4>1, EffectIs
    <3> QED BY <3>1, <3>2
  <2> HIDE DEF s
  <2> QED BY <2>1, <2>3 DEF s
<1>4. \A regs \in Files : Alike(regs, regs)
  BY DEF Alike
<1> HIDE DEF r, pc, i
<1>5. Branches(r, b, n, base, to, link)
  <2>1. SUFFICES ASSUME r.ok, NEW words, NEW m, NEW flag, NEW tr, NEW regs \in Files, Carries(words, m, base, r, b.size)
                 PROVE  \E g \in Files :
                          /\ Alike(g, regs)
                          /\ Leads(Code(words, m, base, flag), At(Rx(b, base), regs, tr), r.size - b.size,
                                   IF link THEN At(Rx(r, base), g, Append(tr, to)) ELSE At(to, g, tr))
    BY <1>2 DEF Branches
  <2> QED BY <1>3, <1>4, <2>1 DEF pc
<1> QED BY <1>5 DEF r, i, pc

LEMMA LongBranches ==
  ASSUME NEW n, NEW base, Placed(n, base), NEW b, Buffer(b, n), NEW to \in Address,
         NEW link \in BOOLEAN, NEW p, Loads(p, b, n, base, IP0, to)
  PROVE  Branches(Emit(p, Ins(IF link THEN "blr" ELSE "br", IP0, TRUE, 0, 0)), b, n, base, to, link)
<1> DEFINE op == IF link THEN "blr" ELSE "br"
           i == Ins(op, IP0, TRUE, 0, 0)
           r == Emit(p, i)
<1>1. n \in Nat /\ Continues(p, b, n) /\ Buffer(p, n) /\ IP0 \in Registers
  BY A64Assumption DEF Loads, Continues, Placed
<1>2. Continues(r, p, n) /\ Continues(r, b, n)
  <2> HIDE DEF i
  <2>1. Continues(r, p, n)
    BY <1>1, EmitIs
  <2> HIDE DEF r
  <2> QED BY <1>1, <2>1, ContinuesBoth
<1>3. i.op = op /\ i.rd = IP0
  BY DEF Ins
<1> HIDE DEF i, op
<1>4. SUFFICES ASSUME r.ok, Safe(r), NEW words, NEW m, NEW flag, NEW tr, NEW regs \in Files, Carries(words, m, base, r, b.size)
               PROVE  \E g \in Files :
                        /\ Alike(g, regs)
                        /\ Leads(Code(words, m, base, flag), At(Rx(b, base), regs, tr), r.size - b.size,
                                 IF link THEN At(Rx(r, base), g, Append(tr, to)) ELSE At(to, g, tr))
  BY <1>2 DEF Branches, i, op
<1> DEFINE c == Code(words, m, base, flag)
           g == With(regs, IP0, to)
           s == At(Rx(p, base), g, tr)
           z == IF link THEN At(Rx(r, base), g, Append(tr, to)) ELSE At(to, g, tr)
<1>5. /\ p.ok /\ Safe(p) /\ b.size \in Nat /\ p.size \in Nat /\ r.size \in Nat /\ b.size <= p.size /\ p.size <= r.size
      /\ Carries(words, m, base, p, b.size) /\ Carries(words, m, base, r, p.size)
  <2> HIDE DEF r
  <2> QED BY <1>1, <1>2, <1>4, ContinuesBoth
<1>6. Leads(c, At(Rx(b, base), regs, tr), p.size - b.size, s)
  BY <1>5 DEF Loads
<1>7. g \in Files /\ g[IP0] = to /\ Alike(g, regs)
  BY <1>1, FileWith DEF Alike
<1> HIDE DEF g
<1>8. /\ Leads(c, s, 1, Effect(i, Literals(words, m, base), s, flag))
      /\ r.size - p.size = 1
      /\ Plus(Rx(p, base), 4) = Rx(r, base)
  BY <1>1, <1>4, <1>5, EmitTurns
<1>9. Effect(i, Literals(words, m, base), s, flag) = z
  <2>1. CASE link
    <3>1. i.op = "blr"
      BY <1>3, <2>1 DEF op
    <3> QED BY <1>3, <1>7, <1>8, <2>1, <3>1, EffectIs
  <2>2. CASE ~link
    <3>1. i.op = "br"
      BY <1>3, <2>2 DEF op
    <3> QED BY <1>3, <1>7, <1>8, <2>2, <3>1, EffectIs
  <2> QED BY <2>1, <2>2
<1> HIDE DEF c, s, r, z
<1>10. Leads(c, At(Rx(b, base), regs, tr), (p.size - b.size) + 1, z)
  <2>1. p.size - b.size \in Nat
    BY <1>5
  <2> QED BY <1>6, <1>8, <1>9, <2>1, LeadsFurther
<1>11. (p.size - b.size) + 1 = r.size - b.size
  BY <1>5, <1>8
<1>12. Leads(c, At(Rx(b, base), regs, tr), r.size - b.size, z)
  BY <1>10, <1>11
<1> QED BY <1>7, <1>12 DEF c, z

LEMMA BranchBranches ==
  ASSUME NEW n, NEW base, Placed(n, base), NEW b, Buffer(b, n), NEW to \in Address, to % 4 = 0,
         NEW link \in BOOLEAN, NEW use \in BOOLEAN, use => n <= 2^(CondBits - 1)
  PROVE  Branches(EmitBranch(b, base, to, link, use), b, n, base, to, link)
<1> DEFINE from == Rx(b, base)
           near == Abs(Minus(to, from)) <= MaxBranchDistance
           short == Emit(b, MakeB(link, from, to))
           mov == EmitMovImmediate64(b, base, IP0, to, use)
           long == Emit(mov, Ins(IF link THEN "blr" ELSE "br", IP0, TRUE, 0, 0))
<1>1. EmitBranch(b, base, to, link, use) = IF near THEN short ELSE long
  BY DEF EmitBranch
<1>2. near => Branches(short, b, n, base, to, link)
  BY ShortBranches
<1>3. Branches(long, b, n, base, to, link)
  <2>1. Loads(mov, b, n, base, IP0, to)
    BY MovLoads, A64Assumption
  <2> HIDE DEF mov
  <2> QED BY <2>1, LongBranches
<1> HIDE DEF near, short, long
<1> QED BY <1>1, <1>2, <1>3

-----------------------------------------------------------------------------
(* Control is inside of words iff it is at one of them. *)
LEMMA InsideIs ==
  ASSUME NEW n, NEW base, Placed(n, base), NEW pc \in Int, NEW regs, NEW tr, pc \notin Words(base, n)
  PROVE  ~Inside(n, base, At(pc, regs, tr))
<1>1. n \in Nat /\ base \in Nat
  BY ModulusIs DEF Placed, Address
<1>2. At(pc, regs, tr).pc = pc
  BY DEF At
<1>3. ASSUME pc \in base .. base + 4 * n - 1, (pc - base) % 4 = 0 PROVE FALSE
  <2> DEFINE k == (pc - base) \div 4
  <2>1. k \in 0 .. n - 1 /\ pc = base + 4 * k
    BY <1>1, <1>3
  <2> HIDE DEF k
  <2> QED BY <2>1 DEF Words
<1> QED BY <1>2, <1>3 DEF Inside

(* Registers that differ in IP0 only look the same. *)
LEMMA LooksAlike ==
  ASSUME NEW pc, NEW tr, NEW g, NEW h, Alike(g, h)
  PROVE  Visible(At(pc, g, tr)) = Visible(At(pc, h, tr))
<1> DEFINE kept(f) == [x \in Registers \ {IP0} |-> f[x]]
<1>1. \A f : Visible(At(pc, f, tr)) = At(pc, kept(f), tr)
  <2> SUFFICES ASSUME NEW f PROVE Visible(At(pc, f, tr)) = At(pc, kept(f), tr)
    OBVIOUS
  <2> DEFINE s == At(pc, f, tr)
  <2>1. s.regs = f /\ \A x : [s EXCEPT !.regs = x] = At(pc, x, tr)
    BY AtIs
  <2> HIDE DEF s
  <2>2. Visible(s) = [s EXCEPT !.regs = kept(f)]
    BY <2>1 DEF Visible
  <2> QED BY <2>1, <2>2 DEF s
<1>2. kept(g) = kept(h)
  BY DEF Alike
<1> QED BY <1>1, <1>2

-----------------------------------------------------------------------------
(* The inductive invariant of BranchReachesHook: what is at the site is    *)
(* the branch to the hook and nothing else.                                *)
ToHook(p) == EmitBranch(Empty(N), p.at, p.to, FALSE, FALSE)
Sited ==
  /\ place \in Places
  /\ phase = "hook" => branch = Empty(N)
  /\ phase \in {"copy", "made"} => branch.ok /\ branch = ToHook(place)

LEMMA SitedInit == Init => Sited
  BY DEF Init, Sited

LEMMA SitedStep == Sited /\ [Next]_vars => Sited'
<1> SUFFICES ASSUME Sited, [Next]_vars PROVE Sited'
  OBVIOUS
<1>1. CASE MakeBranch
  <2>1. phase = "hook" /\ branch = Empty(N) /\ place' = place /\ branch' = ToHook(place)
    BY <1>1 DEF MakeBranch, Sited, ToHook
  <2>2. phase' \in {"copy", "halted"} /\ (phase' = "copy" => branch'.ok)
    BY <1>1 DEF MakeBranch
  <2> QED BY <2>1, <2>2 DEF Sited
<1>2. ASSUME NEW i \in Originals, Relocate(i) PROVE Sited'
  BY <1>2 DEF Relocate, Sited
<1>3. ASSUME NEW i \in Originals, Abort(i) PROVE Sited'
  BY <1>3 DEF Abort, Sited
<1>4. CASE EmitReturn
  BY <1>4 DEF EmitReturn, Sited
<1>5. CASE UNCHANGED vars
  BY <1>5 DEF vars, Sited
<1> QED BY <1>1, <1>2, <1>3, <1>4, <1>5 DEF Next

LEMMA PlacesAre ==
  ASSUME NEW p \in Places
  PROVE  /\ Placed(N, p.at) /\ Placed(Capacity, p.rx)
         /\ p.at \in Address /\ p.rx \in Address /\ p.to \in Address /\ p.to % 4 = 0
  BY LayoutAssumption, BackupAssumption DEF Placed, Address

LEMMA SitedReaches == Filled /\ Sited => BranchReachesHook
<1> SUFFICES ASSUME Filled, Sited, phase = "made", NEW regs \in Valuations
             PROVE  Visible(Run(branch.words, NumInstrs, place.at, Entering(place.at, regs), TRUE))
                      = Visible(Entering(place.to, regs))
  BY DEF BranchReachesHook
<1> DEFINE at == place.at
           to == place.to
           n == NumInstrs
           e == Empty(N)
           words == branch.words
<1>1. place \in Places /\ branch.ok /\ branch = ToHook(place) /\ n = branch.size
  BY DEF Sited, NumInstrs
<1>2. /\ Placed(N, at) /\ at \in Address /\ to \in Address /\ to % 4 = 0 /\ N \in Nat
      /\ to \notin Words(at, N)
  <2>1. to \notin Words(at, N) /\ N \in Nat
    BY <1>1, LayoutAssumption, BackupAssumption
  <2> QED BY <1>1, <2>1, PlacesAre
<1>3. Buffer(e, N) /\ e.size = 0 /\ Rx(e, at) = at
  <2>1. Buffer(e, N) /\ e.size = 0
    BY <1>2, EmptyIsBuffer DEF Empty
  <2>2. at \in Int
    BY <1>2, ModulusIs DEF Address
  <2> HIDE DEF e, at
  <2> QED BY <2>1, <2>2 DEF Rx
<1>4. Branches(branch, e, N, at, to, FALSE)
  <2> DEFINE no == FALSE
             r == EmitBranch(e, at, to, no, no)
  <2>1. no \in BOOLEAN /\ ~no
    OBVIOUS
  <2>2. branch = r
    BY <1>1 DEF ToHook
  <2> HIDE DEF no, e, at, to
  <2>3. Branches(r, e, N, at, to, no)
    BY <1>2, <1>3, <2>1, BranchBranches
  <2> HIDE DEF r
  <2>4. Branches(branch, e, N, at, to, no)
    BY <2>2, <2>3
  <2> QED BY <2>4 DEF no
<1> HIDE DEF e
<1>5. branch.lits = {} /\ n \in Nat /\ n <= N /\ Safe(branch)
  BY <1>1, BackupAssumption DEF Filled, Buffer, Shaped, Safe
<1> HIDE DEF n
<1>6. Placed(n, at)
  BY <1>2, <1>5, ModulusIs DEF Placed, Address
<1>7. Carries(words, n, at, branch, e.size)
  BY <1>1, <1>5, <1>6 DEF Carries
<1>8. regs \in Files
  BY ContentsAssumption DEF Files, Address
<1> DEFINE s == At(at, regs, <<>>)
<1>9. PICK g \in Files : Alike(g, regs) /\ Leads(Code(words, n, at, TRUE), s, n, At(to, g, <<>>))
  <2>1. \A flag, tr : \E g \in Files :
          /\ Alike(g, regs)
          /\ Leads(Code(words, n, at, flag), At(Rx(e, at), regs, tr), branch.size - e.size, At(to, g, tr))
    BY <1>1, <1>4, <1>5, <1>7, <1>8 DEF Branches
  <2>2. branch.size - e.size = n
    BY <1>1, <1>3, <1>5
  <2> QED BY <1>3, <2>1, <2>2
<1>10. ~Inside(n, at, At(to, g, <<>>))
  <2>1. to \notin Words(at, n) /\ to \in Int
    BY <1>2, <1>5, ModulusIs DEF Words, Address
  <2> QED BY <1>6, <2>1, InsideIs
<1>11. Run(words, n, at, s, TRUE) = At(to, g, <<>>)
  <2> DEFINE yes == TRUE
             z == At(to, g, <<>>)
  <2>1. Leads(Code(words, n, at, yes), s, n, z)
    BY <1>9
  <2> HIDE DEF yes, words, at, s, z
  <2>2. n \in 0 .. n + 1
    BY <1>5
  <2>3. Run(words, n, at, s, yes) = z
    BY <1>5, <1>10, <2>1, <2>2, RunIs DEF z
  <2> QED BY <2>3 DEF yes, z
<1>12. Entering(at, regs) = s /\ Entering(to, regs) = At(to, regs, <<>>)
  BY DEF Entering, At
<1>13. Visible(At(to, g, <<>>)) = Visible(At(to, regs, <<>>))
  BY <1>9, LooksAlike
<1> QED BY <1>11, <1>12, <1>13 DEF n

(* Wherever the site and the hook are, the words that installAtOffset      *)
(* writes at the site lead to the hook and change IP0 at most: whichever   *)
(* sequence PseudoInstructionEmitter::emitBranch chose, its distances and  *)
(* the quarters that it moved add up to the address of the hook.           *)
THEOREM SitesReachTheHook == Spec => []BranchReachesHook
<1>1. Init => Filled /\ Sited
  BY FilledInit, SitedInit
<1>2. (Filled /\ Sited) /\ [Next]_vars => (Filled /\ Sited)'
  BY FilledStep, SitedStep
<1>3. Filled /\ Sited => BranchReachesHook
  BY SitedReaches
<1> QED BY <1>1, <1>2, <1>3, PTL DEF Spec

-----------------------------------------------------------------------------
LEMMA CarriesLess ==
  ASSUME NEW n, NEW b, NEW r, Buffer(b, n), Continues(r, b, n), r.ok,
         NEW words, NEW m, NEW base, Carries(words, m, base, r, 0)
  PROVE  Carries(words, m, base, b, 0) /\ Carries(words, m, base, r, b.size)
<1>1. b.size \in Nat /\ r.size \in Nat /\ b.size <= r.size /\ b.lits \subseteq r.lits
      /\ \A j \in 0 .. b.size - 1 : r.words[j] = b.words[j]
  BY DEF Continues, Buffer, Shaped
<1>2. m \in Nat /\ r.size <= m /\ Placed(m, base)
  BY DEF Carries, Placed
<1>3. \A j \in 0 .. r.size - 1 : words[j] = r.words[j]
  BY DEF Carries
<1>4. \A j \in 0 .. b.size - 1 : words[j] = b.words[j]
  BY <1>1, <1>3
<1>5. \A j \in b.size .. r.size - 1 : words[j] = r.words[j]
  BY <1>1, <1>3
<1>6. b.size <= m
  BY <1>1, <1>2
<1> QED BY <1>1, <1>2, <1>4, <1>5, <1>6 DEF Carries

(* A condition and its opposite, of registers alike. *)
LEMMA TestedOpposite ==
  ASSUME NEW i \in Originals, i.op \in Conditional, ComparesWide(i), ComparesKept(i),
         NEW o, o.op = Opposite(i.op), o.rd = i.rd, o.wide,
         o.aux = IF i.op # "bcond" THEN i.aux ELSE IF i.aux % 2 = 0 THEN i.aux + 1 ELSE i.aux - 1,
         NEW g, NEW h, Alike(g, h), NEW flag \in BOOLEAN
  PROVE  Tested(o, h, flag) <=> ~Tested(i, g, flag)
<1>1. i.aux \in Nat /\ i.rd \in Registers
  BY BackupAssumption
<1>2. CASE i.op = "bcond"
  <2>1. o.op = "bcond"
    BY <1>2 DEF Opposite
  <2>2. (o.aux % 2 = 0) <=> ~(i.aux % 2 = 0)
    BY <1>1, <1>2
  <2>3. Tested(i, g, flag) <=> (flag <=> (i.aux % 2 = 0))
    BY <1>2 DEF Tested
  <2>4. Tested(o, h, flag) <=> (flag <=> (o.aux % 2 = 0))
    BY <2>1 DEF Tested
  <2>5. CASE flag
    BY <2>2, <2>3, <2>4, <2>5
  <2>6. CASE ~flag
    BY <2>2, <2>3, <2>4, <2>6
  <2> QED BY <2>5, <2>6
<1>3. CASE i.op # "bcond"
  <2>1. h[i.rd] = g[i.rd]
    BY <1>1, <1>3 DEF Alike, ComparesKept
  <2>2. o.aux = i.aux
    BY <1>3
  <2> DEFINE zero(x, v) == (IF x.wide THEN v ELSE v % HalfWord) = 0
             clear(x, v) == (v \div 2^x.aux) % 2 = 0
  <2>3. \A x, f : /\ x.op = "cbz" => (Tested(x, f, flag) <=> zero(x, f[x.rd]))
                  /\ x.op = "cbnz" => (Tested(x, f, flag) <=> ~zero(x, f[x.rd]))
                  /\ x.op = "tbz" => (Tested(x, f, flag) <=> clear(x, f[x.rd]))
                  /\ x.op = "tbnz" => (Tested(x, f, flag) <=> ~clear(x, f[x.rd]))
    <3> SUFFICES ASSUME NEW x, NEW f
                 PROVE  /\ x.op = "cbz" => (Tested(x, f, flag) <=> zero(x, f[x.rd]))
                        /\ x.op = "cbnz" => (Tested(x, f, flag) <=> ~zero(x, f[x.rd]))
                        /\ x.op = "tbz" => (Tested(x, f, flag) <=> clear(x, f[x.rd]))
                        /\ x.op = "tbnz" => (Tested(x, f, flag) <=> ~clear(x, f[x.rd]))
      OBVIOUS
    <3>1. Tested(x, f, flag) = CASE x.op = "bcond" -> flag = (x.aux % 2 = 0)
                                 [] x.op = "cbz" -> zero(x, f[x.rd])
                                 [] x.op = "cbnz" -> ~zero(x, f[x.rd])
                                 [] x.op = "tbz" -> clear(x, f[x.rd])
                                 [] x.op = "tbnz" -> ~clear(x, f[x.rd])
      BY DEF Tested
    <3> HIDE DEF zero, clear
    <3>2. CASE x.op = "cbz"
      BY <3>1, <3>2
    <3>3. CASE x.op = "cbnz"
      BY <3>1, <3>3
    <3>4. CASE x.op = "tbz"
      BY <3>1, <3>4
    <3>5. CASE x.op = "tbnz"
      BY <3>1, <3>5
    <3> QED BY <3>2, <3>3, <3>4, <3>5
  <2>4. clear(o, h[o.rd]) <=> clear(i, g[i.rd])
    BY <2>1, <2>2
  <2>5. i.wide => (zero(o, h[o.rd]) <=> zero(i, g[i.rd]))
    BY <2>1
  <2> HIDE DEF zero, clear
  <2>6. CASE i.op = "cbz"
    <3>1. o.op = "cbnz" /\ i.wide
      BY <2>6 DEF Opposite, ComparesWide
    <3> QED BY <2>3, <2>5, <2>6, <3>1
  <2>7. CASE i.op = "cbnz"
    <3>1. o.op = "cbz" /\ i.wide
      BY <2>7 DEF Opposite, ComparesWide
    <3> QED BY <2>3, <2>5, <2>7, <3>1
  <2>8. CASE i.op = "tbz"
    <3>1. o.op = "tbnz"
      BY <2>8 DEF Opposite
    <3> QED BY <2>3, <2>4, <2>8, <3>1
  <2>9. CASE i.op = "tbnz"
    <3>1. o.op = "tbz"
      BY <2>9 DEF Opposite
    <3> QED BY <2>3, <2>4, <2>9, <3>1
  <2> QED BY <1>3, <2>6, <2>7, <2>8, <2>9 DEF Conditional
<1> QED BY <1>2, <1>3

(* Where displaced instructions refer to. *)
LEMMA TargetsAre ==
  ASSUME NEW i \in Originals, NEW pc \in Address, pc % 4 = 0
  PROVE  /\ i.op \in {"adr", "adrp"} => AdrAddr(i, pc) \in Address
         /\ BBLAddr(i, pc) \in Address /\ BBLAddr(i, pc) % 4 = 0
         /\ CondAddr(i, pc) \in Address /\ CondAddr(i, pc) % 4 = 0
<1>1. i.imm \in Nat
  BY BackupAssumption
<1>2. Modulus \in Nat /\ Modulus % 4 = 0 /\ Modulus > 0 /\ pc \in Nat
  BY ModulusIs DEF Address
<1>3. \A w \in {AdrBits, BranchBits, CondBits, TestBits} : SignExtend(i.imm, w) \in Int
  <2>1. \A w \in {AdrBits, BranchBits, CondBits, TestBits} : 2^(w - 1) \in Nat
    BY WidthIs
  <2> QED BY <1>1, <2>1 DEF SignExtend
<1>4. ASSUME NEW x \in Int PROVE Plus(pc, 4 * x) \in Address /\ Plus(pc, 4 * x) % 4 = 0
  <2> DEFINE y == (pc + 4 * x) \div Modulus
             z == (pc + 4 * x) % Modulus
  <2>1. y \in Int /\ z \in 0 .. Modulus - 1 /\ pc + 4 * x = Modulus * y + z
    <3>1. pc + 4 * x \in Int
      BY <1>2
    <3> QED BY <1>2, <3>1, DivisionIs
  <2>2. z = Plus(pc, 4 * x)
    BY DEF Plus
  <2> HIDE DEF y, z
  <2>3. z % 4 = 0
    <3> DEFINE q == Modulus \div 4
    <3>1. q \in Int /\ Modulus = 4 * q
      BY <1>2
    <3> HIDE DEF q
    <3> DEFINE p == pc \div 4
    <3>2. p \in Int /\ pc = 4 * p
      BY <1>2
    <3> HIDE DEF p
    <3>3. z = 4 * (p + x - q * y)
      BY <2>1, <3>1, <3>2
    <3> DEFINE u == p + x - q * y
    <3>4. u \in Int
      BY <2>1, <3>1, <3>2
    <3> HIDE DEF u
    <3>5. (u * 4 + 0) % 4 = 0
      BY <3>4, Division
    <3>6. z = u * 4 + 0
      BY <3>3, <3>4 DEF u
    <3> QED BY <3>5, <3>6
  <2> QED BY <2>1, <2>2, <2>3 DEF Address
<1>5. i.op \in {"adr", "adrp"} => AdrAddr(i, pc) \in Address
  <2>1. \A x \in Int, y \in Int : Plus(x, y) \in Address
    BY <1>2 DEF Plus, Address
  <2>2. PageOf(pc) \in Int /\ SignExtend(i.imm, AdrBits) * PageSize \in Int
    <3>1. PageSize \in Nat /\ PageSize > 0
      BY PowersAssumption, WidthsAssumption, A64Assumption DEF PageSize
    <3> DEFINE x == SignExtend(i.imm, AdrBits)
    <3>2. x \in Int
      BY <1>3
    <3> HIDE DEF x
    <3>3. x * PageSize \in Int
      BY <3>1, <3>2
    <3> QED BY <1>2, <3>1, <3>3 DEF PageOf, x
  <2>3. SignExtend(i.imm, AdrBits) \in Int
    BY <1>3
  <2> QED BY <1>2, <2>1, <2>2, <2>3 DEF AdrAddr
<1> QED BY <1>3, <1>4, <1>5 DEF BBLAddr, CondAddr, TbzAddr, RelativeAddr

-----------------------------------------------------------------------------
(* r is b with words that do at their place what instruction i does at pc: *)
(* both go on behind, or both go where i branches to.                      *)
Onward(i, pc, p, q, next) ==
  \/ p = Plus(pc, 4) /\ q = next /\ i.op # "b"
  \/ p = q /\ p = Target(i, pc) /\ i.op \in Conditional \union {"b"}

Follows(r, b, base, i, pc, words, m, tr, literal, flag, g, h) ==
  \E k \in 0 .. r.size - b.size, gg \in Files, hh \in Files : \E p, q, t :
    /\ Alike(gg, hh) /\ Onward(i, pc, p, q, Rx(r, base))
    /\ Effect(i, literal, At(pc, g, tr), flag) = At(p, gg, t)
    /\ Leads(Code(words, m, base, flag), At(Rx(b, base), h, tr), k, At(q, hh, t))

Mirrors(r, b, n, base, i, pc) ==
  /\ Continues(r, b, n)
  /\ r.ok /\ Safe(r) =>
       \A words, m, tr, literal : \A flag \in BOOLEAN, g \in Files, h \in Files :
         Carries(words, m, base, r, b.size) /\ Alike(g, h) =>
           Follows(r, b, base, i, pc, words, m, tr, literal, flag, g, h)

(* A plain instruction is copied. *)
LEMMA PlainMirrors ==
  ASSUME NEW n, NEW base, Placed(n, base), NEW b, Buffer(b, n), NEW i, i.op = "plain", NEW pc
  PROVE  Mirrors(Emit(b, i), b, n, base, i, pc)
<1> DEFINE r == Emit(b, i)
<1>1. n \in Nat
  BY DEF Placed
<1>2. Continues(r, b, n)
  BY <1>1, EmitIs
<1>3. SUFFICES ASSUME r.ok, NEW words, NEW m, NEW tr, NEW literal, NEW flag, NEW g \in Files, NEW h \in Files,
                      Carries(words, m, base, r, b.size), Alike(g, h)
               PROVE  Follows(r, b, base, i, pc, words, m, tr, literal, flag, g, h)
  <2> HIDE DEF r
  <2> QED BY <1>2 DEF Mirrors, r
<1> DEFINE s == At(Rx(b, base), h, tr)
           t == Append(tr, i.aux)
<1>4. /\ Leads(Code(words, m, base, flag), s, 1, Effect(i, Literals(words, m, base), s, flag))
      /\ r.size - b.size = 1
      /\ Plus(Rx(b, base), 4) = Rx(r, base)
  BY <1>1, <1>3, EmitTurns
<1>5. /\ Effect(i, Literals(words, m, base), s, flag) = At(Rx(r, base), h, t)
      /\ Effect(i, literal, At(pc, g, tr), flag) = At(Plus(pc, 4), g, t)
  BY <1>4, EffectIs
<1>6. Onward(i, pc, Plus(pc, 4), Rx(r, base), Rx(r, base))
  BY DEF Onward
<1> HIDE DEF r, t, s
<1>7. 1 \in 0 .. r.size - b.size
  BY <1>4
<1>8. Leads(Code(words, m, base, flag), s, 1, At(Rx(r, base), h, t))
  BY <1>4, <1>5
<1> QED BY <1>3, <1>5, <1>6, <1>7, <1>8 DEF s, Follows

(* An address that was computed from the pc is loaded. *)
LEMMA AdrMirrors ==
  ASSUME NEW n, NEW base, Placed(n, base), n <= 2^(CondBits - 1), NEW b, Buffer(b, n),
         NEW i \in Originals, i.op \in {"adr", "adrp"}, NEW pc \in Address, pc % 4 = 0
  PROVE  Mirrors(EmitMovImmediate64(b, base, i.rd, AdrAddr(i, pc), TRUE), b, n, base, i, pc)
<1> DEFINE value == AdrAddr(i, pc)
           r == EmitMovImmediate64(b, base, i.rd, value, TRUE)
<1> SUFFICES Mirrors(r, b, n, base, i, pc)
  OBVIOUS
<1>1. value \in Address /\ i.rd \in Registers
  BY TargetsAre, BackupAssumption
<1>2. Loads(r, b, n, base, i.rd, value)
  <2> DEFINE use == TRUE
  <2>1. use \in BOOLEAN
    OBVIOUS
  <2> HIDE DEF use, value
  <2>2. Loads(EmitMovImmediate64(b, base, i.rd, value, use), b, n, base, i.rd, value)
    BY <1>1, <2>1, MovLoads
  <2> QED BY <2>2 DEF use
<1> HIDE DEF r
<1>3. SUFFICES ASSUME r.ok, Safe(r), NEW words, NEW m, NEW tr, NEW literal, NEW flag, NEW g \in Files, NEW h \in Files,
                      Carries(words, m, base, r, b.size), Alike(g, h)
               PROVE  Follows(r, b, base, i, pc, words, m, tr, literal, flag, g, h)
  <2>1. Continues(r, b, n)
    BY <1>2 DEF Loads
  <2> QED BY <2>1 DEF Mirrors
<1> DEFINE gg == With(g, i.rd, value)
           hh == With(h, i.rd, value)
           k == r.size - b.size
<1>4. Leads(Code(words, m, base, flag), At(Rx(b, base), h, tr), k, At(Rx(r, base), hh, tr))
  BY <1>2, <1>3 DEF Loads
<1>5. Effect(i, literal, At(pc, g, tr), flag) = At(Plus(pc, 4), gg, tr)
  BY EffectIs
<1>6. gg \in Files /\ hh \in Files /\ Alike(gg, hh)
  BY <1>1, <1>3 DEF Files, With, Alike
<1>7. Onward(i, pc, Plus(pc, 4), Rx(r, base), Rx(r, base))
  BY DEF Onward
<1>8. k \in 0 .. k
  <2>1. b.size \in Nat /\ r.size \in Nat /\ b.size <= r.size
    BY <1>2, <1>3 DEF Loads, Continues, Buffer, Shaped
  <2> QED BY <2>1
<1> HIDE DEF gg, hh, k
<1> QED BY <1>4, <1>5, <1>6, <1>7, <1>8 DEF k, Follows

(* A branch or a call goes to the same address. *)
LEMMA BranchMirrors ==
  ASSUME NEW n, NEW base, Placed(n, base), n <= 2^(CondBits - 1), NEW b, Buffer(b, n),
         NEW i \in Originals, i.op \in Unconditional, NEW pc \in Address, pc % 4 = 0
  PROVE  Mirrors(EmitBranch(b, base, BBLAddr(i, pc), i.op = "bl", TRUE), b, n, base, i, pc)
<1> DEFINE to == BBLAddr(i, pc)
           link == i.op = "bl"
           r == EmitBranch(b, base, to, link, TRUE)
<1> SUFFICES Mirrors(r, b, n, base, i, pc)
  OBVIOUS
<1>1. to \in Address /\ to % 4 = 0
  BY TargetsAre
<1>2. Branches(r, b, n, base, to, link)
  <2> DEFINE use == TRUE
  <2>1. use \in BOOLEAN /\ link \in BOOLEAN
    OBVIOUS
  <2> HIDE DEF use, to, link
  <2>2. Branches(EmitBranch(b, base, to, link, use), b, n, base, to, link)
    BY <1>1, <2>1, BranchBranches
  <2> QED BY <2>2 DEF use
<1> HIDE DEF r
<1>3. SUFFICES ASSUME r.ok, Safe(r), NEW words, NEW m, NEW tr, NEW literal, NEW flag, NEW g \in Files, NEW h \in Files,
                      Carries(words, m, base, r, b.size), Alike(g, h)
               PROVE  Follows(r, b, base, i, pc, words, m, tr, literal, flag, g, h)
  <2>1. Continues(r, b, n)
    BY <1>2 DEF Branches
  <2> QED BY <2>1 DEF Mirrors
<1> DEFINE k == r.size - b.size
<1>4. PICK hh \in Files :
        /\ Alike(hh, h)
        /\ Leads(Code(words, m, base, flag), At(Rx(b, base), h, tr), k,
                 IF link THEN At(Rx(r, base), hh, Append(tr, to)) ELSE At(to, hh, tr))
  BY <1>2, <1>3 DEF Branches
<1>5. Alike(g, hh)
  BY <1>3, <1>4 DEF Alike
<1>6. k \in 0 .. k
  <2>1. b.size \in Nat /\ r.size \in Nat /\ b.size <= r.size
    BY <1>2, <1>3 DEF Branches, Continues, Buffer, Shaped
  <2> QED BY <2>1
<1> HIDE DEF k, to
<1>7. CASE i.op = "bl"
  <2>1. Effect(i, literal, At(pc, g, tr), flag) = At(Plus(pc, 4), g, Append(tr, to))
    BY <1>7, EffectIs DEF to
  <2>2. Onward(i, pc, Plus(pc, 4), Rx(r, base), Rx(r, base))
    BY <1>7 DEF Onward
  <2>3. Leads(Code(words, m, base, flag), At(Rx(b, base), h, tr), k, At(Rx(r, base), hh, Append(tr, to)))
    BY <1>4, <1>7
  <2> QED BY <1>5, <1>6, <2>1, <2>2, <2>3 DEF k, Follows
<1>8. CASE i.op = "b"
  <2>1. Effect(i, literal, At(pc, g, tr), flag) = At(to, g, tr)
    BY <1>8, EffectIs DEF to
  <2>2. Onward(i, pc, to, to, Rx(r, base))
    BY <1>8 DEF Onward, Target, Unconditional, Conditional, to
  <2>3. Leads(Code(words, m, base, flag), At(Rx(b, base), h, tr), k, At(to, hh, tr))
    BY <1>4, <1>8
  <2> QED BY <1>5, <1>6, <2>1, <2>2, <2>3 DEF k, Follows
<1> QED BY <1>7, <1>8 DEF Unconditional

-----------------------------------------------------------------------------
OppositeAux(i) == IF i.op # "bcond" THEN i.aux ELSE IF i.aux % 2 = 0 THEN i.aux + 1 ELSE i.aux - 1

(* A few words ahead. *)
Ahead(pc, to) == \E j \in 0 .. 5 : to = pc + 4 * j /\ pc + 4 * j < Modulus

(* The branch around a branch: what it tests and where it goes. *)
LEMMA AroundIs ==
  ASSUME NEW i, i.op \in Conditional, NEW pc \in Address, pc % 4 = 0, NEW to, Ahead(pc, to),
         6 <= 2^(CondBits - 1),
         NEW wide, NEW o, o = AssembleRelative(Opposite(i.op), i.rd, wide, OppositeAux(i), pc, to), o # Refused
  PROVE  /\ o.op = Opposite(i.op) /\ o.rd = i.rd /\ o.wide = wide /\ o.aux = OppositeAux(i)
         /\ o.op \in Conditional /\ CondAddr(o, pc) = to
<1> DEFINE op == Opposite(i.op)
           w == IF op \in {"tbz", "tbnz"} THEN TestBits ELSE CondBits
           aux == OppositeAux(i)
<1>0. PICK j \in 0 .. 5 : to = pc + 4 * j /\ pc + 4 * j < Modulus
  BY DEF Ahead
<1>1. op \in Conditional
  BY DEF Opposite, Conditional
<1>2. /\ w \in {CondBits, TestBits} /\ (op \in {"tbz", "tbnz"} => w = TestBits)
      /\ (op \notin {"tbz", "tbnz"} => w = CondBits)
  OBVIOUS
<1>3. j \in Nat /\ j < 2^(w - 1)
  <2>1. 2^(CondBits - 1) \in Nat /\ 2^(TestBits - 1) \in Nat /\ 6 <= 2^(TestBits - 1)
    BY WidthIs, ContentsAssumption
  <2>2. w = CondBits \/ w = TestBits
    OBVIOUS
  <2> HIDE DEF w
  <2> QED BY <2>1, <2>2
<1> HIDE DEF op, w, aux
<1>4. o = AssembleRelative(op, i.rd, wide, aux, pc, pc + 4 * j)
  BY <1>0 DEF op, aux
<1>5. /\ o.op = op /\ o.rd = i.rd /\ o.wide = wide /\ o.aux = aux
      /\ Plus(pc, 4 * SignExtend(o.imm, w)) = pc + 4 * j
  <2> DEFINE x == AssembleRelative(op, i.rd, wide, aux, pc, pc + 4 * j)
  <2>1. x # Refused
    BY <1>4
  <2>2. /\ x.op = op /\ x.rd = i.rd /\ x.wide = wide /\ x.aux = aux
        /\ Plus(pc, 4 * SignExtend(x.imm, w)) = pc + 4 * j
    BY <1>0, <1>2, <1>3, <2>1, AheadIs
  <2> HIDE DEF x
  <2>3. o = x
    BY <1>4 DEF x
  <2> QED BY <2>2, <2>3
<1>6. CondAddr(o, pc) = to
  <2>1. CASE op \in {"tbz", "tbnz"}
    BY <1>0, <1>2, <1>5, <2>1 DEF CondAddr, TbzAddr
  <2>2. CASE op \notin {"tbz", "tbnz"}
    BY <1>0, <1>2, <1>5, <2>2 DEF CondAddr, RelativeAddr
  <2> QED BY <2>1, <2>2
<1> QED BY <1>1, <1>5, <1>6 DEF op, aux

(* What RelocateConditional adds to a buffer: the branch around, and then  *)
(* what leads to the target.                                               *)
LEMMA AroundAdded ==
  ASSUME NEW n, NEW base, Placed(n, base), n <= 2^(CondBits - 1), NEW b, Buffer(b, n),
         NEW i, NEW to \in Address, to % 4 = 0, NEW r, r = RelocateConditional(b, base, i, to)
  PROVE  /\ Continues(r, b, n)
         /\ r.ok =>
              \E done, held :
                /\ Branches(done, held, n, base, to, FALSE)
                /\ done.ok /\ (Safe(r) => Safe(done))
                /\ held.size = b.size + 1 /\ b.size \in 0 .. n - 1 /\ r.size - b.size \in 1 .. 5 /\ r.size <= n
                /\ done.size = r.size /\ Rx(done, base) = Rx(r, base)
                /\ r.words[b.size] # Refused
                /\ r.words[b.size] = AssembleRelative(Opposite(i.op), i.rd, TRUE, OppositeAux(i),
                                                      Rx(b, base), Rx(r, base))
                /\ \A words, m : Carries(words, m, base, r, b.size) =>
                     Carries(words, m, base, done, held.size)
<1> DEFINE held == Emit(b, Zero)
           done == EmitBranch(held, base, to, FALSE, TRUE)
           over == AssembleRelative(Opposite(i.op), i.rd, TRUE, OppositeAux(i), Rx(b, base), Rx(done, base))
<1>1. n \in Nat
  BY DEF Placed
<1>2. /\ Continues(held, b, n) /\ Buffer(held, n) /\ b.size \in Nat
      /\ held.ok => b.size \in 0 .. n - 1 /\ held.size = b.size + 1
  <2>1. Continues(held, b, n) /\ (held.ok => b.size \in 0 .. n - 1 /\ held.size = b.size + 1)
    BY <1>1, EmitIs
  <2> HIDE DEF held
  <2> QED BY <2>1 DEF Continues, Buffer, Shaped
<1>3. r = IF done.ok /\ over # Refused THEN [done EXCEPT !.words[b.size] = over]
                                      ELSE [done EXCEPT !.ok = FALSE]
  BY DEF RelocateConditional, OppositeAux
<1> HIDE DEF held, over
<1>4. Branches(done, held, n, base, to, FALSE)
  <2> DEFINE no == FALSE
             yes == TRUE
  <2>1. no \in BOOLEAN /\ yes \in BOOLEAN
    OBVIOUS
  <2> HIDE DEF no, yes
  <2>2. Branches(EmitBranch(held, base, to, no, yes), held, n, base, to, no)
    BY <1>2, <2>1, BranchBranches
  <2> QED BY <2>2 DEF no, yes
<1>5. Takes(done, held, n, 4)
  BY <1>1, <1>2, BranchTakes
<1> HIDE DEF done
<1>6. Continues(done, held, n) /\ Buffer(done, n)
  BY <1>4 DEF Branches, Continues
<1>7. Takes(r, b, n, 5)
  BY <1>1, ConditionalTakes
<1>8. Buffer(r, n)
  BY <1>7 DEF Takes
<1>9. CASE done.ok /\ over # Refused
  <2>1. r = [words |-> [done.words EXCEPT ![b.size] = over], size |-> done.size,
             cap |-> done.cap, lits |-> done.lits, ok |-> done.ok]
    BY <1>3, <1>6, <1>9 DEF Buffer, Shaped
  <2>2. held.ok /\ held.size <= done.size /\ done.cap <= held.cap /\ Left(done) >= Left(held) - 4
    BY <1>5, <1>6, <1>9 DEF Takes, Continues
  <2>3. b.size \in 0 .. n - 1 /\ held.size = b.size + 1
    BY <1>2, <2>2
  <2>4. /\ r.size = done.size /\ r.cap = done.cap /\ r.lits = done.lits /\ r.ok
        /\ r.words[b.size] = over /\ \A j \in 0 .. n - 1 : j # b.size => r.words[j] = done.words[j]
    <3>1. done.words = [j \in 0 .. n - 1 |-> done.words[j]]
      BY <1>6 DEF Buffer, Shaped
    <3>2. r.words = [done.words EXCEPT ![b.size] = over]
      BY <2>1
    <3>3. r.size = done.size /\ r.cap = done.cap /\ r.lits = done.lits /\ r.ok
      BY <1>9, <2>1
    <3> QED BY <2>3, <3>1, <3>2, <3>3
  <2>5. r.size - b.size \in 1 .. 5 /\ r.size <= n /\ r.size \in Nat
    <3>1. held.cap \in Nat /\ held.size \in Nat /\ done.cap \in Nat /\ done.size \in Nat /\ done.size <= n
      BY <1>1, <1>2, <1>6 DEF Buffer, Shaped
    <3>2. done.size <= held.size + 4
      BY <2>2, <3>1 DEF Left
    <3> QED BY <1>2, <2>2, <2>3, <2>4, <3>1, <3>2
  <2>6. Continues(r, b, n)
    <3>1. Continues(done, b, n)
      BY <1>1, <1>2, <1>6, ContinuesBoth
    <3>2. /\ b.ok /\ b.size <= done.size /\ done.cap <= b.cap /\ Left(done) <= Left(b) /\ b.lits \subseteq done.lits
          /\ \A j \in 0 .. b.size - 1 : done.words[j] = b.words[j]
      BY <1>9, <3>1 DEF Continues
    <3>3. \A j \in 0 .. b.size - 1 : j \in 0 .. n - 1 /\ j # b.size
      BY <1>1, <2>3
    <3>4. \A j \in 0 .. b.size - 1 : r.words[j] = b.words[j]
      BY <2>4, <3>2, <3>3
    <3>5. Left(r) = Left(done)
      BY <2>4 DEF Left
    <3> QED BY <1>8, <2>4, <3>2, <3>4, <3>5 DEF Continues
  <2>7. Safe(r) => Safe(done)
    BY <2>4 DEF Safe, Left
  <2>8. Rx(done, base) = Rx(r, base)
    BY <2>4 DEF Rx
  <2>9. ASSUME NEW words, NEW m, Carries(words, m, base, r, b.size)
        PROVE  Carries(words, m, base, done, held.size)
    <3>1. \A j \in held.size .. done.size - 1 : j \in b.size .. r.size - 1 /\ j \in 0 .. n - 1 /\ j # b.size
      BY <1>1, <2>3, <2>4, <2>5
    <3>2. \A j \in held.size .. done.size - 1 : words[j] = done.words[j]
      <4>1. \A j \in b.size .. r.size - 1 : words[j] = r.words[j]
        BY <2>9 DEF Carries
      <4> QED BY <2>4, <3>1, <4>1
    <3> QED BY <2>4, <2>9, <3>2 DEF Carries
  <2>10. r.words[b.size] # Refused
         /\ r.words[b.size] = AssembleRelative(Opposite(i.op), i.rd, TRUE, OppositeAux(i), Rx(b, base), Rx(r, base))
    BY <1>9, <2>4, <2>8 DEF over
  <2> QED BY <1>4, <1>9, <2>3, <2>4, <2>5, <2>6, <2>7, <2>8, <2>9, <2>10
<1>10. CASE ~(done.ok /\ over # Refused)
  <2>1. r = [words |-> done.words, size |-> done.size, cap |-> done.cap, lits |-> done.lits, ok |-> FALSE]
    BY <1>3, <1>6, <1>10 DEF Buffer, Shaped
  <2>2. ~r.ok
    BY <2>1
  <2> QED BY <1>8, <2>2 DEF Continues
<1> QED BY <1>9, <1>10

-----------------------------------------------------------------------------
(* A conditional branch goes where it went, or on.                         *)
LEMMA ConditionalMirrors ==
  ASSUME NEW n, NEW base, Placed(n, base), n <= 2^(CondBits - 1), 6 <= n, NEW b, Buffer(b, n),
         NEW i \in Originals, i.op \in Conditional, ComparesWide(i), ComparesKept(i),
         NEW pc \in Address, pc % 4 = 0
  PROVE  Mirrors(RelocateConditional(b, base, i, CondAddr(i, pc)), b, n, base, i, pc)
<1> DEFINE to == CondAddr(i, pc)
           r == RelocateConditional(b, base, i, to)
<1> SUFFICES Mirrors(r, b, n, base, i, pc)
  OBVIOUS
<1>1. to \in Address /\ to % 4 = 0
  BY TargetsAre
<1> HIDE DEF to
<1>2. /\ Continues(r, b, n)
      /\ r.ok =>
           \E done, held :
             /\ Branches(done, held, n, base, to, FALSE)
             /\ done.ok /\ (Safe(r) => Safe(done))
             /\ held.size = b.size + 1 /\ b.size \in 0 .. n - 1 /\ r.size - b.size \in 1 .. 5 /\ r.size <= n
             /\ done.size = r.size /\ Rx(done, base) = Rx(r, base)
             /\ r.words[b.size] # Refused
             /\ r.words[b.size] = AssembleRelative(Opposite(i.op), i.rd, TRUE, OppositeAux(i),
                                                   Rx(b, base), Rx(r, base))
             /\ \A words, m : Carries(words, m, base, r, b.size) =>
                  Carries(words, m, base, done, held.size)
  BY <1>1, AroundAdded
<1> HIDE DEF r
<1>3. SUFFICES ASSUME r.ok, Safe(r), NEW words, NEW m, NEW tr, NEW literal, NEW flag \in BOOLEAN,
                      NEW g \in Files, NEW h \in Files,
                      Carries(words, m, base, r, b.size), Alike(g, h)
               PROVE  Follows(r, b, base, i, pc, words, m, tr, literal, flag, g, h)
  <2>1. Continues(r, b, n)
    BY <1>2
  <2> QED BY <2>1 DEF Mirrors
<1>4. PICK done, held :
        /\ Branches(done, held, n, base, to, FALSE)
        /\ done.ok /\ Safe(done)
        /\ held.size = b.size + 1 /\ b.size \in 0 .. n - 1 /\ r.size - b.size \in 1 .. 5 /\ r.size <= n
        /\ done.size = r.size /\ Rx(done, base) = Rx(r, base)
        /\ r.words[b.size] # Refused
        /\ r.words[b.size] = AssembleRelative(Opposite(i.op), i.rd, TRUE, OppositeAux(i),
                                              Rx(b, base), Rx(r, base))
        /\ Carries(words, m, base, done, held.size)
  BY <1>2, <1>3
<1> DEFINE o == r.words[b.size]
           j == r.size - b.size
           here == base + 4 * b.size
           c == Code(words, m, base, flag)
           s == At(here, h, tr)
<1>5. n \in Nat /\ base \in Nat /\ base + 4 * n < Modulus /\ Modulus \in Nat /\ r.size \in Nat
  <2>1. r.size \in Nat
    BY <1>2 DEF Continues, Buffer, Shaped
  <2> QED BY <2>1, ModulusIs DEF Placed, Address
<1>6. Rx(b, base) = here /\ Rx(r, base) = here + 4 * j /\ here + 4 * j < Modulus /\ j \in 0 .. 5
  <2>1. Rx(b, base) = here
    BY DEF Rx
  <2>2. Rx(r, base) = base + 4 * r.size
    BY DEF Rx
  <2>3. base + 4 * r.size = here + 4 * j /\ here + 4 * j < Modulus /\ j \in 0 .. 5
    BY <1>4, <1>5
  <2> HIDE DEF here, j
  <2> QED BY <2>1, <2>2, <2>3
<1>7. /\ Within(c, s) /\ Turn(c, s) = Effect(words[b.size], Literals(words, m, base), s, flag)
      /\ Plus(here, 4) = base + 4 * (b.size + 1)
      /\ here \in Address /\ here % 4 = 0
  <2>1. Placed(m, base) /\ b.size \in 0 .. m - 1
    BY <1>3, <1>4, <1>5 DEF Carries, Placed
  <2> QED BY <2>1, TurnIs
<1>8. words[b.size] = o /\ Plus(here, 4) = Rx(held, base)
  <2>1. b.size \in b.size .. r.size - 1
    <3>1. b.size \in 0 .. n - 1 /\ r.size - b.size \in 1 .. 5
      BY <1>4, Zenon
    <3>2. n \in Nat /\ r.size \in Nat
      BY <1>5, Zenon
    <3> HIDE DEF o, j, here, c, s
    <3> QED BY <3>1, <3>2
  <2>2. words[b.size] = o
    BY <1>3, <2>1 DEF Carries
  <2> QED BY <1>4, <1>7, <2>2 DEF Rx
<1>9. /\ o.op = Opposite(i.op) /\ o.rd = i.rd /\ o.wide /\ o.aux = OppositeAux(i)
      /\ o.op \in Conditional /\ CondAddr(o, here) = here + 4 * j
  <2>1. 6 <= 2^(CondBits - 1)
    BY <1>5, WidthIs
  <2> DEFINE yes == TRUE
             there == Rx(r, base)
             aux == OppositeAux(i)
  <2>2. o = AssembleRelative(Opposite(i.op), i.rd, yes, aux, here, there) /\ o # Refused
    BY <1>4, <1>6
  <2>3. there = here + 4 * j /\ here \in Address /\ here % 4 = 0 /\ Ahead(here, there)
    BY <1>6, <1>7 DEF Ahead
  <2> HIDE DEF o, j, here, there, yes, aux
  <2>4. /\ o.op = Opposite(i.op) /\ o.rd = i.rd /\ o.wide = yes /\ o.aux = aux
        /\ o.op \in Conditional /\ CondAddr(o, here) = there
    BY <2>1, <2>2, <2>3, AroundIs DEF aux
  <2>5. o.wide
    BY <2>4 DEF yes
  <2> QED BY <2>3, <2>4, <2>5 DEF aux
<1>10. Tested(o, h, flag) <=> ~Tested(i, g, flag)
  <2> HIDE DEF o
  <2>1. o.aux = IF i.op # "bcond" THEN i.aux ELSE IF i.aux % 2 = 0 THEN i.aux + 1 ELSE i.aux - 1
    BY <1>9 DEF OppositeAux
  <2> QED BY <1>3, <1>9, <2>1, TestedOpposite
<1>11. Leads(c, s, 1, IF Tested(o, h, flag) THEN At(Rx(r, base), h, tr) ELSE At(Rx(held, base), h, tr))
  <2> DEFINE z == IF Tested(o, h, flag) THEN At(Rx(r, base), h, tr) ELSE At(Rx(held, base), h, tr)
             literals == Literals(words, m, base)
  <2> HIDE DEF o, c, here, j, literals
  <2>1. Effect(o, literals, s, flag)
          = IF Tested(o, h, flag) THEN At(CondAddr(o, here), h, tr) ELSE At(Plus(here, 4), h, tr)
    BY <1>9, EffectIs
  <2>2. Turn(c, s) = z
    BY <1>6, <1>7, <1>8, <1>9, <2>1 DEF literals
  <2> HIDE DEF z, s
  <2>3. Leads(c, s, 1, Turn(c, s))
    BY <1>7, LeadsOn
  <2> QED BY <2>2, <2>3 DEF z
<1>12. Effect(i, literal, At(pc, g, tr), flag) = IF Tested(i, g, flag) THEN At(to, g, tr) ELSE At(Plus(pc, 4), g, tr)
  BY EffectIs DEF to
<1>13. s = At(Rx(b, base), h, tr)
  BY <1>6
<1> HIDE DEF o, j, here, c, s
<1>14. CASE Tested(i, g, flag)
  <2>1. PICK hh \in Files :
          /\ Alike(hh, h)
          /\ Leads(c, At(Rx(held, base), h, tr), done.size - held.size, At(to, hh, tr))
    BY <1>3, <1>4 DEF Branches, c
  <2>2. Leads(c, s, 1, At(Rx(held, base), h, tr))
    BY <1>10, <1>11, <1>14
  <2>3. done.size - held.size \in Nat /\ 1 + (done.size - held.size) \in 0 .. r.size - b.size
    BY <1>4, <1>5
  <2>4. Leads(c, s, 1 + (done.size - held.size), At(to, hh, tr))
    BY <2>1, <2>2, <2>3, LeadsFurther
  <2>5. Alike(g, hh)
    BY <1>3, <2>1 DEF Alike
  <2>6. Onward(i, pc, to, to, Rx(r, base))
    <3>1. i.op \notin Unconditional
      BY DEF Conditional, Unconditional
    <3> QED BY <3>1 DEF Onward, Target, to
  <2>7. Effect(i, literal, At(pc, g, tr), flag) = At(to, g, tr)
    BY <1>12, <1>14
  <2> QED BY <1>13, <2>3, <2>4, <2>5, <2>6, <2>7 DEF Follows, c
<1>15. CASE ~Tested(i, g, flag)
  <2>1. Leads(c, s, 1, At(Rx(r, base), h, tr))
    BY <1>10, <1>11, <1>15
  <2>2. 1 \in 0 .. r.size - b.size
    BY <1>4
  <2>3. Onward(i, pc, Plus(pc, 4), Rx(r, base), Rx(r, base))
    BY DEF Onward, Conditional
  <2>4. Effect(i, literal, At(pc, g, tr), flag) = At(Plus(pc, 4), g, tr)
    BY <1>12, <1>15
  <2> QED BY <1>3, <1>13, <2>1, <2>2, <2>3, <2>4 DEF Follows, c
<1> QED BY <1>14, <1>15

LEMMA RelocatedMirrors ==
  ASSUME NEW n, NEW base, Placed(n, base), n <= 2^(CondBits - 1), 6 <= n, NEW b, Buffer(b, n),
         NEW i \in Originals, i.op # "ldr", ComparesWide(i), ComparesKept(i),
         NEW pc \in Address, pc % 4 = 0
  PROVE  Mirrors(Relocated(b, base, i, pc), b, n, base, i, pc)
<1>1. CASE i.op \in {"adr", "adrp"}
  <2> DEFINE r == EmitMovImmediate64(b, base, i.rd, AdrAddr(i, pc), TRUE)
  <2>1. Relocated(b, base, i, pc) = r
    BY <1>1 DEF Relocated, Unconditional, Conditional
  <2>2. Mirrors(r, b, n, base, i, pc)
    BY <1>1, AdrMirrors
  <2> HIDE DEF r
  <2> QED BY <2>1, <2>2
<1>2. CASE i.op \in Unconditional
  <2> DEFINE r == EmitBranch(b, base, BBLAddr(i, pc), i.op = "bl", TRUE)
  <2>1. Relocated(b, base, i, pc) = r
    BY <1>2 DEF Relocated, Unconditional, Conditional
  <2>2. Mirrors(r, b, n, base, i, pc)
    BY <1>2, BranchMirrors
  <2> HIDE DEF r
  <2> QED BY <2>1, <2>2
<1>3. CASE i.op \in Conditional
  <2> DEFINE r == RelocateConditional(b, base, i, CondAddr(i, pc))
  <2>1. Relocated(b, base, i, pc) = r
    BY <1>3 DEF Relocated, Unconditional, Conditional
  <2>2. Mirrors(r, b, n, base, i, pc)
    BY <1>3, ConditionalMirrors
  <2> HIDE DEF r
  <2> QED BY <2>1, <2>2
<1>4. CASE i.op = "plain"
  <2> DEFINE r == Emit(b, i)
  <2>1. Relocated(b, base, i, pc) = r
    BY <1>4 DEF Relocated, Unconditional, Conditional
  <2>2. Mirrors(r, b, n, base, i, pc)
    BY <1>4, PlainMirrors
  <2> HIDE DEF r
  <2> QED BY <2>1, <2>2
<1>5. i.op \in {"plain", "ldr", "adr", "adrp"} \union Unconditional \union Conditional
  BY BackupAssumption
<1> QED BY <1>1, <1>2, <1>3, <1>4, <1>5

-----------------------------------------------------------------------------
(* Run from the same registers, what was displaced so far, o, and the      *)
(* backup b of it have come to where they agree but for IP0: both behind   *)
(* what there is, if they are open, or both where control has left them.   *)
Copied(words, o) == \A k \in 1 .. Len(o) : words[k - 1] = o[k]
Out(pl, n, p) == p \in Address /\ p \notin Words(pl.at, n) /\ p \notin Words(pl.rx, Capacity)
Met(pl, n, o, b, open, p, q) ==
  \/ open /\ p = pl.at + 4 * Len(o) /\ q = Rx(b, pl.rx)
  \/ Len(o) = n /\ Out(pl, n, p) /\ q = p

Together(pl, n, o, b, open, words, copy, flag, regs) ==
  \E j \in 0 .. Len(o), k \in 0 .. b.size, g \in Files, h \in Files : \E p, q, t :
    /\ Alike(g, h) /\ Met(pl, n, o, b, open, p, q)
    /\ Leads(Code(words, n, pl.at, flag), At(pl.at, regs, <<>>), j, At(p, g, t))
    /\ Leads(Code(copy, Capacity, pl.rx, flag), At(pl.rx, regs, <<>>), k, At(q, h, t))

Tracks(pl, n, o, b, open) ==
  \A words, copy : \A flag \in BOOLEAN, regs \in Files :
    Copied(words, o) /\ Carries(copy, Capacity, pl.rx, b, 0) =>
      Together(pl, n, o, b, open, words, copy, flag, regs)

LEMMA TracksStart ==
  ASSUME NEW pl \in Places, NEW n, NEW open, open
  PROVE  Tracks(pl, n, <<>>, Empty(Capacity), open)
<1> DEFINE b == Empty(Capacity)
           o == <<>>
<1>1. b.size = 0 /\ Len(o) = 0
  BY DEF Empty
<1>2. pl.at \in Nat /\ pl.rx \in Nat
  BY PlacesAre, ModulusIs DEF Address
<1>3. pl.at + 4 * Len(o) = pl.at /\ Rx(b, pl.rx) = pl.rx
  BY <1>1, <1>2 DEF Rx
<1> HIDE DEF b, o
<1>4. SUFFICES ASSUME NEW words, NEW copy, NEW flag, NEW regs \in Files
               PROVE  Together(pl, n, o, b, open, words, copy, flag, regs)
  BY DEF Tracks, b, o
<1>5. Alike(regs, regs) /\ Met(pl, n, o, b, open, pl.at, pl.rx)
  BY <1>3 DEF Alike, Met
<1>6. 0 \in 0 .. Len(o) /\ 0 \in 0 .. b.size
  BY <1>1
<1> QED BY <1>5, <1>6, LeadsNowhere DEF Together

(* Where the displaced words are. *)
LEMMA WindowIs ==
  ASSUME NEW pl \in Places, NEW n \in 0 .. N
  PROVE  /\ Placed(n, pl.at) /\ n \in Nat /\ pl.at \in Nat /\ pl.at + 4 * n < Modulus
         /\ pl.at + 4 * n \in Address /\ (pl.at + 4 * n) % 4 = 0
         /\ Out(pl, n, pl.at + 4 * n)
         /\ \A k \in 0 .. n - 1 : pl.at + 4 * k \in Words(pl.at, N)
<1>1. /\ N \in Nat /\ Modulus \in Nat /\ pl.at \in Nat /\ pl.at % 4 = 0 /\ pl.at + 4 * N < Modulus
      /\ Words(pl.at, N + 1) \intersect Words(pl.rx, Capacity) = {}
  <2>1. Placed(N, pl.at) /\ pl.at \in Address
    BY PlacesAre
  <2>2. N \in Nat /\ Words(pl.at, N + 1) \intersect Words(pl.rx, Capacity) = {}
    BY BackupAssumption, LayoutAssumption
  <2> QED BY <2>1, <2>2, ModulusIs DEF Placed, Address
<1>2. pl.at + 4 * n < Modulus /\ pl.at + 4 * n \in Nat /\ (pl.at + 4 * n) % 4 = 0
  BY <1>1
<1>3. pl.at + 4 * n \notin Words(pl.at, n)
  BY <1>1 DEF Words
<1>4. pl.at + 4 * n \in Words(pl.at, N + 1)
  BY <1>1 DEF Words
<1>5. \A k \in 0 .. n - 1 : pl.at + 4 * k \in Words(pl.at, N)
  <2>1. \A k \in 0 .. n - 1 : k \in 0 .. N - 1
    BY <1>1
  <2> QED BY <2>1 DEF Words
<1>6. Placed(n, pl.at) /\ pl.at + 4 * n \in Address
  BY <1>1, <1>2 DEF Placed, Address
<1> QED BY <1>1, <1>2, <1>3, <1>4, <1>5, <1>6 DEF Out

LEMMA TurnsTo ==
  ASSUME NEW words, NEW n, NEW base, NEW flag, Placed(n, base), NEW j \in 0 .. n - 1, NEW regs, NEW tr,
         NEW c, c = Code(words, n, base, flag), NEW s, s = At(base + 4 * j, regs, tr)
  PROVE  Leads(c, s, 1, Effect(words[j], Literals(words, n, base), s, flag))
<1>1. Within(c, s) /\ Turn(c, s) = Effect(words[j], Literals(words, n, base), s, flag)
  BY TurnIs
<1> QED BY <1>1, LeadsOn

LEMMA TracksOn ==
  ASSUME NEW pl \in Places, NEW n \in 0 .. N, NEW o \in Seq(Originals), Len(o) < n,
         NEW b, Buffer(b, Capacity), NEW open, Tracks(pl, n, o, b, open), Capacity >= 6,
         NEW i \in Originals, i.op # "ldr", ComparesWide(i), ComparesKept(i),
         NEW pc, pc = pl.at + 4 * Len(o),
         i.op \in Conditional \union {"b"} => Len(o) + 1 = n /\ Target(i, pc) \notin Words(pl.at, n),
         NEW r, r = Relocated(b, pl.rx, i, pc), r.ok, Safe(r),
         NEW wide, wide <=> open /\ i.op # "b"
  PROVE  Tracks(pl, n, Append(o, i), r, wide)
<1> DEFINE len == Len(o)
           oo == Append(o, i)
<1>1. len \in 0 .. n - 1 /\ len \in Nat /\ Len(oo) = len + 1 /\ oo[len + 1] = i /\ \A k \in 1 .. len : oo[k] = o[k]
  OBVIOUS
<1>2. /\ Capacity \in Nat /\ Placed(Capacity, pl.rx) /\ Placed(n, pl.at) /\ n \in Nat
      /\ Capacity <= 2^(CondBits - 1)
  BY BackupAssumption, ContentsAssumption, PlacesAre, WindowIs
<1>3. pc \in Address /\ pc % 4 = 0 /\ Plus(pc, 4) = pl.at + 4 * Len(oo)
  <2> HIDE DEF oo, len
  <2>1. /\ Plus(pl.at + 4 * len, 4) = pl.at + 4 * (len + 1)
        /\ pl.at + 4 * len \in Address /\ (pl.at + 4 * len) % 4 = 0
    BY <1>1, <1>2, NextIs
  <2> QED BY <1>1, <2>1 DEF len
<1>4. Mirrors(r, b, Capacity, pl.rx, i, pc)
  BY <1>2, <1>3, RelocatedMirrors
<1>5. SUFFICES ASSUME NEW words, NEW copy, NEW flag \in BOOLEAN, NEW regs \in Files,
                      Copied(words, oo), Carries(copy, Capacity, pl.rx, r, 0)
               PROVE  Together(pl, n, oo, r, wide, words, copy, flag, regs)
  BY DEF Tracks
<1> HIDE DEF oo
<1>6. /\ Carries(copy, Capacity, pl.rx, b, 0) /\ Carries(copy, Capacity, pl.rx, r, b.size)
      /\ b.size \in Nat /\ r.size \in Nat /\ b.size <= r.size
  <2>1. Continues(r, b, Capacity)
    BY <1>4 DEF Mirrors
  <2>2. b.size \in Nat /\ r.size \in Nat /\ b.size <= r.size
    BY <2>1 DEF Continues, Buffer, Shaped
  <2> QED BY <1>5, <2>1, <2>2, CarriesLess
<1>7. Copied(words, o) /\ words[len] = i
  <2>1. \A k \in 1 .. len + 1 : words[k - 1] = oo[k]
    BY <1>1, <1>5 DEF Copied
  <2>2. words[(len + 1) - 1] = oo[len + 1]
    BY <1>1, <2>1
  <2>3. (len + 1) - 1 = len
    BY <1>1
  <2>4. \A k \in 1 .. len : words[k - 1] = o[k]
    BY <1>1, <2>1
  <2> QED BY <1>1, <2>2, <2>3, <2>4 DEF Copied
<1> DEFINE c == Code(words, n, pl.at, flag)
           cc == Code(copy, Capacity, pl.rx, flag)
           literals == Literals(words, n, pl.at)
<1>8a. PICK j \in 0 .. len, k \in 0 .. b.size, g \in Files, h \in Files : \E p, q, t :
         /\ Alike(g, h) /\ Met(pl, n, o, b, open, p, q)
         /\ Leads(c, At(pl.at, regs, <<>>), j, At(p, g, t))
         /\ Leads(cc, At(pl.rx, regs, <<>>), k, At(q, h, t))
  <2>1. Together(pl, n, o, b, open, words, copy, flag, regs)
    BY <1>5, <1>6, <1>7 DEF Tracks
  <2> QED BY <2>1 DEF Together
<1>8. PICK p, q, t :
        /\ Alike(g, h) /\ Met(pl, n, o, b, open, p, q)
        /\ Leads(c, At(pl.at, regs, <<>>), j, At(p, g, t))
        /\ Leads(cc, At(pl.rx, regs, <<>>), k, At(q, h, t))
  BY <1>8a
<1>9. open /\ p = pc /\ q = Rx(b, pl.rx)
  BY <1>1, <1>8 DEF Met
<1> DEFINE s == At(pc, g, t)
<1>10. Leads(c, s, 1, Effect(i, literals, s, flag))
  <2>1. s = At(pl.at + 4 * len, g, t)
    OBVIOUS
  <2>2. len \in 0 .. n - 1
    BY <1>1
  <2> HIDE DEF c, s, len
  <2>3. Leads(c, s, 1, Effect(words[len], literals, s, flag))
    BY <1>2, <2>1, <2>2, TurnsTo DEF c
  <2> HIDE DEF literals
  <2> QED BY <1>7, <2>3
<1>11a. PICK kk \in 0 .. r.size - b.size, gg \in Files, hh \in Files : \E x, y, z :
          /\ Alike(gg, hh) /\ Onward(i, pc, x, y, Rx(r, pl.rx))
          /\ Effect(i, literals, s, flag) = At(x, gg, z)
          /\ Leads(cc, At(Rx(b, pl.rx), h, t), kk, At(y, hh, z))
  <2> HIDE DEF literals
  <2>1. Follows(r, b, pl.rx, i, pc, copy, Capacity, t, literals, flag, g, h)
    BY <1>4, <1>6, <1>8 DEF Mirrors
  <2> QED BY <2>1 DEF Follows
<1>11. PICK x, y, z :
         /\ Alike(gg, hh) /\ Onward(i, pc, x, y, Rx(r, pl.rx))
         /\ Effect(i, literals, s, flag) = At(x, gg, z)
         /\ Leads(cc, At(Rx(b, pl.rx), h, t), kk, At(y, hh, z))
  BY <1>11a
<1> HIDE DEF c, cc, literals, s, len
<1>12. /\ Leads(c, At(pl.at, regs, <<>>), j + 1, At(x, gg, z)) /\ j + 1 \in 0 .. Len(oo)
  <2>1. j + 1 \in 0 .. Len(oo) /\ j \in Nat
    BY <1>1
  <2>2. Leads(c, s, 1, At(x, gg, z))
    BY <1>10, <1>11
  <2>3. Leads(c, At(pl.at, regs, <<>>), j, s)
    BY <1>8, <1>9 DEF s
  <2> QED BY <2>1, <2>2, <2>3, LeadsFurther
<1>13. /\ Leads(cc, At(pl.rx, regs, <<>>), k + kk, At(y, hh, z)) /\ k + kk \in 0 .. r.size
  <2>1. k + kk \in 0 .. r.size /\ k \in Nat /\ kk \in Nat
    BY <1>6
  <2>2. Leads(cc, At(pl.rx, regs, <<>>), k, At(Rx(b, pl.rx), h, t))
    BY <1>8, <1>9
  <2> QED BY <1>11, <2>1, <2>2, LeadsFurther
<1>14. Met(pl, n, oo, r, wide, x, y)
  <2>1. CASE x = Plus(pc, 4) /\ y = Rx(r, pl.rx) /\ i.op # "b"
    BY <1>3, <1>9, <2>1 DEF Met
  <2>2. CASE x = y /\ x = Target(i, pc) /\ i.op \in Conditional \union {"b"}
    <3>1. Len(oo) = n /\ x \notin Words(pl.at, n)
      BY <1>1, <2>2 DEF len
    <3>2. x \in Address /\ x \notin Words(pl.rx, Capacity)
      <4>1. pc \in Words(pl.at, N)
        BY <1>1, WindowIs DEF len
      <4>2. CASE i.op = "b"
        <5>1. x = BBLAddr(i, pc)
          BY <2>2, <4>2 DEF Target, Unconditional, Conditional
        <5> QED BY <1>3, <4>1, <4>2, <5>1, TargetsAre, LayoutAssumption
      <4>3. CASE i.op \in Conditional
        <5>1. x = CondAddr(i, pc)
          BY <2>2, <4>3 DEF Target, Unconditional, Conditional
        <5> QED BY <1>3, <4>1, <4>3, <5>1, TargetsAre, LayoutAssumption
      <4> QED BY <2>2, <4>2, <4>3
    <3> QED BY <2>2, <3>1, <3>2 DEF Met, Out
  <2> QED BY <1>11, <2>1, <2>2 DEF Onward
<1> QED BY <1>11, <1>12, <1>13, <1>14 DEF Together, c, cc, oo

-----------------------------------------------------------------------------
(* A number of steps goes with a buffer that becomes longer. *)
LEMMA Prolonged ==
  ASSUME NEW x \in Nat, NEW y \in Nat, x <= y, NEW k \in 0 .. x
  PROVE  k \in 0 .. y /\ k + (y - x) \in 0 .. y /\ k \in Nat /\ y - x \in Nat
OBVIOUS

(* The branch back takes the backup to where the displaced words end.      *)
LEMMA TracksEnd ==
  ASSUME NEW pl \in Places, NEW n \in 0 .. N, NEW o \in Seq(Originals), Len(o) = n,
         NEW b, Buffer(b, Capacity), NEW open, Tracks(pl, n, o, b, open),
         NEW r, r = EmitBranch(b, pl.rx, pl.at + 4 * n, FALSE, TRUE), r.ok, Safe(r), NEW shut
  PROVE  Tracks(pl, n, o, r, shut)
<1> DEFINE to == pl.at + 4 * n
<1>1. /\ Capacity \in Nat /\ Placed(Capacity, pl.rx) /\ Capacity <= 2^(CondBits - 1)
      /\ to \in Address /\ to % 4 = 0 /\ Out(pl, n, to)
  BY BackupAssumption, ContentsAssumption, PlacesAre, WindowIs
<1> HIDE DEF to
<1>2. Branches(r, b, Capacity, pl.rx, to, FALSE)
  <2> DEFINE no == FALSE
             yes == TRUE
             x == EmitBranch(b, pl.rx, to, no, yes)
  <2>1. no \in BOOLEAN /\ yes \in BOOLEAN
    OBVIOUS
  <2>2. r = x
    BY DEF to
  <2> HIDE DEF no, yes
  <2>3. Branches(x, b, Capacity, pl.rx, to, no)
    BY <1>1, <2>1, BranchBranches
  <2> HIDE DEF x
  <2> QED BY <2>2, <2>3 DEF no
<1>3. SUFFICES ASSUME NEW words, NEW copy, NEW flag \in BOOLEAN, NEW regs \in Files,
                      Copied(words, o), Carries(copy, Capacity, pl.rx, r, 0)
               PROVE  Together(pl, n, o, r, shut, words, copy, flag, regs)
  BY DEF Tracks
<1>4. /\ Carries(copy, Capacity, pl.rx, b, 0) /\ Carries(copy, Capacity, pl.rx, r, b.size)
      /\ b.size \in Nat /\ r.size \in Nat /\ b.size <= r.size
  <2>1. Continues(r, b, Capacity)
    BY <1>2 DEF Branches
  <2>2. b.size \in Nat /\ r.size \in Nat /\ b.size <= r.size
    BY <2>1 DEF Continues, Buffer, Shaped
  <2> QED BY <1>3, <2>1, <2>2, CarriesLess
<1> DEFINE c == Code(words, n, pl.at, flag)
           cc == Code(copy, Capacity, pl.rx, flag)
<1>5a. PICK j \in 0 .. Len(o), k \in 0 .. b.size, g \in Files, h \in Files : \E p, q, t :
         /\ Alike(g, h) /\ Met(pl, n, o, b, open, p, q)
         /\ Leads(c, At(pl.at, regs, <<>>), j, At(p, g, t))
         /\ Leads(cc, At(pl.rx, regs, <<>>), k, At(q, h, t))
  <2>1. Together(pl, n, o, b, open, words, copy, flag, regs)
    BY <1>3, <1>4 DEF Tracks
  <2> QED BY <2>1 DEF Together
<1>5. PICK p, q, t :
        /\ Alike(g, h) /\ Met(pl, n, o, b, open, p, q)
        /\ Leads(c, At(pl.at, regs, <<>>), j, At(p, g, t))
        /\ Leads(cc, At(pl.rx, regs, <<>>), k, At(q, h, t))
  BY <1>5a
<1>6. PICK hh \in Files :
        /\ Alike(hh, h)
        /\ Leads(cc, At(Rx(b, pl.rx), h, t), r.size - b.size, At(to, hh, t))
  BY <1>2, <1>4 DEF Branches
<1> HIDE DEF c, cc
<1>7. CASE p = to /\ q = Rx(b, pl.rx)
  <2>1. k + (r.size - b.size) \in 0 .. r.size /\ k \in Nat /\ r.size - b.size \in Nat
    BY <1>4, <1>5, Prolonged, Zenon
  <2>2. Leads(cc, At(pl.rx, regs, <<>>), k + (r.size - b.size), At(to, hh, t))
    BY <1>5, <1>6, <1>7, <2>1, LeadsFurther
  <2>3. Alike(g, hh)
    BY <1>5, <1>6 DEF Alike
  <2>4. Met(pl, n, o, r, shut, to, to)
    BY <1>1 DEF Met
  <2> QED BY <1>5, <1>7, <2>1, <2>2, <2>3, <2>4 DEF Together, c, cc
<1>8. CASE Out(pl, n, p) /\ q = p
  <2>1. k \in 0 .. r.size
    BY <1>4, <1>5, Prolonged, Zenon
  <2>2. Met(pl, n, o, r, shut, p, q)
    BY <1>8 DEF Met
  <2> QED BY <1>5, <2>1, <2>2 DEF Together, c, cc
<1> QED BY <1>5, <1>7, <1>8 DEF Met, to

(* Run to the end, both look the same. *)
LEMMA TracksSame ==
  ASSUME NEW pl \in Places, NEW n \in 0 .. N, NEW o \in Seq(Originals), Len(o) = n,
         NEW b, Buffer(b, Capacity), Intact(b), NEW open, ~open, Tracks(pl, n, o, b, open),
         NEW regs \in Files, NEW flag \in BOOLEAN
  PROVE  Visible(Run(b.words, Capacity, pl.rx, At(pl.rx, regs, <<>>), flag))
           = Visible(Run([k \in 0 .. n - 1 |-> o[k + 1]], n, pl.at, At(pl.at, regs, <<>>), flag))
<1> DEFINE words == [k \in 0 .. n - 1 |-> o[k + 1]]
           copy == b.words
<1>1. /\ Capacity \in Nat /\ Placed(Capacity, pl.rx) /\ Placed(n, pl.at) /\ n \in Nat
  BY BackupAssumption, PlacesAre, WindowIs
<1>2. Copied(words, o)
  <2>1. \A k \in 1 .. Len(o) : k - 1 \in 0 .. n - 1 /\ (k - 1) + 1 = k
    BY <1>1
  <2> QED BY <2>1 DEF Copied
<1>3. Carries(copy, Capacity, pl.rx, b, 0) /\ b.size \in Nat /\ b.size <= Capacity
  <2>1. b.size \in Nat /\ b.size <= Capacity
    BY <1>1 DEF Buffer, Shaped
  <2>2. \A l \in b.lits : l.at \in 0 .. Capacity - 2
    BY <1>1 DEF Buffer, Behind
  <2> QED BY <1>1, <2>1, <2>2 DEF Carries, Intact
<1> HIDE DEF words, copy
<1> DEFINE c == Code(words, n, pl.at, flag)
           cc == Code(copy, Capacity, pl.rx, flag)
           s == At(pl.at, regs, <<>>)
           ss == At(pl.rx, regs, <<>>)
<1>4a. PICK j \in 0 .. Len(o), k \in 0 .. b.size, g \in Files, h \in Files : \E p, q, t :
         /\ Alike(g, h) /\ Met(pl, n, o, b, open, p, q)
         /\ Leads(c, s, j, At(p, g, t))
         /\ Leads(cc, ss, k, At(q, h, t))
  <2>1. Together(pl, n, o, b, open, words, copy, flag, regs)
    BY <1>2, <1>3 DEF Tracks
  <2> QED BY <2>1 DEF Together
<1>4. PICK p, q, t :
        /\ Alike(g, h) /\ Met(pl, n, o, b, open, p, q)
        /\ Leads(c, s, j, At(p, g, t))
        /\ Leads(cc, ss, k, At(q, h, t))
  BY <1>4a
<1>5. Out(pl, n, p) /\ q = p
  BY <1>4 DEF Met
<1>6. ~Inside(n, pl.at, At(p, g, t)) /\ ~Inside(Capacity, pl.rx, At(q, h, t))
  <2>1. p \in Int
    BY <1>5, ModulusIs DEF Out, Address
  <2> QED BY <1>1, <1>5, <2>1, InsideIs DEF Out
<1> HIDE DEF s, ss
<1>7. Run(words, n, pl.at, s, flag) = At(p, g, t)
  <2>1. j \in 0 .. n + 1
    BY <1>1
  <2> QED BY <1>1, <1>4, <1>6, <2>1, RunIs
<1>8. Run(copy, Capacity, pl.rx, ss, flag) = At(p, h, t)
  <2>1. k \in 0 .. Capacity + 1
    BY <1>1, <1>3
  <2> QED BY <1>1, <1>4, <1>5, <1>6, <2>1, RunIs
<1>9. Visible(At(p, g, t)) = Visible(At(p, h, t))
  BY <1>4, LooksAlike
<1> QED BY <1>7, <1>8, <1>9 DEF words, copy, s, ss

-----------------------------------------------------------------------------
(* The inductive invariant of BackupRunsOriginal. *)
Mirrored ==
  /\ phase = "hook" => backup = Empty(Capacity) /\ ~skipReturn
  /\ phase = "copy" => Tracks(place, NumInstrs, orig, backup, ~skipReturn)
  /\ phase = "made" => Len(orig) = NumInstrs /\ Tracks(place, NumInstrs, orig, backup, FALSE)

LEMMA MirroredInit == Init => Mirrored
<1> SUFFICES ASSUME Init PROVE Mirrored
  OBVIOUS
<1>1. phase = "hook" /\ backup = Empty(Capacity) /\ ~skipReturn
  BY DEF Init
<1> QED BY <1>1 DEF Mirrored

LEMMA MirroredStep ==
  ASSUME Capacity >= 4 * N + 5
  PROVE  Filled /\ Roomy /\ Sited /\ Mirrored /\ [SuitedNext]_vars => Mirrored'
<1> SUFFICES ASSUME Filled, Roomy, Sited, Mirrored, [SuitedNext]_vars PROVE Mirrored'
  OBVIOUS
<1>1. /\ N \in Nat \ {0} /\ Capacity \in Nat /\ Capacity >= 6 /\ place \in Places
      /\ orig \in Seq(Originals) /\ Len(orig) \in Nat /\ NumInstrs \in 0 .. N
      /\ Buffer(backup, Capacity)
  <2>1. N \in Nat \ {0} /\ Capacity \in Nat
    BY BackupAssumption
  <2>2. Capacity >= 6
    <3>1. N >= 1 /\ N \in Nat
      BY <2>1
    <3> QED BY <2>1, <3>1
  <2>3. /\ place \in Places /\ orig \in Seq(Originals) /\ Buffer(branch, N) /\ Buffer(backup, Capacity)
    BY DEF Filled, Sited
  <2>4. branch.size \in 0 .. N
    BY <2>1, <2>3 DEF Buffer, Shaped
  <2>5. Len(orig) \in Nat
    BY <2>3
  <2> QED BY <2>1, <2>2, <2>3, <2>4, <2>5 DEF NumInstrs
<1>2. Roomy' /\ Filled'
  <2>1. SuitedNext => Next
    BY DEF SuitedNext, Next
  <2> QED BY <2>1, FilledStep, RoomyStep
<1>3. CASE MakeBranch
  <2>1. /\ phase = "hook" /\ phase' \in {"copy", "halted"}
        /\ UNCHANGED <<place, orig, backup, skipReturn>>
    BY <1>3 DEF MakeBranch
  <2>2. orig' = <<>> /\ backup' = Empty(Capacity) /\ ~skipReturn'
    BY <2>1 DEF Filled, Mirrored
  <2>3. Tracks(place', NumInstrs', <<>>, Empty(Capacity), ~skipReturn')
    BY <1>1, <2>1, <2>2, TracksStart
  <2> QED BY <2>1, <2>2, <2>3 DEF Mirrored
<1>4. ASSUME NEW i \in Originals, Suits(i), Relocate(i) PROVE Mirrored'
  <2> DEFINE pc == OrigAddr(Len(orig))
  <2>1. /\ phase = "copy" /\ Len(orig) < NumInstrs /\ ~CannotRelocate(i)
        /\ backup' = Relocated(backup, place.rx, i, pc)
        /\ (skipReturn' <=> skipReturn \/ i.op = "b")
        /\ orig' = Append(orig, i) /\ phase' \in {"copy", "halted"}
        /\ phase' = "copy" => backup'.ok
        /\ place' = place /\ NumInstrs' = NumInstrs
    BY <1>4 DEF Relocate, NumInstrs
  <2>2. SUFFICES ASSUME phase' = "copy" PROVE Tracks(place, NumInstrs, orig', backup', ~skipReturn')
    BY <2>1 DEF Mirrored
  <2>3. Safe(backup')
    <3>1. Left(backup)' >= Capacity - 4 * Len(orig') + Credit' - Debt'
      BY <1>2, <2>2 DEF Roomy
    <3>2. Credit' \in 0 .. 1 /\ Debt' \in 0 .. 1
      BY DEF Credit, Debt
    <3>3. Len(orig') \in Nat /\ Len(orig') <= N
      BY <1>1, <2>1
    <3>4. Left(backup') \in Int
      BY <1>2 DEF Filled, Buffer, Shaped, Left
    <3>5. Left(backup)' = Left(backup')
      BY DEF Left
    <3> QED BY <1>1, <3>1, <3>2, <3>3, <3>4, <3>5 DEF Safe
  <2>4. Tracks(place, NumInstrs, orig, backup, ~skipReturn)
    BY <2>1 DEF Mirrored
  <2>5. i.op # "ldr" /\ ComparesWide(i) /\ ComparesKept(i)
    BY <1>4, <2>1 DEF CannotRelocate, Suits
  <2>6. pc = place.at + 4 * Len(orig)
    BY DEF OrigAddr
  <2>7. i.op \in Conditional \union {"b"} =>
          Len(orig) + 1 = NumInstrs /\ Target(i, pc) \notin Words(place.at, NumInstrs)
    <3>1. Words(place.at, NumInstrs) = {OrigAddr(k) : k \in 0 .. NumInstrs - 1}
      BY DEF Words, OrigAddr
    <3>2. LeavesWindow(i, pc)
      BY <1>4 DEF Suits
    <3> HIDE DEF pc
    <3> QED BY <2>1, <3>1, <3>2 DEF CannotRelocate, LeavesWindow, Unconditional
  <2> DEFINE open == ~skipReturn
             wide == ~skipReturn'
  <2>8. wide <=> open /\ i.op # "b"
    BY <2>1
  <2>9. backup'.ok
    BY <2>1, <2>2
  <2> HIDE DEF pc, open, wide
  <2>10. Tracks(place, NumInstrs, Append(orig, i), backup', wide)
    BY <1>1, <2>1, <2>3, <2>4, <2>5, <2>6, <2>7, <2>8, <2>9, TracksOn DEF open
  <2> QED BY <2>1, <2>10 DEF wide
<1>5. ASSUME NEW i \in Originals, Abort(i) PROVE Mirrored'
  BY <1>5 DEF Abort, Mirrored
<1>6. CASE EmitReturn
  <2> DEFINE r == EmitBranch(backup, place.rx, place.at + 4 * NumInstrs, FALSE, TRUE)
  <2>1. /\ phase = "copy" /\ Len(orig) = NumInstrs /\ phase' \in {"made", "halted"}
        /\ phase' = "made" => backup'.ok
        /\ backup' = IF skipReturn THEN backup ELSE r
        /\ orig' = orig /\ place' = place /\ NumInstrs' = NumInstrs
    BY <1>6 DEF EmitReturn, NumInstrs, ReturnAddr, OrigAddr
  <2>2. SUFFICES ASSUME phase' = "made" PROVE Tracks(place, NumInstrs, orig, backup', FALSE)
    BY <2>1 DEF Mirrored
  <2>3. Tracks(place, NumInstrs, orig, backup, ~skipReturn)
    BY <2>1 DEF Mirrored
  <2>4. CASE skipReturn
    <3>1. backup' = backup /\ (~skipReturn) = FALSE
      BY <2>1, <2>4
    <3> QED BY <2>3, <3>1
  <2>5. CASE ~skipReturn
    <3>1. backup' = r /\ backup'.ok
      BY <2>1, <2>2, <2>5
    <3>2. Safe(backup')
      BY <1>2, <2>2 DEF Roomy, Safe, Left
    <3> DEFINE shut == FALSE
               open == ~skipReturn
    <3> HIDE DEF shut, open
    <3>3. Tracks(place, NumInstrs, orig, backup', shut)
      BY <1>1, <2>1, <2>3, <3>1, <3>2, TracksEnd DEF open
    <3> QED BY <3>3 DEF shut
  <2> QED BY <2>4, <2>5
<1>7. CASE UNCHANGED vars
  BY <1>7 DEF vars, Mirrored, NumInstrs
<1> QED BY <1>3, <1>4, <1>5, <1>6, <1>7 DEF SuitedNext

LEMMA MirroredRuns == Filled /\ Roomy /\ Sited /\ Mirrored => BackupRunsOriginal
<1> SUFFICES ASSUME Filled, Roomy, Sited, Mirrored, phase = "made", NEW regs \in Valuations, NEW flag \in BOOLEAN
             PROVE  Visible(Run(backup.words, Capacity, place.rx, Entering(place.rx, regs), flag))
                      = Visible(Run(Displaced, NumInstrs, place.at, Entering(place.at, regs), flag))
  BY DEF BackupRunsOriginal
<1>1. /\ place \in Places /\ orig \in Seq(Originals) /\ NumInstrs \in 0 .. N
      /\ Buffer(backup, Capacity) /\ Intact(backup)
  BY BackupAssumption DEF Filled, Buffer, Shaped, Sited, NumInstrs, Roomy
<1> DEFINE shut == FALSE
<1>2. Len(orig) = NumInstrs /\ Tracks(place, NumInstrs, orig, backup, shut) /\ ~shut
  BY DEF Mirrored
<1>3. regs \in Files
  BY ContentsAssumption DEF Files, Address
<1>4. \A a : Entering(a, regs) = At(a, regs, <<>>)
  BY DEF Entering, At
<1> HIDE DEF shut
<1>5. Visible(Run(backup.words, Capacity, place.rx, At(place.rx, regs, <<>>), flag))
        = Visible(Run(Displaced, NumInstrs, place.at, At(place.at, regs, <<>>), flag))
  BY <1>1, <1>2, <1>3, TracksSame DEF Displaced
<1> QED BY <1>4, <1>5

(* Whatever suitable instructions are displaced, with whatever registers   *)
(* and flags the backup is entered: relocate and the branch back have made *)
(* code that does what they did.                                           *)
THEOREM BackupsRunTheOriginal ==
  Capacity >= 4 * N + 5 => (SuitedSpec => []BackupRunsOriginal)
<1> SUFFICES ASSUME Capacity >= 4 * N + 5 PROVE SuitedSpec => []BackupRunsOriginal
  OBVIOUS
<1> DEFINE Inv == Filled /\ Roomy /\ Sited /\ Mirrored
<1>1. Init => Inv
  BY FilledInit, RoomyInit, SitedInit, MirroredInit
<1>2. SuitedNext => Next
  BY DEF SuitedNext, Next
<1>3. Inv /\ [SuitedNext]_vars => Inv'
  BY <1>2, FilledStep, RoomyStep, SitedStep, MirroredStep
<1>4. Inv => BackupRunsOriginal
  BY MirroredRuns
<1> QED BY <1>1, <1>3, <1>4, PTL DEF SuitedSpec
=============================================================================
