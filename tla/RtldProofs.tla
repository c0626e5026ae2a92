----------------------------- MODULE RtldProofs -----------------------------
(***************************************************************************)
(* The dynamic linker is right (LookupIsRight, LinkedBeforeInit and        *)
(* InitOrder of Rtld) for any number of modules, names and slots, and any  *)
(* hash function, number of buckets and size of the filter.                *)
(*                                                                         *)
(* Two loops of the code follow links: along a chain of the older hash     *)
(* tables and along the list of modules.  That they reach what they should *)
(* is an induction, which is done by looking at the least counterexample   *)
(* (LeastNat).                                                             *)
(***************************************************************************)
EXTENDS Rtld, WellFoundedInduction, TLAPS

(* A set of numbers has a least element. *)
LEMMA LeastNat ==
  ASSUME NEW T, T \subseteq Nat, T # {}
  PROVE  \E x \in T : \A y \in T : x <= y
<1> DEFINE R == OpToRel(<, Nat)
<1>1. PICK x \in T : \A y \in T : ~(<<y, x>> \in R)
  <2> HIDE DEF R
  <2>1. IsWellFoundedOn(R, Nat)
    BY NatLessThanWellFounded DEF R
  <2> QED BY <2>1, WFMin, Zenon
<1>2. \A y \in T : ~(y < x)
  BY <1>1 DEF OpToRel
<1> HIDE DEF R
<1>3. \A y \in T : x <= y
  BY <1>1, <1>2
<1> QED BY <1>3, <1>1

LEMMA MinIs ==
  ASSUME NEW T, T \subseteq Nat, T # {}
  PROVE  Min(T) \in T /\ \A y \in T : Min(T) <= y
  BY LeastNat DEF Min

(* A bounded one has a greatest element. *)
LEMMA MaxIs ==
  ASSUME NEW n \in Nat, NEW T, T \subseteq 0 .. n, T # {}
  PROVE  Max(T) \in T /\ \A y \in T : Max(T) >= y
<1> DEFINE U == {i \in 0 .. n : n - i \in T}
<1>1. U \subseteq Nat /\ U # {}
  <2>1. PICK t \in T : TRUE
    OBVIOUS
  <2>2. n - t \in U
    BY <2>1
  <2> QED BY <2>2
<1>2. PICK x \in U : \A y \in U : x <= y
  BY <1>1, LeastNat
<1>3. n - x \in T
  BY <1>2
<1>4. ASSUME NEW y \in T PROVE n - x >= y
  <2>1. y \in 0 .. n /\ n - y \in U
    OBVIOUS
  <2>2. x \in 0 .. n
    BY <1>2
  <2> HIDE DEF U
  <2>3. x <= n - y
    BY <1>2, <2>1
  <2> QED BY <2>1, <2>2, <2>3
<1> HIDE DEF U
<1> QED BY <1>3, <1>4 DEF Max

LEMMA ModIs ==
  ASSUME NEW a \in Nat, NEW b \in Nat \ {0}
  PROVE  a % b \in 0 .. b - 1
  BY Z3

LEMMA LastBit ==
  ASSUME NEW a \in Nat
  PROVE  /\ (a - (a % 2)) % 2 = 0 /\ (a - (a % 2)) \div 2 = a \div 2
         /\ (a - (a % 2) + 1) % 2 = 1 /\ (a - (a % 2) + 1) \div 2 = a \div 2
  OBVIOUS

-----------------------------------------------------------------------------
(* The tables of a module *)

LEMMA SymbolTypes ==
  ASSUME NEW syms, NEW says, IsSymbolTable(syms, says)
  PROVE  /\ syms.nbuckets \in Nat \ {0} /\ Len(syms.names) \in Nat
         /\ syms.symoffset \in 1 .. Len(syms.names) + 1 /\ syms.symoffset \in Nat
         /\ \A i \in 1 .. Len(syms.names) : HashOf[syms.names[i]] \in Nat
<1>1. syms.names \in Seq(Names)
  BY DEF IsSymbolTable
<1>2. Len(syms.names) \in Nat
  BY <1>1
<1>3. syms.symoffset \in 1 .. Len(syms.names) + 1
  BY DEF IsSymbolTable
<1>4. syms.nbuckets \in Nat \ {0}
  BY DEF IsSymbolTable
<1> QED BY <1>1, <1>2, <1>3, <1>4, ElfAssumption

(* What is known of the number of a symbol. *)
LEMMA NumberIs ==
  ASSUME NEW syms, NEW says, IsSymbolTable(syms, says), NEW i \in 1 .. Len(syms.names)
  PROVE  NumberOf(syms, syms.names[i]) = i
  BY DEF IsSymbolTable, NumberOf

LEMMA DefinedHasNumber ==
  ASSUME NEW syms, NEW says, IsSymbolTable(syms, says), NEW name \in Names, Defines(says, name)
  PROVE  \E i \in 1 .. Len(syms.names) :
           /\ NumberOf(syms, name) = i /\ syms.names[i] = name
           /\ syms.symoffset <= i /\ Answers(syms, i, name)
<1>1. name \in {syms.names[i] : i \in 1 .. Len(syms.names)}
  BY DEF IsSymbolTable, Defines
<1>2. PICK i \in 1 .. Len(syms.names) : syms.names[i] = name
  BY <1>1
<1>3. syms.shndx[i] = "defined"
  BY <1>2 DEF IsSymbolTable, Defines
<1>4. syms.symoffset <= i
  <2>1. i < syms.symoffset <=> syms.shndx[i] = "undefined"
    BY DEF IsSymbolTable
  <2> QED BY <1>3, <2>1, SymbolTypes
<1> QED BY <1>2, <1>3, <1>4, NumberIs DEF Answers

LEMMA AnswerIsDefined ==
  ASSUME NEW syms, NEW says, IsSymbolTable(syms, says), NEW name \in Names,
         NEW i \in 1 .. Len(syms.names), Answers(syms, i, name)
  PROVE  Defines(says, name) /\ NumberOf(syms, name) = i
  BY NumberIs DEF Answers, Defines, IsSymbolTable

(* A search that finds some i that answer, and any i that does, is right. *)
LEMMA SearchIsRight ==
  ASSUME NEW syms, NEW says, IsSymbolTable(syms, says), NEW name \in Names, NEW r,
         r # 0 => r \in 1 .. Len(syms.names) /\ Answers(syms, r, name),
         r = 0 => ~ \E i \in syms.symoffset .. Len(syms.names) : Answers(syms, i, name)
  PROVE  r = IF Defines(says, name) THEN NumberOf(syms, name) ELSE 0
<1>0. syms.symoffset \in Nat /\ Len(syms.names) \in Nat
  BY DEF IsSymbolTable
<1>1. CASE r = 0
  <2>1. ~Defines(says, name)
    BY <1>0, <1>1, DefinedHasNumber
  <2> QED BY <1>1, <2>1
<1>2. CASE r # 0
  BY <1>2, AnswerIsDefined
<1> QED BY <1>1, <1>2

(* By the table in the GNU format.  The symbols of a bucket lie side by    *)
(* side, and the first chain entry that is odd, from the bucket's first    *)
(* symbol on, is that of its last.                                         *)
LEMMA GnuIsRight ==
  ASSUME NEW syms, NEW says, IsSymbolTable(syms, says), NEW name \in Names
  PROVE  GetSymbolByNameGnu(syms, GnuTable(syms), name)
           = IF Defines(says, name) THEN NumberOf(syms, name) ELSE 0
<1> DEFINE table == GnuTable(syms)
           nb == syms.nbuckets
           off == syms.symoffset
           n == Len(syms.names)
           hash(i) == HashOf[syms.names[i]]
           h == HashOf[name]
           mates(b) == InBucket(syms, off, b)
           M == mates(h % nb)
<1>1. /\ nb \in Nat \ {0} /\ n \in Nat /\ off \in 1 .. n + 1 /\ h \in Nat
      /\ \A i \in off .. n : i \in 1 .. n /\ hash(i) \in Nat
  BY SymbolTypes, ElfAssumption
<1>2. /\ \A b : mates(b) = {i \in off .. n : hash(i) % nb = b}
      /\ \A b : mates(b) \subseteq 0 .. n
      /\ \A b : mates(b) \subseteq Nat
  BY <1>1 DEF InBucket
<1>3. \A i, j \in off .. n : i < j => hash(i) % nb <= hash(j) % nb
  BY DEF IsSymbolTable
<1>4. /\ h % nb \in 0 .. nb - 1
      /\ \A i \in off .. n : hash(i) % nb \in 0 .. nb - 1
  BY <1>1, ModIs
<1>5. table.buckets[h % nb] = IF M = {} THEN 0 ELSE Min(M)
  BY <1>4 DEF GnuTable
<1>6. /\ DOMAIN table.chain = off .. n
      /\ \A i \in off .. n :
           table.chain[i] = hash(i) - (hash(i) % 2) + (IF i = Max(mates(hash(i) % nb)) THEN 1 ELSE 0)
  BY DEF GnuTable
<1>7. /\ WordOf(h) \in 0 .. MaskWords - 1
      /\ table.bloom[WordOf(h)] = UNION {BitsOf(hash(i)) : i \in {j \in off .. n : WordOf(hash(j)) = WordOf(h)}}
  <2>1. WordOf(h) \in 0 .. MaskWords - 1
    BY <1>1, ElfAssumption DEF WordOf
  <2> QED BY <2>1 DEF GnuTable
<1> HIDE DEF table, mates
<1>8. \A i \in off .. n :
        /\ table.chain[i] % 2 = 1 <=> i = Max(mates(hash(i) % nb))
        /\ table.chain[i] \div 2 = hash(i) \div 2
  <2> SUFFICES ASSUME NEW i \in off .. n
               PROVE  /\ table.chain[i] % 2 = 1 <=> i = Max(mates(hash(i) % nb))
                      /\ table.chain[i] \div 2 = hash(i) \div 2
    OBVIOUS
  <2>1. hash(i) \in Nat
    BY <1>1
  <2>2. CASE i = Max(mates(hash(i) % nb))
    <3>1. table.chain[i] = hash(i) - (hash(i) % 2) + 1
      BY <1>6, <2>2
    <3> QED BY <2>1, <2>2, <3>1, LastBit
  <2>3. CASE i # Max(mates(hash(i) % nb))
    <3>1. table.chain[i] = hash(i) - (hash(i) % 2)
      BY <1>6, <2>1, <2>3
    <3> QED BY <2>1, <2>3, <3>1, LastBit
  <2> QED BY <2>2, <2>3
<1> DEFINE symIdx == table.buckets[h % nb]
           last == Min({i \in DOMAIN table.chain : i >= symIdx /\ table.chain[i] % 2 = 1})
           found == {i \in symIdx .. last : table.chain[i] \div 2 = h \div 2 /\ Answers(syms, i, name)}
           r == GetSymbolByNameGnu(syms, table, name)
<1>9. r = IF ~(BitsOf(h) \subseteq table.bloom[WordOf(h)]) \/ symIdx < off
             THEN 0 ELSE IF found = {} THEN 0 ELSE Min(found)
  BY DEF GetSymbolByNameGnu, IsEmpty
<1>10. ASSUME M # {} PROVE symIdx \in M /\ last \in M /\ symIdx .. last = M
  <2>1. symIdx \in M /\ \A i \in M : symIdx <= i
    BY <1>2, <1>5, <1>10, MinIs
  <2>2. Max(M) \in M /\ \A i \in M : Max(M) >= i
    BY <1>1, <1>2, <1>10, MaxIs
  <2>3. \A i \in off .. n : symIdx <= i /\ i <= Max(M) => i \in M
    <3>1. hash(symIdx) % nb = h % nb /\ hash(Max(M)) % nb = h % nb
      BY <2>1, <2>2, <1>2
    <3>2. symIdx \in off .. n /\ Max(M) \in off .. n
      BY <2>1, <2>2, <1>2
    <3>3. ASSUME NEW i \in off .. n, symIdx <= i, i <= Max(M) PROVE hash(i) % nb = h % nb
      <4> HIDE DEF symIdx, M
      <4>1. i = Max(M) \/ hash(i) % nb <= hash(Max(M)) % nb
        BY <1>1, <1>3, <3>2, <3>3
      <4>2. i = symIdx \/ hash(symIdx) % nb <= hash(i) % nb
        BY <1>1, <1>3, <3>2, <3>3
      <4> QED BY <1>1, <1>4, <3>1, <4>1, <4>2
    <3> QED BY <3>3, <1>2
  <2> DEFINE L == {i \in DOMAIN table.chain : i >= symIdx /\ table.chain[i] % 2 = 1}
  <2>4. L \subseteq Nat
    BY <1>1, <1>6
  <2>5. \A i \in M : hash(i) % nb = h % nb /\ i \in off .. n
    BY <1>2
  <2>6. Max(M) \in L
    BY <1>6, <1>8, <2>1, <2>2, <2>5
  <2>7. ASSUME NEW i \in L PROVE Max(M) <= i
    <3>1. i \in off .. n /\ symIdx <= i /\ i = Max(mates(hash(i) % nb))
      BY <1>6, <1>8
    <3>2. CASE i <= Max(M)
      <4>1. i \in M
        BY <3>1, <3>2, <2>3
      <4> QED BY <3>1, <4>1, <2>5, <1>1
    <3> QED BY <3>1, <3>2, <2>2, <2>5, <1>1
  <2>8. last = Max(M)
    <3>1. last \in L /\ \A y \in L : last <= y
      BY <2>4, <2>6, MinIs
    <3> HIDE DEF last, L, M
    <3>2. last \in Nat /\ Max(M) \in Nat
      BY <3>1, <2>4, <2>6
    <3> QED BY <3>1, <3>2, <2>6, <2>7
  <2> HIDE DEF symIdx, last, M
  <2>9. symIdx .. last \subseteq M
    BY <2>1, <2>2, <2>3, <2>5, <2>8, <1>1
  <2>10. M \subseteq symIdx .. last
    BY <2>1, <2>2, <2>5, <2>8, <1>1
  <2> QED BY <2>1, <2>2, <2>8, <2>9, <2>10
<1>11. ASSUME r # 0 PROVE r \in 1 .. n /\ Answers(syms, r, name)
  <2>1. found # {} /\ r = Min(found) /\ ~(symIdx < off)
    BY <1>9, <1>11
  <2>2. M # {}
    BY <1>1, <1>5, <2>1
  <2>3. found \subseteq M
    BY <1>10, <2>2
  <2>4. r \in found
    <3>1. found \subseteq Nat
      BY <1>2, <2>3
    <3> HIDE DEF found, r
    <3> QED BY <2>1, <3>1, MinIs
  <2>5. r \in off .. n
    BY <1>2, <2>3, <2>4
  <2> QED BY <1>1, <2>4, <2>5
<1>12. ASSUME NEW i \in off .. n, Answers(syms, i, name) PROVE r # 0
  <2>1. hash(i) = h
    BY <1>12 DEF Answers
  <2>2. i \in M
    BY <2>1, <1>2
  <2>3. BitsOf(h) \subseteq table.bloom[WordOf(h)]
    BY <1>7, <2>1
  <2>4. i \in found
    BY <1>8, <1>10, <1>12, <2>1, <2>2
  <2>5. found \subseteq M /\ M \subseteq off .. n
    BY <1>2, <1>10, <2>2
  <2>6. Min(found) \in found
    BY <1>2, <2>4, <2>5, MinIs
  <2>7. symIdx \in off .. n
    BY <1>10, <2>2, <2>5
  <2> HIDE DEF symIdx, found
  <2>8. r = Min(found)
    BY <1>1, <1>9, <2>3, <2>4, <2>7
  <2> QED BY <1>1, <2>5, <2>6, <2>8
<1> HIDE DEF r
<1>13. r = 0 => ~ \E i \in off .. n : Answers(syms, i, name)
  BY <1>12
<1>14. r = IF Defines(says, name) THEN NumberOf(syms, name) ELSE 0
  BY <1>11, <1>13, SearchIsRight
<1> QED BY <1>14 DEF r, table

(* A walk along links of N steps is well defined: it is an f with          *)
(* f = Walked(N, first, links, f).                                         *)
Walked(N, first, links, f) ==
  [k \in 0 .. N |-> IF k = 0 THEN first ELSE IF f[k - 1] = 0 THEN 0 ELSE links[f[k - 1]]]

LEMMA WalkExists ==
  ASSUME NEW N \in Nat, NEW first, NEW links
  PROVE  \E f : f = Walked(N, first, links, f)
<1> USE DEF Walked
<1> DEFINE Along(n, f) ==
             f = [k \in 0 .. n |-> IF k = 0 THEN first ELSE IF f[k - 1] = 0 THEN 0 ELSE links[f[k - 1]]]
           T == {n \in 0 .. N : ~ \E f : Along(n, f)}
<1>1. SUFFICES ASSUME T # {} PROVE FALSE
  <2>1. N \notin T => \E f : Along(N, f)
    OBVIOUS
  <2> QED BY <2>1
<1>2. PICK n \in T : \A m \in T : n <= m
  <2>1. T \subseteq Nat
    OBVIOUS
  <2> HIDE DEF T
  <2> QED BY <1>1, <2>1, LeastNat
<1>3. n # 0
  <2> DEFINE f == [k \in 0 .. 0 |-> first]
  <2>1. Along(0, f)
    OBVIOUS
  <2> QED BY <2>1, <1>2
<1>4. n - 1 \in 0 .. N /\ n - 1 \notin T /\ n \in Nat
  BY <1>2, <1>3
<1>5. PICK f : Along(n - 1, f)
  BY <1>4
<1> DEFINE to == IF f[n - 1] = 0 THEN 0 ELSE links[f[n - 1]]
           g == [k \in 0 .. n |-> IF k = n THEN to ELSE f[k]]
<1>6. Along(n, g)
  <2>1. ASSUME NEW k \in 0 .. n
        PROVE  g[k] = IF k = 0 THEN first ELSE IF g[k - 1] = 0 THEN 0 ELSE links[g[k - 1]]
    <3>1. k # 0 => k - 1 \in 0 .. n /\ k - 1 # n /\ g[k - 1] = f[k - 1]
      BY <1>4
    <3>2. CASE k = n
      BY <1>3, <3>1, <3>2
    <3>3. CASE k # n
      <4>1. k \in 0 .. n - 1 /\ g[k] = f[k]
        BY <1>4, <3>3
      <4>2. f[k] = IF k = 0 THEN first ELSE IF f[k - 1] = 0 THEN 0 ELSE links[f[k - 1]]
        BY <1>5, <4>1
      <4> HIDE DEF g
      <4> QED BY <3>1, <4>1, <4>2
    <3> QED BY <3>2, <3>3
  <2>2. g = [k \in 0 .. n |-> g[k]]
    OBVIOUS
  <2> HIDE DEF g
  <2> QED BY <2>1, <2>2
<1> QED BY <1>2, <1>6

(* By the table in the older format.  A walk along a bucket's chain goes   *)
(* through all its symbols, from the last to the first.                    *)
LEMMA ElfIsRight ==
  ASSUME NEW syms, NEW says, IsSymbolTable(syms, says), NEW name \in Names
  PROVE  GetSymbolByNameElf(syms, ElfTable(syms), name)
           = IF Defines(says, name) THEN NumberOf(syms, name) ELSE 0
<1> DEFINE table == ElfTable(syms)
           nb == syms.nbuckets
           n == Len(syms.names)
           hash(i) == HashOf[syms.names[i]]
           h == HashOf[name]
           mates(b) == InBucket(syms, 1, b)
           below(i) == {j \in mates(hash(i) % nb) : j < i}
           M == mates(h % nb)
<1>1. /\ nb \in Nat \ {0} /\ n \in Nat /\ syms.symoffset \in 1 .. n + 1 /\ h \in Nat
      /\ \A i \in 1 .. n : hash(i) \in Nat
  BY SymbolTypes, ElfAssumption
<1>2. /\ \A b : mates(b) = {i \in 1 .. n : hash(i) % nb = b}
      /\ \A b : mates(b) \subseteq 0 .. n
  BY <1>1 DEF InBucket
<1>3. h % nb \in 0 .. nb - 1
  BY <1>1, ModIs
<1>4. table.buckets[h % nb] = IF M = {} THEN 0 ELSE Max(M)
  BY <1>3 DEF ElfTable
<1>5. \A i \in 1 .. n : table.chains[i] = IF below(i) = {} THEN 0 ELSE Max(below(i))
  BY DEF ElfTable
<1> HIDE DEF table, mates
<1> DEFINE Along(f) == [k \in 0 .. n |-> IF k = 0 THEN table.buckets[h % nb]
                                         ELSE IF f[k - 1] = 0 THEN 0 ELSE table.chains[f[k - 1]]]
           walk == CHOOSE f : f = Along(f)
           found == {k \in DOMAIN walk : walk[k] # 0 /\ Answers(syms, walk[k], name)}
           r == GetSymbolByNameElf(syms, table, name)
<1>6. r = IF found = {} THEN 0 ELSE walk[Min(found)]
  BY DEF GetSymbolByNameElf
<1>7. walk = Along(walk)
  <2>1. \E f : f = Along(f)
    <3>1. \E f : f = Walked(n, table.buckets[h % nb], table.chains, f)
      <4>1. n \in Nat
        BY <1>1
      <4> HIDE DEF n
      <4> QED BY <4>1, WalkExists, Zenon
    <3> QED BY <3>1 DEF Walked
  <2> HIDE DEF Along
  <2> QED BY <2>1, Zenon
<1>8. /\ DOMAIN walk = 0 .. n
      /\ walk[0] = table.buckets[h % nb]
      /\ \A k \in 1 .. n : walk[k] = IF walk[k - 1] = 0 THEN 0 ELSE table.chains[walk[k - 1]]
  <2> DEFINE first == table.buckets[h % nb]
             links == table.chains
  <2>1. walk = [k \in 0 .. n |-> IF k = 0 THEN first
                                 ELSE IF walk[k - 1] = 0 THEN 0 ELSE links[walk[k - 1]]]
    <3> HIDE DEF walk
    <3> QED BY <1>7
  <2>2. n \in Nat
    BY <1>1
  <2> HIDE DEF first, links, n, walk
  <2>3. DOMAIN walk = 0 .. n /\ walk[0] = first
    BY <2>1, <2>2
  <2>4. \A k \in 1 .. n : walk[k] = IF walk[k - 1] = 0 THEN 0 ELSE links[walk[k - 1]]
    BY <2>1, <2>2
  <2> QED BY <2>3, <2>4 DEF first, links
<1> HIDE DEF walk
<1>9. M \subseteq 1 .. n /\ M \subseteq 0 .. n
  BY <1>2
<1>10. \A i \in M : below(i) = {j \in M : j < i}
  BY <1>2
<1>11. ASSUME NEW i \in M
       PROVE  /\ {j \in M : j < i} = {} => table.chains[i] = 0
              /\ {j \in M : j < i} # {} =>
                   /\ table.chains[i] \in M /\ table.chains[i] < i
                   /\ \A j \in M : j < i => j <= table.chains[i]
  <2> DEFINE B == {j \in M : j < i}
  <2>1. table.chains[i] = IF B = {} THEN 0 ELSE Max(B)
    BY <1>5, <1>9, <1>10
  <2>2. B # {} => Max(B) \in B /\ \A j \in B : Max(B) >= j
    BY <1>1, <1>9, MaxIs
  <2>3. ASSUME B # {} PROVE table.chains[i] \in B /\ \A j \in B : j <= table.chains[i]
    <3> HIDE DEF B
    <3>1. table.chains[i] = Max(B)
      BY <2>1, <2>3
    <3> QED BY <2>2, <2>3, <3>1, <1>1, <1>9 DEF B
  <2> QED BY <2>1, <2>3
<1> HIDE DEF M
(* The walk stays in the bucket and goes down until its end. *)
<1>12. \A k \in 0 .. n : walk[k] = 0 \/ (walk[k] \in M /\ walk[k] <= n - k)
  <2> DEFINE T == {k \in 0 .. n : ~(walk[k] = 0 \/ (walk[k] \in M /\ walk[k] <= n - k))}
  <2>1. SUFFICES ASSUME T # {} PROVE FALSE
    OBVIOUS
  <2>2. PICK k \in T : \A m \in T : k <= m
    <3>1. T \subseteq Nat
      OBVIOUS
    <3> HIDE DEF T
    <3> QED BY <2>1, <3>1, LeastNat
  <2>3. k # 0
    <3>1. walk[0] = 0 \/ walk[0] \in M
      BY <1>1, <1>4, <1>8, <1>9, MaxIs DEF M
    <3>2. \A x \in M : x <= n - 0
      BY <1>1, <1>9
    <3>3. 0 \notin T
      BY <3>1, <3>2
    <3> QED BY <3>3, <2>2
  <2>4. k - 1 \in 0 .. n /\ k \in 1 .. n /\ k - 1 \notin T
    BY <2>2, <2>3
  <2>5. walk[k - 1] = 0 \/ (walk[k - 1] \in M /\ walk[k - 1] <= n - (k - 1))
    BY <2>4
  <2>6. walk[k] = IF walk[k - 1] = 0 THEN 0 ELSE table.chains[walk[k - 1]]
    BY <1>8, <2>4
  <2>7. walk[k - 1] \in M /\ walk[k] = table.chains[walk[k - 1]] /\ walk[k - 1] <= n - (k - 1)
    BY <1>9, <2>2, <2>5, <2>6
  <2>8. walk[k] = 0 \/ (walk[k] \in M /\ walk[k] < walk[k - 1])
    BY <1>11, <2>7
  <2>9. walk[k] = 0 \/ (walk[k] \in M /\ walk[k] <= n - k)
    <3>1. CASE walk[k] \in M /\ walk[k] < walk[k - 1]
      <4>1. walk[k] \in 1 .. n /\ walk[k - 1] \in 1 .. n
        BY <1>9, <2>7, <3>1
      <4> QED BY <1>1, <2>4, <2>7, <3>1, <4>1
    <3> QED BY <2>8, <3>1
  <2> QED BY <2>2, <2>9
(* It comes to every symbol of the bucket. *)
<1>13. ASSUME NEW j \in M PROVE \E k \in 0 .. n : walk[k] = j
  <2> DEFINE T == {k \in 0 .. n : walk[k] \in M /\ walk[k] >= j}
             k == Max(T)
  <2>1. 0 \in T
    <3>1. Max(M) \in M /\ Max(M) >= j
      BY <1>1, <1>9, MaxIs
    <3>2. walk[0] = Max(M)
      BY <1>4, <1>8 DEF M
    <3> QED BY <1>1, <3>1, <3>2
  <2>2. k \in T /\ \A m \in T : k >= m
    BY <1>1, <2>1, MaxIs
  <2> HIDE DEF k
  <2>3. CASE walk[k] # j
    <3>1. walk[k] \in M /\ j < walk[k] /\ k \in 0 .. n /\ walk[k] <= n - k
      <4>1. k \in 0 .. n /\ walk[k] \in M /\ walk[k] >= j
        BY <2>2
      <4>2. walk[k] \in 1 .. n /\ j \in 1 .. n
        BY <1>9, <4>1
      <4>3. walk[k] <= n - k
        BY <1>12, <4>1, <4>2
      <4> QED BY <1>1, <2>3, <4>1, <4>2, <4>3
    <3>2. k + 1 \in 1 .. n
      <4>1. walk[k] \in 1 .. n /\ j \in 1 .. n
        BY <1>9, <3>1
      <4> QED BY <1>1, <3>1, <4>1
    <3>3. walk[k + 1] = table.chains[walk[k]]
      BY <1>1, <1>8, <1>9, <3>1, <3>2, SMTT(30)
    <3>4. walk[k + 1] \in M /\ j <= walk[k + 1]
      BY <1>11, <3>1, <3>3
    <3>5. k + 1 \in T
      BY <1>1, <1>9, <3>2, <3>4
    <3> QED BY <2>2, <3>1, <3>5
  <2> QED BY <2>2, <2>3
<1>14. ASSUME r # 0 PROVE r \in 1 .. n /\ Answers(syms, r, name)
  <2>1. found # {} /\ r = walk[Min(found)]
    BY <1>6, <1>14
  <2>2. Min(found) \in found
    <3>1. found \subseteq Nat
      BY <1>1, <1>8
    <3> HIDE DEF found
    <3> QED BY <2>1, <3>1, MinIs
  <2> QED BY <1>8, <1>9, <1>12, <2>1, <2>2
<1>15. ASSUME NEW i \in 1 .. n, Answers(syms, i, name) PROVE r # 0
  <2>1. i \in M
    BY <1>2, <1>15 DEF Answers, M
  <2>2. PICK k \in 0 .. n : walk[k] = i
    BY <1>13, <2>1
  <2>3. k \in found
    BY <1>8, <1>15, <2>2
  <2>4. Min(found) \in found
    <3>1. found \subseteq Nat
      BY <1>1, <1>8
    <3> HIDE DEF found
    <3> QED BY <2>3, <3>1, MinIs
  <2> QED BY <1>6, <2>3, <2>4
<1> HIDE DEF r
<1>16. r = 0 => ~ \E i \in syms.symoffset .. n : Answers(syms, i, name)
  BY <1>1, <1>15
<1>17. r = IF Defines(says, name) THEN NumberOf(syms, name) ELSE 0
  BY <1>14, <1>16, SearchIsRight
<1> QED BY <1>17 DEF r, table

(* A name is found in a module iff the module defines it. *)
Found(m, name) ==
  IF name \in Names /\ Defines(image[m].says, name) THEN NumberOf(image[m].table.syms, name) ELSE 0

LEMMA LookupFinds ==
  ASSUME image \in Images, NEW m \in Modules, NEW name
  PROVE  GetSymbolByName(m, name) = Found(m, name)
<1>1. IsLinked(image[m].table, image[m].says)
  BY ModuleAssumption DEF Modules
<1>2. ASSUME name \in Names
      PROVE  /\ GetSymbolByNameGnu(image[m].table.syms, image[m].table.gnu, name) = Found(m, name)
             /\ GetSymbolByNameElf(image[m].table.syms, image[m].table.elf, name) = Found(m, name)
  BY <1>1, <1>2, GnuIsRight, ElfIsRight DEF Found, IsLinked
<1> QED BY <1>2 DEF GetSymbolByName, Found

LEMMA FoundIs ==
  ASSUME image \in Images, NEW m \in Modules, NEW name
  PROVE  /\ Found(m, name) \in Nat
         /\ Found(m, name) # 0 <=> name \in Names /\ Defines(image[m].says, name)
<1>1. IsSymbolTable(image[m].table.syms, image[m].says)
  BY ModuleAssumption DEF Modules, IsLinked
<1> QED BY <1>1, DefinedHasNumber, SymbolTypes DEF Found

-----------------------------------------------------------------------------
(* The inductive invariant: how far each loop has come, and what that      *)
(* means for the modules it has passed.                                    *)
Phases == {"self", "load", "refer", "resolve", "init", "main", "halted"}
IsLoaded(m) == phase \in {"refer", "resolve", "init", "main"} \/ (phase \in {"load", "halted"} /\ m < cursor)
IsRelocated(m) == IsLoaded(m) \/ (phase \in {"load", "halted"} /\ m = 1)
IsReferred(m) == phase \in {"resolve", "init", "main"} \/ (phase = "refer" /\ (cursor = 0 \/ m < cursor))
IsResolved(m) == phase \in {"init", "main"} \/ (phase = "resolve" /\ (cursor = 0 \/ m < cursor))
IsInited(m) == phase = "main" \/ (phase = "init" /\ m > cursor)

CursorInv ==
  CASE phase = "self" -> cursor = 1
    [] phase = "load" -> cursor \in 1 .. Len(image) + 1
    [] phase = "halted" -> cursor \in Modules
    [] OTHER -> cursor \in {0} \union Modules

(* The list, when it has n modules. *)
Linear(n) ==
  /\ next = [k \in 0 .. n |-> IF k = 0 THEN n ELSE k - 1]
  /\ prev = [k \in 0 .. n |-> IF k = n THEN 0 ELSE k + 1]
ListInv == Linear(IF phase \in {"self", "load", "halted"} THEN cursor - 1 ELSE Len(image))

(* A slot before its symbol is resolved. *)
RelocatedTo(m, s) ==
  IF s \in DOMAIN image[m].entries /\ image[m].entries[s].type = Relative
    THEN Base(m) + image[m].entries[s].addend ELSE Content(image[m], s)
MemInv ==
  mem = [m \in Modules |-> [s \in Slots |-> IF IsResolved(m) THEN Wanted(m, s)
                                            ELSE IF IsRelocated(m) THEN RelocatedTo(m, s)
                                            ELSE Content(image[m], s)]]
ReferInv == listAt = [m \in Modules |-> IsReferred(m) /\ image[m].listed]

InitedInv ==
  /\ inited \in Seq(Modules)
  /\ \A k \in 1 .. Len(inited) - 1 : inited[k] > inited[k + 1]
  /\ {inited[k] : k \in DOMAIN inited} = {m \in Modules : image[m].init /\ IsInited(m)}

IInv ==
  /\ image \in Images /\ phase \in Phases
  /\ CursorInv /\ ListInv /\ MemInv /\ ReferInv /\ InitedInv

-----------------------------------------------------------------------------
(* What modules are *)
LEMMA ModulesAre ==
  ASSUME image \in Images
  PROVE  /\ Len(image) \in Nat \ {0} /\ Modules = 1 .. Len(image)
         /\ \A m \in Modules : m \in Nat /\ Base(m) \in Nat \ {0}
<1>1. Len(image) \in Nat \ {0} /\ Modules = 1 .. Len(image)
  BY ModuleAssumption DEF Modules
<1>2. ASSUME NEW m \in Modules PROVE m \in Nat /\ Base(m) \in Nat \ {0}
  <2>1. m \in Nat \ {0}
    BY <1>1
  <2>3. Span \in Nat \ {0}
    BY ModuleAssumption
  <2>2. m * Span \in Nat \ {0}
    BY <2>1, <2>3, Z3
  <2> QED BY <2>1, <2>2 DEF Base
<1> QED BY <1>1, <1>2

LEMMA EntriesAre ==
  ASSUME image \in Images, NEW m \in Modules, NEW s \in DOMAIN image[m].entries
  PROVE  LET e == image[m].entries[s]
         IN /\ s \in Slots /\ e.type \in Types /\ e.addend \in Nat
            /\ e.weak \in BOOLEAN /\ e.hidden \in BOOLEAN
            /\ e.type = Relative => e.name \notin Names /\ ~e.hidden
            /\ e.type # Relative => e.name \in Names
<1> DEFINE e == image[m].entries[s]
<1>3. DOMAIN image[m].entries \subseteq Slots
  BY ModuleAssumption DEF Modules
<1>4. e.type \in Types /\ e.addend \in Nat
  BY ModuleAssumption DEF Modules
<1>6. e.weak \in BOOLEAN /\ e.hidden \in BOOLEAN
  BY ModuleAssumption DEF Modules
<1>5. IF e.type = Relative THEN e.name = "" /\ ~e.hidden ELSE e.name \in Names
  BY ModuleAssumption DEF Modules
<1>2. "" \notin Names
  BY ModuleAssumption
<1> QED BY <1>2, <1>3, <1>4, <1>5, <1>6

(* The list goes through the modules as they lie in memory. *)
LEMMA ForwardIs ==
  ASSUME image \in Images, Linear(Len(image))
  PROVE  Forward = [k \in 1 .. Len(image) |-> k]
<1> DEFINE n == Len(image)
           Along(f) == [k \in 1 .. n |-> IF k = 1 THEN prev[0] ELSE IF f[k - 1] = 0 THEN 0 ELSE prev[f[k - 1]]]
           id == [k \in 1 .. n |-> k]
<1>1. n \in Nat \ {0}
  BY ModulesAre
<1>2. prev = [k \in 0 .. n |-> IF k = n THEN 0 ELSE k + 1]
  BY DEF Linear
<1>3. Forward = CHOOSE f : f = Along(f)
  BY Zenon DEF Forward
<1> HIDE DEF n
<1>4. id = Along(id)
  BY <1>1, <1>2
<1>5. Forward = Along(Forward)
  <2> HIDE DEF Along, id
  <2> QED BY <1>3, <1>4, Zenon
<1>6. \A k \in 1 .. n :
        Forward[k] = IF k = 1 THEN prev[0] ELSE IF Forward[k - 1] = 0 THEN 0 ELSE prev[Forward[k - 1]]
  BY <1>5
<1>7. ASSUME NEW T, T = {j \in 1 .. n : Forward[j] # j}, T # {} PROVE FALSE
  <2>1. PICK x \in T : \A y \in T : x <= y
    <3>1. T \subseteq Nat
      BY <1>7
    <3> QED BY <1>7, <3>1, LeastNat
  <2>2. x \in 1 .. n /\ Forward[x] # x /\ (x - 1 \in 1 .. n => Forward[x - 1] = x - 1)
    BY <1>7, <2>1
  <2>3. CASE x = 1
    BY <1>1, <1>2, <1>6, <2>2, <2>3
  <2>4. CASE x # 1
    <3>1. x - 1 \in 1 .. n /\ x - 1 \in 0 .. n /\ x - 1 # n /\ x - 1 # 0 /\ (x - 1) + 1 = x
      BY <1>1, <2>2, <2>4
    <3>2. Forward[x] = prev[x - 1]
      BY <1>6, <2>2, <2>4, <3>1
    <3> QED BY <1>2, <2>2, <3>1, <3>2
  <2> QED BY <2>3, <2>4
<1>8. Forward = [k \in 1 .. n |-> Forward[k]]
  BY <1>5
<1>9. \A k \in 1 .. n : Forward[k] = k
  BY <1>7
<1> QED BY <1>8, <1>9 DEF n

(* The first module that defines a name. *)
IsFirst(d, name) ==
  /\ d \in Modules /\ name \in Names /\ Defines(image[d].says, name)
  /\ \A j \in 1 .. d - 1 : ~Defines(image[j].says, name)

LEMMA FirstIs ==
  ASSUME image \in Images, NEW name \in Names, NEW k \in Modules, Defines(image[k].says, name)
  PROVE  \E d : IsFirst(d, name)
<1> DEFINE T == {j \in Modules : Defines(image[j].says, name)}
<1>1. PICK d \in T : \A y \in T : d <= y
  BY ModulesAre, LeastNat
<1>2. \A j \in 1 .. d - 1 : j \in Modules /\ ~(d <= j)
  BY <1>1, ModulesAre
<1> QED BY <1>1, <1>2 DEF IsFirst

LEMMA GlobalIs ==
  ASSUME image \in Images, Linear(Len(image)), NEW name
  PROVE  /\ (~ \E d : IsFirst(d, name)) => LookupGlobalAuto(name) = 0
         /\ \A d : IsFirst(d, name) => LookupGlobalAuto(name) = Base(d) + Found(d, name)
<1> DEFINE n == Len(image)
           hits == {k \in 1 .. n : Forward[k] # 0 /\ GetSymbolByName(Forward[k], name) # 0}
           H == {k \in Modules : Found(k, name) # 0}
<1>1. n \in Nat /\ Modules = 1 .. n
  BY ModulesAre
<1>2. \A k \in 1 .. n : Forward[k] = k /\ GetSymbolByName(k, name) = Found(k, name)
  BY <1>1, ForwardIs, LookupFinds
<1>3. hits = H
  BY <1>1, <1>2
<1>4. LookupGlobalAuto(name) =
        IF hits = {} THEN 0 ELSE Base(Forward[Min(hits)]) + GetSymbolByName(Forward[Min(hits)], name)
  BY DEF LookupGlobalAuto
<1>5. LookupGlobalAuto(name) =
        IF H = {} THEN 0 ELSE Base(Forward[Min(H)]) + GetSymbolByName(Forward[Min(H)], name)
  BY <1>3, <1>4
<1> HIDE DEF hits
<1>6. ASSUME NEW d, IsFirst(d, name) PROVE Min(H) = d /\ d \in H
  <2>1. d \in H
    BY <1>6, FoundIs DEF IsFirst
  <2>2. \A j \in H : d <= j
    <3>1. ASSUME NEW j \in H, j < d PROVE FALSE
      <4>1. j \in 1 .. d - 1
        BY <1>1, <1>6, <3>1 DEF IsFirst
      <4> QED BY <1>6, <3>1, <4>1, FoundIs DEF IsFirst
    <3> QED BY <1>1, <2>1, <3>1
  <2>4. H \subseteq Nat
    BY <1>1
  <2> HIDE DEF H
  <2>3. Min(H) \in H /\ \A j \in H : Min(H) <= j
    BY <2>1, <2>4, MinIs
  <2>5. Min(H) \in Nat /\ d \in Nat /\ Min(H) <= d /\ d <= Min(H)
    BY <2>1, <2>2, <2>3, <2>4
  <2> QED BY <2>1, <2>5
<1>7. ASSUME NEW d, IsFirst(d, name) PROVE LookupGlobalAuto(name) = Base(d) + Found(d, name)
  <2>1. H # {} /\ Min(H) = d /\ d \in 1 .. n
    BY <1>1, <1>6, <1>7
  <2> HIDE DEF H
  <2> QED BY <1>2, <1>5, <2>1
<1>8. ASSUME ~ \E d : IsFirst(d, name) PROVE H = {}
  BY <1>8, FirstIs, FoundIs
<1> QED BY <1>5, <1>7, <1>8

LEMMA ProvidesIs ==
  ASSUME image \in Images, NEW m \in Modules, NEW e, e.name \in Names
  PROVE  /\ e.hidden => Provides(m, e) = IF Defines(image[m].says, e.name) THEN {Base(m) + Found(m, e.name)} ELSE {}
         /\ ~e.hidden /\ (~ \E d : IsFirst(d, e.name)) => Provides(m, e) = {}
         /\ ~e.hidden => \A d : IsFirst(d, e.name) => Provides(m, e) = {Base(d) + Found(d, e.name)}
<1> DEFINE D == {k \in Modules : /\ Defines(image[k].says, e.name)
                                  /\ IF e.hidden THEN k = m
                                     ELSE \A j \in 1 .. k - 1 : ~Defines(image[j].says, e.name)}
<1>1. Provides(m, e) = {Base(d) + NumberOf(image[d].table.syms, e.name) : d \in D}
  BY DEF Provides
<1>2. \A d \in D : Found(d, e.name) = NumberOf(image[d].table.syms, e.name)
  BY DEF Found
<1>3. e.hidden => D = IF Defines(image[m].says, e.name) THEN {m} ELSE {}
  OBVIOUS
<1>4. ~e.hidden => \A d : d \in D <=> IsFirst(d, e.name)
  BY DEF IsFirst
<1>5. ASSUME NEW d, IsFirst(d, e.name), ~e.hidden PROVE D = {d}
  <2>1. ASSUME NEW x \in D PROVE x = d
    <3>1. IsFirst(x, e.name) /\ x \in Nat /\ d \in Nat
      BY <1>4, <1>5, <2>1, ModulesAre DEF IsFirst
    <3>2. ~(x < d) /\ ~(d < x)
      BY <1>5, <3>1, ModulesAre DEF IsFirst
    <3> QED BY <3>1, <3>2
  <2>2. d \in D
    BY <1>4, <1>5
  <2> HIDE DEF D
  <2> QED BY <2>1, <2>2
<1> HIDE DEF D
<1> QED BY <1>1, <1>2, <1>3, <1>4, <1>5

-----------------------------------------------------------------------------
(* What the two passes make of a module *)
LEMMA RelocateDoes ==
  ASSUME image \in Images, NEW m \in Modules, mem = [k \in Modules |-> mem[k]],
         mem[m] = [s \in Slots |-> Content(image[m], s)]
  PROVE  Relocate(m) = [mem EXCEPT ![m] = [s \in Slots |-> RelocatedTo(m, s)]]
<1> DEFINE now(s) == IF s \in DOMAIN image[m].entries /\ image[m].entries[s].type = Relative
                       THEN Applied(m, image[m].entries[s], mem[m][s], Base(m)) ELSE mem[m][s]
<1>1. ASSUME NEW s \in Slots PROVE now(s) = RelocatedTo(m, s)
  <2>1. mem[m][s] = Content(image[m], s)
    OBVIOUS
  <2>2. CASE s \in DOMAIN image[m].entries /\ image[m].entries[s].type = Relative
    <3>1. image[m].entries[s].addend \in Nat /\ Base(m) \in Nat
      BY <2>2, EntriesAre, ModulesAre
    <3> QED BY <2>1, <2>2, <3>1 DEF Applied, RelocatedTo, Content
  <2>3. CASE ~(s \in DOMAIN image[m].entries /\ image[m].entries[s].type = Relative)
    BY <2>1, <2>3 DEF RelocatedTo
  <2> QED BY <2>2, <2>3
<1>2. Relocate(m) = [mem EXCEPT ![m] = [s \in Slots |-> now(s)]]
  BY Zenon DEF Relocate
<1>3. [s \in Slots |-> now(s)] = [s \in Slots |-> RelocatedTo(m, s)]
  BY <1>1
<1> HIDE DEF now
<1> QED BY <1>2, <1>3

(* Which address a symbol is resolved to, and what it should be. *)
LEMMA ResolveIs ==
  ASSUME image \in Images, Linear(Len(image)), NEW m \in Modules, NEW e, e.name \in Names,
         e.hidden \in BOOLEAN, e.weak \in BOOLEAN
  PROVE  \/ \E a \in Nat : ResolveSymbol(m, e) = {a} /\ Provides(m, e) = {a}
         \/ ResolveSymbol(m, e) = {0} /\ Provides(m, e) = {} /\ e.hidden /\ e.weak
         \/ ResolveSymbol(m, e) = {} /\ Provides(m, e) = {} /\ ~(e.hidden /\ e.weak)
<1>1. CASE e.hidden
  <2>1. GetSymbolByName(m, e.name) = Found(m, e.name) /\ Found(m, e.name) \in Nat
    BY LookupFinds, FoundIs
  <2>2. CASE Defines(image[m].says, e.name)
    <3>1. Found(m, e.name) # 0
      BY <2>2, FoundIs
    <3>2. ResolveSymbol(m, e) = {Base(m) + Found(m, e.name)}
      BY <1>1, <2>1, <3>1 DEF ResolveSymbol
    <3>3. Provides(m, e) = {Base(m) + Found(m, e.name)}
      BY <1>1, <2>2, ProvidesIs
    <3>4. Base(m) + Found(m, e.name) \in Nat
      BY <2>1, ModulesAre
    <3> QED BY <3>2, <3>3, <3>4
  <2>3. CASE ~Defines(image[m].says, e.name)
    <3>1. Found(m, e.name) = 0
      BY <2>3, FoundIs
    <3>2. Provides(m, e) = {}
      BY <1>1, <2>3, ProvidesIs
    <3>3. ResolveSymbol(m, e) = IF e.weak THEN {0} ELSE {}
      BY <1>1, <2>1, <3>1 DEF ResolveSymbol
    <3> QED BY <1>1, <3>2, <3>3
  <2> QED BY <2>2, <2>3
<1>2. CASE ~e.hidden
  <2>1. ResolveSymbol(m, e) = {LookupGlobalAuto(e.name)} \ {0}
    BY <1>2 DEF ResolveSymbol
  <2>2. CASE \E d : IsFirst(d, e.name)
    <3>1. PICK d : IsFirst(d, e.name)
      BY <2>2
    <3>2. LookupGlobalAuto(e.name) = Base(d) + Found(d, e.name)
      BY <3>1, GlobalIs
    <3>3. Provides(m, e) = {Base(d) + Found(d, e.name)}
      BY <1>2, <3>1, ProvidesIs
    <3>4. Base(d) \in Nat \ {0} /\ Found(d, e.name) \in Nat
      BY <3>1, ModulesAre, FoundIs DEF IsFirst
    <3>5. Base(d) + Found(d, e.name) \in Nat /\ Base(d) + Found(d, e.name) # 0
      BY <3>4
    <3> QED BY <2>1, <3>2, <3>3, <3>5
  <2>3. CASE ~ \E d : IsFirst(d, e.name)
    <3>1. LookupGlobalAuto(e.name) = 0
      BY <2>3, GlobalIs
    <3>2. Provides(m, e) = {}
      BY <1>2, <2>3, ProvidesIs
    <3> QED BY <1>2, <2>1, <3>1, <3>2
  <2> QED BY <2>2, <2>3
<1> QED BY <1>1, <1>2

LEMMA NullIsNotResolved ==
  ASSUME image \in Images, Linear(Len(image)), NEW m \in Modules, NEW e, e.name \notin Names, ~e.hidden
  PROVE  ResolveSymbol(m, e) = {}
<1>1. LookupGlobalAuto(e.name) = 0
  BY GlobalIs DEF IsFirst
<1> QED BY <1>1 DEF ResolveSymbol

LEMMA MaxOfOne == ASSUME NEW a \in Nat PROVE Max({a}) = a
  BY DEF Max

LEMMA ResolveDoes ==
  ASSUME image \in Images, Linear(Len(image)), NEW m \in Modules, mem = [k \in Modules |-> mem[k]],
         mem[m] = [s \in Slots |-> RelocatedTo(m, s)]
  PROVE  ResolveSymbols(m) = [mem EXCEPT ![m] = [s \in Slots |-> Wanted(m, s)]]
<1> DEFINE e(s) == image[m].entries[s]
           now(s) == IF s \notin DOMAIN image[m].entries THEN mem[m][s]
                     ELSE IF e(s).type = "other" \/ ResolveSymbol(m, e(s)) = {} THEN mem[m][s]
                     ELSE Applied(m, e(s), mem[m][s], CHOOSE a \in ResolveSymbol(m, e(s)) : TRUE)
<1>1. ASSUME NEW s \in Slots PROVE now(s) = Wanted(m, s)
  <2>1. mem[m][s] = RelocatedTo(m, s)
    OBVIOUS
  <2>2. CASE s \notin DOMAIN image[m].entries
    BY <2>1, <2>2 DEF RelocatedTo, Content, Wanted
  <2>3. CASE s \in DOMAIN image[m].entries
    <3> DEFINE f == e(s)
    <3>1. /\ f.type \in Types /\ f.addend \in Nat /\ f.weak \in BOOLEAN /\ f.hidden \in BOOLEAN
          /\ f.type = Relative => f.name \notin Names /\ ~f.hidden
          /\ f.type # Relative => f.name \in Names
      BY <2>3, EntriesAre
    <3>2. Content(image[m], s) = IF ~image[m].rela THEN f.addend ELSE 0
      BY <2>3 DEF Content
    <3>3. mem[m][s] = IF f.type = Relative THEN Base(m) + f.addend ELSE Content(image[m], s)
      BY <2>1, <2>3 DEF RelocatedTo
    <3>4. Wanted(m, s) =
            IF f.type = Relative THEN Base(m) + f.addend
            ELSE IF f.type # "other" /\ Provides(m, f) # {} THEN Max(Provides(m, f)) + f.addend
            ELSE IF f.type # "other" /\ f.hidden /\ f.weak THEN f.addend
            ELSE Content(image[m], s)
      BY <2>3 DEF Wanted
    <3>5. now(s) = IF f.type = "other" \/ ResolveSymbol(m, f) = {} THEN mem[m][s]
                   ELSE Applied(m, f, mem[m][s], CHOOSE a \in ResolveSymbol(m, f) : TRUE)
      BY <2>3
    <3> HIDE DEF f, now
    <3>6. CASE f.type = Relative
      <4>1. ResolveSymbol(m, f) = {}
        BY <3>1, <3>6, NullIsNotResolved
      <4> QED BY <3>3, <3>4, <3>5, <3>6, <4>1
    <3>7. CASE f.type = "other"
      BY <3>3, <3>4, <3>5, <3>7 DEF Relative
    <3>8. CASE f.type # "other" /\ f.type # Relative
      <4>1. f.name \in Names
        BY <3>1, <3>8
      <4>2. CASE ResolveSymbol(m, f) = {} /\ Provides(m, f) = {} /\ ~(f.hidden /\ f.weak)
        BY <3>3, <3>4, <3>5, <3>8, <4>2
      <4>3. CASE \E a \in Nat : ResolveSymbol(m, f) = {a} /\ Provides(m, f) = {a}
        <5>1. PICK a \in Nat : ResolveSymbol(m, f) = {a} /\ Provides(m, f) = {a}
          BY <4>3
        <5>2. now(s) = Applied(m, f, Content(image[m], s), a)
          BY <3>3, <3>5, <3>8, <5>1
        <5>3. Wanted(m, s) = a + f.addend
          BY <3>4, <3>8, <5>1, MaxOfOne
        <5> QED BY <3>1, <3>2, <5>2, <5>3 DEF Applied
      <4>4. CASE ResolveSymbol(m, f) = {0} /\ Provides(m, f) = {} /\ f.hidden /\ f.weak
        <5>1. now(s) = Applied(m, f, Content(image[m], s), 0)
          BY <3>3, <3>5, <3>8, <4>4
        <5>2. Wanted(m, s) = f.addend
          BY <3>4, <3>8, <4>4
        <5> QED BY <3>1, <3>2, <5>1, <5>2 DEF Applied
      <4> QED BY <3>1, <4>1, <4>2, <4>3, <4>4, ResolveIs
    <3> QED BY <3>6, <3>7, <3>8
  <2> QED BY <2>2, <2>3
<1>2. ResolveSymbols(m) = [mem EXCEPT ![m] = [s \in Slots |-> now(s)]]
  BY Zenon DEF ResolveSymbols
<1>3. [s \in Slots |-> now(s)] = [s \in Slots |-> Wanted(m, s)]
  BY <1>1
<1> HIDE DEF now
<1> QED BY <1>2, <1>3

-----------------------------------------------------------------------------
(* The invariance proof *)
LEMMA ImageStays ==
  ASSUME UNCHANGED image
  PROVE  /\ Modules' = Modules
         /\ \A m, s : RelocatedTo(m, s)' = RelocatedTo(m, s)
         /\ \A m, s : Wanted(m, s)' = Wanted(m, s)
<1>1. Modules' = Modules
  BY DEF Modules
<1>2. \A m, s : RelocatedTo(m, s)' = RelocatedTo(m, s)
  BY DEF RelocatedTo, Base, Content
<1>3. \A m, e : Provides(m, e)' = Provides(m, e)
  BY DEF Provides, Modules, Base
<1>4. \A m, s : Wanted(m, s)' = Wanted(m, s)
  BY <1>3 DEF Wanted, Base, Content
<1> QED BY <1>1, <1>2, <1>4

LEMMA InitInv == Init => IInv
<1> SUFFICES ASSUME Init PROVE IInv
  OBVIOUS
<1>1. image \in Images /\ phase = "self" /\ cursor = 1
  BY DEF Init
<1>2. CursorInv
  BY <1>1 DEF CursorInv
<1>3. ListInv
  BY <1>1 DEF Init, ListInv, Linear
<1>4. MemInv
  BY <1>1 DEF Init, MemInv, IsResolved, IsRelocated, IsLoaded
<1>5. ReferInv
  BY <1>1 DEF Init, ReferInv, IsReferred
<1>6. InitedInv
  BY <1>1 DEF Init, InitedInv, IsInited
<1> QED BY <1>1, <1>2, <1>3, <1>4, <1>5, <1>6 DEF IInv, Phases

(* What the invariant says of a step that leaves the slots alone. *)
LEMMA MemStays ==
  ASSUME IInv, UNCHANGED <<image, mem>>,
         \A m \in Modules : (IsResolved(m)' <=> IsResolved(m)) /\ (IsRelocated(m)' <=> IsRelocated(m))
  PROVE  MemInv'
  BY ImageStays DEF IInv, MemInv

LEMMA ListedStays ==
  ASSUME IInv, UNCHANGED <<image, listAt>>, \A m \in Modules : IsReferred(m)' <=> IsReferred(m)
  PROVE  ReferInv'
  BY ImageStays DEF IInv, ReferInv

LEMMA InitedStays ==
  ASSUME IInv, UNCHANGED <<image, inited>>, \A m \in Modules : IsInited(m)' <=> IsInited(m)
  PROVE  InitedInv'
  BY ImageStays DEF IInv, InitedInv

LEMMA SelfInv == ASSUME IInv, InitializeSelf PROVE IInv'
<1>1. /\ phase = "self" /\ phase' = "load" /\ cursor' = cursor /\ image' = image /\ cursor = 1
      /\ image \in Images
  BY DEF InitializeSelf, IInv, CursorInv
<1>2. Modules' = Modules /\ Modules = 1 .. Len(image) /\ Len(image) \in Nat \ {0}
  BY <1>1, ImageStays, ModulesAre
<1>3. CursorInv'
  BY <1>1, <1>2 DEF CursorInv
<1>4. ListInv'
  BY <1>1 DEF IInv, ListInv, Linear, InitializeSelf
<1>5. MemInv'
  <2>1. mem = [m \in Modules |-> [s \in Slots |-> Content(image[m], s)]]
    BY <1>1 DEF IInv, MemInv, IsResolved, IsRelocated, IsLoaded
  <2>2. mem' = [mem EXCEPT ![1] = [s \in Slots |-> RelocatedTo(1, s)]]
    BY <1>1, <1>2, <2>1, RelocateDoes DEF InitializeSelf
  <2>3. mem' = [m \in Modules |-> [s \in Slots |-> IF m = 1 THEN RelocatedTo(m, s) ELSE Content(image[m], s)]]
    BY <2>1, <2>2
  <2>4. \A m \in Modules : ~IsResolved(m)' /\ (IsRelocated(m)' <=> m = 1)
    BY <1>1, <1>2 DEF IsResolved, IsRelocated, IsLoaded
  <2> QED BY <1>1, <2>3, <2>4, ImageStays DEF MemInv
<1>6. ReferInv'
  BY <1>1, ListedStays DEF InitializeSelf, IsReferred
<1>7. InitedInv'
  BY <1>1, InitedStays DEF InitializeSelf, IsInited
<1> QED BY <1>1, <1>3, <1>4, <1>5, <1>6, <1>7 DEF IInv, Phases

LEMMA LoadInv == ASSUME IInv, LoadModule PROVE IInv'
<1>1. /\ phase = "load" /\ image' = image /\ cursor \in Modules /\ image \in Images
      /\ UNCHANGED inited
  BY DEF LoadModule, IInv
<1>2. Modules' = Modules /\ Modules = 1 .. Len(image) /\ Len(image) \in Nat \ {0}
  BY <1>1, ImageStays, ModulesAre
<1>3. CASE ~UsualLayout(image[cursor].perms)
  <2>1. phase' = "halted" /\ UNCHANGED <<mem, listAt, next, prev, cursor>>
    BY <1>3 DEF LoadModule
  <2>2. CursorInv'
    BY <1>1, <1>2, <2>1 DEF CursorInv
  <2>3. ListInv'
    BY <1>1, <2>1 DEF IInv, ListInv, Linear
  <2>4. MemInv'
    BY <1>1, <2>1, MemStays DEF IsResolved, IsRelocated, IsLoaded
  <2>5. ReferInv'
    BY <1>1, <2>1, ListedStays DEF IsReferred
  <2>6. InitedInv'
    BY <1>1, <2>1, InitedStays DEF IsInited
  <2> QED BY <1>1, <2>1, <2>2, <2>3, <2>4, <2>5, <2>6 DEF IInv, Phases
<1>4. CASE UsualLayout(image[cursor].perms)
  <2>1. InitializeModule(cursor) /\ PushFront(cursor) /\ cursor' = cursor + 1 /\ UNCHANGED phase
    BY <1>4 DEF LoadModule
  <2>2. CursorInv'
    BY <1>1, <1>2, <2>1 DEF CursorInv
  <2>3. ListInv'
    <3> DEFINE c == cursor
    <3>1. /\ next = [k \in 0 .. c - 1 |-> IF k = 0 THEN c - 1 ELSE k - 1]
          /\ prev = [k \in 0 .. c - 1 |-> IF k = c - 1 THEN 0 ELSE k + 1]
      BY <1>1 DEF IInv, ListInv, Linear
    <3>2. c \in Nat \ {0} /\ (c + 1) - 1 = c
      BY <1>1, <1>2
    <3>3. next' = [k \in 0 .. c |-> IF k = 0 THEN c ELSE k - 1]
      <4>1. next' = [k \in DOMAIN next \union {c} |-> IF k = c THEN next[0] ELSE IF k = 0 THEN c ELSE next[k]]
        BY <2>1 DEF PushFront
      <4>2. DOMAIN next \union {c} = 0 .. c /\ next[0] = c - 1
        BY <3>1, <3>2
      <4> HIDE DEF c
      <4> QED BY <3>1, <3>2, <4>1, <4>2
    <3>4. prev' = [k \in 0 .. c |-> IF k = c THEN 0 ELSE k + 1]
      <4>1. prev' = [k \in DOMAIN prev \union {c} |-> IF k = c THEN 0 ELSE IF k = next[0] THEN c ELSE prev[k]]
        BY <2>1 DEF PushFront
      <4>2. DOMAIN prev \union {c} = 0 .. c /\ next[0] = c - 1
        BY <3>1, <3>2
      <4> HIDE DEF c
      <4> QED BY <3>1, <3>2, <4>1, <4>2
    <3> QED BY <1>1, <2>1, <3>2, <3>3, <3>4 DEF ListInv, Linear
  <2>4. MemInv'
    <3>1. mem = [m \in Modules |-> [s \in Slots |-> IF m < cursor \/ m = 1 THEN RelocatedTo(m, s)
                                                    ELSE Content(image[m], s)]]
      BY <1>1 DEF IInv, MemInv, IsResolved, IsRelocated, IsLoaded
    <3>2. mem' = [m \in Modules |-> [s \in Slots |-> IF m < cursor + 1 \/ m = 1 THEN RelocatedTo(m, s)
                                                     ELSE Content(image[m], s)]]
      <4>1. CASE cursor = 1
        <5>1. mem' = mem
          BY <2>1, <4>1 DEF InitializeModule
        <5>2. \A m \in Modules : (m < cursor + 1 \/ m = 1) <=> (m < cursor \/ m = 1)
          BY <1>2, <4>1
        <5> QED BY <3>1, <5>1, <5>2
      <4>2. CASE cursor # 1
        <5>1. mem[cursor] = [s \in Slots |-> Content(image[cursor], s)]
          BY <1>1, <1>2, <3>1, <4>2
        <5>2. mem' = [mem EXCEPT ![cursor] = [s \in Slots |-> RelocatedTo(cursor, s)]]
          BY <1>1, <2>1, <3>1, <4>2, <5>1, RelocateDoes DEF InitializeModule
        <5>3. \A m \in Modules : (m < cursor + 1 \/ m = 1) <=> (m = cursor \/ m < cursor \/ m = 1)
          BY <1>1, <1>2
        <5> QED BY <1>1, <3>1, <5>2, <5>3
      <4> QED BY <4>1, <4>2
    <3>3. \A m \in Modules : ~IsResolved(m)' /\ (IsRelocated(m)' <=> m < cursor + 1 \/ m = 1)
      BY <1>1, <2>1 DEF IsResolved, IsRelocated, IsLoaded
    <3> QED BY <1>1, <3>2, <3>3, ImageStays DEF MemInv
  <2>5. ReferInv'
    <3>1. listAt = [m \in Modules |-> FALSE]
      BY <1>1 DEF IInv, ReferInv, IsReferred
    <3>2. listAt' = listAt
      BY <1>1, <2>1, <3>1 DEF InitializeModule
    <3> QED BY <1>1, <2>1, <3>2, ListedStays DEF IsReferred
  <2>6. InitedInv'
    BY <1>1, <2>1, InitedStays DEF IsInited
  <2> QED BY <1>1, <2>1, <2>2, <2>3, <2>4, <2>5, <2>6 DEF IInv, Phases
<1> QED BY <1>3, <1>4

LEMMA PhaseInv == ASSUME IInv, NextPhase PROVE IInv'
<1>1. image' = image /\ image \in Images /\ UNCHANGED <<mem, next, prev, listAt, inited>>
  BY DEF NextPhase, IInv
<1>2. Modules' = Modules /\ Modules = 1 .. Len(image) /\ Len(image) \in Nat \ {0}
  BY <1>1, ImageStays, ModulesAre
<1>3. CASE phase = "load" /\ cursor \notin Modules /\ phase' = "refer" /\ cursor' = prev[0]
  <2>1. cursor = Len(image) + 1 /\ Linear(Len(image))
    BY <1>2, <1>3 DEF IInv, CursorInv, ListInv
  <2>2. cursor' = 1
    BY <1>2, <1>3, <2>1 DEF Linear
  <2>3. \A m \in Modules :
          /\ m < cursor /\ ~(m < cursor') /\ cursor' # 0
          /\ IsResolved(m)' = IsResolved(m) /\ IsRelocated(m)' = IsRelocated(m)
          /\ IsReferred(m)' = IsReferred(m) /\ IsInited(m)' = IsInited(m)
    BY <1>2, <1>3, <2>1, <2>2 DEF IsResolved, IsRelocated, IsLoaded, IsReferred, IsInited
  <2>4. CursorInv' /\ ListInv'
    BY <1>1, <1>2, <1>3, <2>1, <2>2 DEF CursorInv, ListInv, Linear
  <2>5. MemInv' /\ ReferInv' /\ InitedInv'
    BY <1>1, <2>3, MemStays, ListedStays, InitedStays
  <2> QED BY <1>1, <1>3, <2>4, <2>5 DEF IInv, Phases
<1>4. CASE phase = "refer" /\ cursor = 0 /\ phase' = "resolve" /\ cursor' = prev[0]
  <2>1. Linear(Len(image))
    BY <1>4 DEF IInv, ListInv
  <2>2. cursor' = 1
    BY <1>2, <1>4, <2>1 DEF Linear
  <2>3. \A m \in Modules :
          /\ ~(m < cursor') /\ cursor' # 0
          /\ IsResolved(m)' = IsResolved(m) /\ IsRelocated(m)' = IsRelocated(m)
          /\ IsReferred(m)' = IsReferred(m) /\ IsInited(m)' = IsInited(m)
    BY <1>2, <1>4, <2>2 DEF IsResolved, IsRelocated, IsLoaded, IsReferred, IsInited
  <2>4. CursorInv' /\ ListInv'
    BY <1>1, <1>2, <1>4, <2>1, <2>2 DEF CursorInv, ListInv, Linear
  <2>5. MemInv' /\ ReferInv' /\ InitedInv'
    BY <1>1, <2>3, MemStays, ListedStays, InitedStays
  <2> QED BY <1>1, <1>4, <2>4, <2>5 DEF IInv, Phases
<1>5. CASE phase = "resolve" /\ cursor = 0 /\ phase' = "init" /\ cursor' = next[0]
  <2>1. Linear(Len(image))
    BY <1>5 DEF IInv, ListInv
  <2>2. cursor' = Len(image)
    BY <1>2, <1>5, <2>1 DEF Linear
  <2>3. \A m \in Modules :
          /\ ~(m > cursor')
          /\ IsResolved(m)' = IsResolved(m) /\ IsRelocated(m)' = IsRelocated(m)
          /\ IsReferred(m)' = IsReferred(m) /\ IsInited(m)' = IsInited(m)
    BY <1>2, <1>5, <2>2 DEF IsResolved, IsRelocated, IsLoaded, IsReferred, IsInited
  <2>4. CursorInv' /\ ListInv'
    BY <1>1, <1>2, <1>5, <2>1, <2>2 DEF CursorInv, ListInv, Linear
  <2>5. MemInv' /\ ReferInv' /\ InitedInv'
    BY <1>1, <2>3, MemStays, ListedStays, InitedStays
  <2> QED BY <1>1, <1>5, <2>4, <2>5 DEF IInv, Phases
<1>6. CASE phase = "init" /\ cursor = 0 /\ phase' = "main" /\ UNCHANGED cursor
  <2>1. Linear(Len(image))
    BY <1>6 DEF IInv, ListInv
  <2>2. \A m \in Modules :
          /\ m > cursor
          /\ IsResolved(m)' = IsResolved(m) /\ IsRelocated(m)' = IsRelocated(m)
          /\ IsReferred(m)' = IsReferred(m) /\ IsInited(m)' = IsInited(m)
    BY <1>2, <1>6 DEF IsResolved, IsRelocated, IsLoaded, IsReferred, IsInited
  <2>4. CursorInv' /\ ListInv'
    BY <1>1, <1>2, <1>6, <2>1 DEF CursorInv, ListInv, Linear
  <2>5. MemInv' /\ ReferInv' /\ InitedInv'
    BY <1>1, <2>2, MemStays, ListedStays, InitedStays
  <2> QED BY <1>1, <1>6, <2>4, <2>5 DEF IInv, Phases
<1> QED BY <1>3, <1>4, <1>5, <1>6 DEF NextPhase

(* A loop along prev comes from one module to the next in memory. *)
LEMMA LoopGoesOn ==
  ASSUME image \in Images, Linear(Len(image)), cursor \in Modules, cursor' = prev[cursor]
  PROVE  /\ cursor' \in {0} \union Modules
         /\ \A m \in Modules : (cursor' = 0 \/ m < cursor') <=> (m < cursor \/ m = cursor)
<1>1. Modules = 1 .. Len(image) /\ Len(image) \in Nat \ {0}
  BY ModulesAre
<1>2. cursor' = IF cursor = Len(image) THEN 0 ELSE cursor + 1
  BY <1>1 DEF Linear
<1> QED BY <1>1, <1>2

LEMMA ReferKeepsInv == ASSUME IInv, Refer PROVE IInv'
<1>1. /\ phase = "refer" /\ phase' = phase /\ image' = image /\ cursor \in Modules /\ image \in Images
      /\ cursor' = prev[cursor] /\ Linear(Len(image)) /\ UNCHANGED <<mem, next, prev, inited>>
  BY DEF Refer, IInv, CursorInv, ListInv
<1>2. Modules' = Modules
  BY <1>1, ImageStays
<1>3. /\ cursor' \in {0} \union Modules
      /\ \A m \in Modules : (cursor' = 0 \/ m < cursor') <=> (m < cursor \/ m = cursor)
  BY <1>1, LoopGoesOn
<1>4. CursorInv' /\ ListInv'
  BY <1>1, <1>2, <1>3 DEF CursorInv, ListInv, Linear
<1>5. MemInv'
  BY <1>1, MemStays DEF IsResolved, IsRelocated, IsLoaded
<1>6. InitedInv'
  BY <1>1, InitedStays DEF IsInited
<1>7. ReferInv'
  <2>1. cursor # 0
    BY <1>1, ModulesAre
  <2>2. listAt = [m \in Modules |-> m < cursor /\ image[m].listed]
    BY <1>1, <2>1 DEF IInv, ReferInv, IsReferred
  <2>3. listAt' = [listAt EXCEPT ![cursor] = listAt[cursor] \/ image[cursor].listed]
    BY DEF Refer
  <2>4. image[cursor].listed \in BOOLEAN
    BY <1>1, ModuleAssumption DEF Modules
  <2>5. \A m \in Modules : IsReferred(m)' <=> (m < cursor \/ m = cursor)
    BY <1>1, <1>3 DEF IsReferred
  <2>6. ~(cursor < cursor)
    BY <1>1, ModulesAre
  <2>7. ASSUME NEW m \in Modules PROVE listAt'[m] = (IsReferred(m)' /\ image[m].listed)
    BY <1>1, <2>2, <2>3, <2>4, <2>5, <2>6, <2>7
  <2>8. listAt' = [m \in Modules |-> listAt'[m]]
    BY <2>2, <2>3
  <2> QED BY <1>1, <1>2, <2>7, <2>8 DEF ReferInv
<1> QED BY <1>1, <1>4, <1>5, <1>6, <1>7 DEF IInv

LEMMA ResolveKeepsInv == ASSUME IInv, Resolve PROVE IInv'
<1>1. /\ phase = "resolve" /\ phase' = phase /\ image' = image /\ cursor \in Modules /\ image \in Images
      /\ cursor' = prev[cursor] /\ Linear(Len(image)) /\ UNCHANGED <<listAt, next, prev, inited>>
  BY DEF Resolve, IInv, CursorInv, ListInv
<1>2. Modules' = Modules
  BY <1>1, ImageStays
<1>3. /\ cursor' \in {0} \union Modules
      /\ \A m \in Modules : (cursor' = 0 \/ m < cursor') <=> (m < cursor \/ m = cursor)
  BY <1>1, LoopGoesOn
<1>4. CursorInv' /\ ListInv'
  BY <1>1, <1>2, <1>3 DEF CursorInv, ListInv, Linear
<1>5. ReferInv'
  BY <1>1, ListedStays DEF IsReferred
<1>6. InitedInv'
  BY <1>1, InitedStays DEF IsInited
<1>7. MemInv'
  <2>1. cursor # 0 /\ ~(cursor < cursor)
    BY <1>1, ModulesAre
  <2>2. mem = [m \in Modules |-> [s \in Slots |-> IF m < cursor THEN Wanted(m, s) ELSE RelocatedTo(m, s)]]
    BY <1>1, <2>1 DEF IInv, MemInv, IsResolved, IsRelocated, IsLoaded
  <2>3. mem[cursor] = [s \in Slots |-> RelocatedTo(cursor, s)]
    BY <1>1, <2>1, <2>2
  <2>4. mem' = [mem EXCEPT ![cursor] = [s \in Slots |-> Wanted(cursor, s)]]
    BY <1>1, <2>2, <2>3, ResolveDoes DEF Resolve
  <2>5. mem' = [m \in Modules |-> [s \in Slots |-> IF m < cursor \/ m = cursor THEN Wanted(m, s)
                                                   ELSE RelocatedTo(m, s)]]
    BY <1>1, <2>2, <2>4
  <2>6. \A m \in Modules : IsRelocated(m)' /\ (IsResolved(m)' <=> (m < cursor \/ m = cursor))
    BY <1>1, <1>3 DEF IsResolved, IsRelocated, IsLoaded
  <2> QED BY <1>1, <2>5, <2>6, ImageStays DEF MemInv
<1> QED BY <1>1, <1>4, <1>5, <1>6, <1>7 DEF IInv

LEMMA InitModulesKeepsInv == ASSUME IInv, InitModules PROVE IInv'
<1>1. /\ phase = "init" /\ phase' = phase /\ image' = image /\ cursor \in Modules /\ image \in Images
      /\ cursor' = next[cursor] /\ Linear(Len(image)) /\ UNCHANGED <<mem, listAt, next, prev>>
  BY DEF InitModules, IInv, CursorInv, ListInv
<1>2. Modules' = Modules /\ Modules = 1 .. Len(image) /\ Len(image) \in Nat \ {0}
  BY <1>1, ImageStays, ModulesAre
<1>3. cursor' = cursor - 1
  BY <1>1, <1>2 DEF Linear
<1>4. CursorInv' /\ ListInv'
  BY <1>1, <1>2, <1>3 DEF CursorInv, ListInv, Linear
<1>5. ReferInv'
  BY <1>1, ListedStays DEF IsReferred
<1>6. MemInv'
  BY <1>1, MemStays DEF IsResolved, IsRelocated, IsLoaded
<1>7. InitedInv'
  <2>1. /\ inited \in Seq(Modules)
        /\ \A k \in 1 .. Len(inited) - 1 : inited[k] > inited[k + 1]
        /\ {inited[k] : k \in DOMAIN inited} = {m \in Modules : image[m].init /\ m > cursor}
    BY <1>1 DEF IInv, InitedInv, IsInited
  <2>2. \A m \in Modules : IsInited(m)' <=> (m > cursor \/ m = cursor)
    BY <1>1, <1>2, <1>3 DEF IsInited
  <2>3. CASE image[cursor].init
    <3>1. inited' = Append(inited, cursor)
      BY <2>3 DEF InitModules
    <3>2. Len(inited') = Len(inited) + 1 /\ inited' \in Seq(Modules) /\ Len(inited) \in Nat
      BY <1>1, <2>1, <3>1
    <3>3. inited'[Len(inited) + 1] = cursor /\ \A k \in 1 .. Len(inited) : inited'[k] = inited[k]
      BY <1>1, <2>1, <3>1
    <3>4. \A k \in 1 .. Len(inited) : inited[k] > cursor
      BY <2>1
    <3>5. \A k \in 1 .. Len(inited') - 1 : inited'[k] > inited'[k + 1]
      <4> SUFFICES ASSUME NEW k \in 1 .. Len(inited) PROVE inited'[k] > inited'[k + 1]
        BY <3>2
      <4>1. CASE k = Len(inited)
        BY <3>3, <3>4, <4>1
      <4>2. CASE k # Len(inited)
        <5>1. k \in 1 .. Len(inited) - 1 /\ k + 1 \in 1 .. Len(inited)
          BY <3>2, <4>2
        <5> QED BY <2>1, <3>3, <5>1
      <4> QED BY <4>1, <4>2
    <3>6. {inited'[k] : k \in DOMAIN inited'} = {inited[k] : k \in DOMAIN inited} \union {cursor}
      <4>1. DOMAIN inited' = 1 .. Len(inited) + 1 /\ DOMAIN inited = 1 .. Len(inited)
        BY <2>1, <3>2
      <4>2. DOMAIN inited' = DOMAIN inited \union {Len(inited) + 1}
        BY <3>2, <4>1
      <4> QED BY <3>3, <4>1, <4>2
    <3>7. {inited'[k] : k \in DOMAIN inited'} = {m \in Modules : image[m].init /\ IsInited(m)'}
      BY <1>1, <2>1, <2>2, <2>3, <3>6
    <3> QED BY <1>1, <1>2, <3>2, <3>5, <3>7 DEF InitedInv
  <2>4. CASE ~image[cursor].init
    <3>1. inited' = inited
      BY <2>4 DEF InitModules
    <3>2. {inited[k] : k \in DOMAIN inited} = {m \in Modules : image[m].init /\ IsInited(m)'}
      BY <2>1, <2>2, <2>4
    <3> QED BY <1>1, <1>2, <2>1, <3>1, <3>2 DEF InitedInv
  <2> QED BY <2>3, <2>4
<1> QED BY <1>1, <1>4, <1>5, <1>6, <1>7 DEF IInv

LEMMA StutterInv == ASSUME IInv, UNCHANGED vars PROVE IInv'
<1>1. UNCHANGED <<image, mem, next, prev, listAt, inited, cursor, phase>>
  BY DEF vars
<1>2. CursorInv' /\ ListInv'
  BY <1>1, ImageStays DEF IInv, CursorInv, ListInv, Linear
<1>3. MemInv'
  BY <1>1, MemStays DEF IsResolved, IsRelocated, IsLoaded
<1>4. ReferInv'
  BY <1>1, ListedStays DEF IsReferred
<1>5. InitedInv'
  BY <1>1, InitedStays DEF IsInited
<1> QED BY <1>1, <1>2, <1>3, <1>4, <1>5 DEF IInv

LEMMA NextInv == IInv /\ [Next]_vars => IInv'
  BY SelfInv, LoadInv, PhaseInv, ReferKeepsInv, ResolveKeepsInv, InitModulesKeepsInv, StutterInv DEF Next

LEMMA InvHolds == Spec => []IInv
  BY InitInv, NextInv, PTL DEF Spec

-----------------------------------------------------------------------------
(* Lookup by either hash table finds a name iff the module defines it, for *)
(* every module, every hash function with its collisions, every number of  *)
(* buckets, order of symbols and size of the bloom filter.                 *)
THEOREM SymbolsAreFound == Spec => []LookupIsRight
<1>1. IInv => LookupIsRight
  BY LookupFinds DEF IInv, LookupIsRight, Found
<1> QED BY <1>1, InvHolds, PTL

(* When the first initializer runs, every slot of every module holds what  *)
(* it should and every list pointer is set, for any number of modules      *)
(* whatever they define, use and hide.                                     *)
THEOREM ModulesAreLinked == Spec => []LinkedBeforeInit
<1>1. ASSUME IInv, phase \in {"init", "main"}, NEW m \in Modules
      PROVE  (\A s \in Slots : mem[m][s] = Wanted(m, s)) /\ listAt[m] = image[m].listed
  <2>1. image[m].listed \in BOOLEAN
    BY <1>1, ModuleAssumption DEF IInv, Modules
  <2>2. IsResolved(m) /\ IsReferred(m)
    BY <1>1 DEF IsResolved, IsReferred
  <2>3. mem[m] = [s \in Slots |-> Wanted(m, s)]
    BY <1>1, <2>2 DEF IInv, MemInv
  <2>4. listAt[m] = image[m].listed
    BY <1>1, <2>1, <2>2 DEF IInv, ReferInv
  <2> QED BY <2>3, <2>4
<1>2. IInv => LinkedBeforeInit
  BY <1>1 DEF LinkedBeforeInit
<1> QED BY <1>2, InvHolds, PTL

(* Initializers run once each, from the last module to the first, and all  *)
(* of them before main.                                                    *)
THEOREM InitializersAreOrdered == Spec => []InitOrder
<1>1. IInv => InitOrder
  BY DEF IInv, InitedInv, InitOrder, IsInited
<1> QED BY <1>1, InvHolds, PTL
=============================================================================
