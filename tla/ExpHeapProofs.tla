--------------------------- MODULE ExpHeapProofs ---------------------------
(***************************************************************************)
(* For disciplined clients, any arenas, sizes and alignments: the heap's   *)
(* blocks are where its properties of ExpHeap say, no assertion fails, and *)
(* the heap implements Allocator.                                          *)
(*                                                                         *)
(* The properties need each other to be inductive: that a free block can   *)
(* be put into the list takes that the list is sorted with room between    *)
(* its blocks, that it covers no used block takes that those lie apart,    *)
(* with their paddings, which must lie in the arena and be word-aligned.   *)
(* HeapInv says this of a heap, so that the lemmas about the operators of  *)
(* ExpHeap, which make heaps of heaps, do not mention variables.           *)
(* Addresses that are no byte of a block are followed one by one.          *)
(***************************************************************************)
EXTENDS ExpHeap, FiniteSetTheorems, SequenceTheorems, WellFoundedInduction, TLAPS

Block == [at : Nat, size : Nat]
UsedBlock == [at : Nat, size : Nat, pad : 0 .. MaximumPaddingalignment - 1, dir : {"Front", "Back"}]

(* Where a used block begins, its padding included. *)
First(b) == b.at - b.pad

Sound(b) == Word(b.at) /\ Word(b.size) /\ b.size >= MinimumFreeBlockSize

(* A list of free blocks: in order, never one right behind another. *)
Spread(list) == \A i, j \in DOMAIN list : i < j => BlockEnd(list[i]) < list[j].at
FreeList(list, from, to) ==
  /\ list \in Seq(Block) /\ Spread(list)
  /\ \A i \in DOMAIN list : Sound(list[i]) /\ from <= list[i].at /\ BlockEnd(list[i]) <= to

(* What lies between two addresses has no byte of a block. *)
Off(from, to, b) == to <= b.at \/ BlockEnd(b) <= from
OffAll(from, to, list) == \A i \in DOMAIN list : Off(from, to, list[i])

UsedLie(h) ==
  \A b \in h.used : Sound(b) /\ Word(b.pad) /\ h.start <= First(b) /\ BlockEnd(b) <= h.stop
UsedApart(h) == \A b, c \in h.used : b # c => BlockEnd(b) <= First(c) \/ BlockEnd(c) <= First(b)
FreeApart(h) == \A b \in h.used : OffAll(First(b), BlockEnd(b), h.free)

Typed(h) ==
  /\ h \in [start : Nat, stop : Nat, free : Seq(Block), used : SUBSET UsedBlock,
            mode : Modes, margins : BOOLEAN]
  /\ h.start <= h.stop /\ h.stop < SizeMod
  /\ IsFiniteSet(h.used)

HeapInv(h) ==
  Typed(h) /\ FreeList(h.free, h.start, h.stop) /\ UsedLie(h) /\ UsedApart(h) /\ FreeApart(h)

IInv == HeapInv(heap) /\ aborted = "no"

(* An address that is no byte of a block, and what an operation that makes  *)
(* g of h does with these: all stay what they are, or fewer than the        *)
(* maximum padding are added, next to each other.                          *)
Stray(h, a) == OffAll(a, a + 1, h.free) /\ \A b \in h.used : a < First(b) \/ BlockEnd(b) <= a
Keeps(h, g) == \A a \in Nat : Stray(g, a) <=> Stray(h, a)
Drops(h, g) ==
  /\ \A a \in Nat : Stray(h, a) => Stray(g, a)
  /\ \E y \in Nat : \A a \in Nat : Stray(g, a) => Stray(h, a) \/ (y <= a /\ a < y + 127)

-----------------------------------------------------------------------------
(* Numbers *)
LEMMA LeastNumber ==
  ASSUME NEW T, T \subseteq Nat, T # {}
  PROVE  \E x \in T : \A y \in T : x <= y
<1> DEFINE below == OpToRel(<, Nat)
<1>1. PICK x \in T : \A y \in T : ~(<<y, x>> \in below)
  <2> HIDE DEF below
  <2>1. IsWellFoundedOn(below, Nat)
    BY NatLessThanWellFounded DEF below
  <2> QED BY <2>1, WFMin, Zenon
<1>2. \A y \in T : ~(y < x)
  BY <1>1 DEF OpToRel
<1> HIDE DEF below
<1>3. \A y \in T : x <= y
  BY <1>1, <1>2
<1> QED BY <1>3, <1>1

LEMMA GreatestNumber ==
  ASSUME NEW n \in Nat, NEW T, T \subseteq 1 .. n, T # {}
  PROVE  \E x \in T : \A y \in T : y <= x
<1> DEFINE mirrored == {i \in 0 .. n : n - i \in T}
<1>1. mirrored \subseteq Nat /\ mirrored # {}
  <2>1. PICK a \in T : TRUE
    OBVIOUS
  <2>2. a \in 1 .. n /\ n - a \in 0 .. n /\ n - (n - a) = a
    BY <2>1
  <2>3. n - a \in mirrored
    BY <2>1, <2>2
  <2>4. mirrored \subseteq Nat
    OBVIOUS
  <2> HIDE DEF mirrored
  <2> QED BY <2>3, <2>4
<1>2. PICK x \in mirrored : \A y \in mirrored : x <= y
  BY <1>1, LeastNumber
<1>3. n - x \in T /\ x \in 0 .. n
  BY <1>2
<1>4. ASSUME NEW y \in T PROVE y <= n - x
  <2>1. y \in 1 .. n /\ n - y \in mirrored
    OBVIOUS
  <2> HIDE DEF mirrored
  <2>2. x <= n - y
    BY <1>2, <2>1
  <2> QED BY <1>3, <2>1, <2>2
<1> HIDE DEF mirrored
<1> QED BY <1>3, <1>4

LEMMA SmallModulo ==
  ASSUME NEW n \in Nat, NEW m \in Nat, n < m
  PROVE  n % m = n
  BY Z3

LEMMA RoundedUp ==
  ASSUME NEW a \in Nat, NEW n \in Nat \ {0}
  PROVE  AlignUp(a, n) \in Nat /\ a <= AlignUp(a, n) /\ AlignUp(a, n) < a + n
<1> DEFINE x == a + n - 1
           q == x \div n
           r == x % n
<1>1. x \in Nat
  OBVIOUS
<1> HIDE DEF x
<1>2. q \in Nat /\ r \in 0 .. n - 1 /\ x = n * q + r
  BY <1>1, Z3
<1> HIDE DEF q, r
<1>3. AlignUp(a, n) = q * n
  BY DEF AlignUp, q, x
<1>4. q * n \in Int /\ q * n = n * q
  BY <1>2, Z3
<1>5. x = a + n - 1
  BY DEF x
<1> QED BY <1>2, <1>3, <1>4, <1>5

LEMMA Rounded ==
  ASSUME NEW a \in Nat, NEW n \in Nat \ {0}
  PROVE  AlignUp(a, n) % n = 0
<1> DEFINE q == (a + n - 1) \div n
<1>1. q \in Nat
  BY Z3
<1> HIDE DEF q
<1>2. (q * n) % n = 0
  BY <1>1, Z3
<1> QED BY <1>2 DEF AlignUp, q

(* Rounding to a multiple of 4 gives one. *)
LEMMA RoundedToWord ==
  ASSUME NEW a \in Nat, NEW n \in Nat \ {0}, n % 4 = 0
  PROVE  Word(AlignUp(a, n))
<1> DEFINE q == (a + n - 1) \div n
           m == n \div 4
<1>1. q \in Nat /\ m \in Nat /\ n = 4 * m
  BY Z3
<1> HIDE DEF q, m
<1>2. q * n = 4 * (q * m) /\ q * m \in Nat
  BY <1>1, Z3
<1>3. (4 * (q * m)) % 4 = 0
  <2> DEFINE z == q * m
  <2>1. z \in Nat
    BY <1>2
  <2> HIDE DEF z
  <2>2. (4 * z) % 4 = 0
    BY <2>1
  <2> QED BY <2>2 DEF z
<1> QED BY <1>2, <1>3 DEF Word, MinimumAlignment, AlignUp, q

LEMMA RoundedDown ==
  ASSUME NEW a \in Nat
  PROVE  /\ AlignDown(a, 4) \in Nat /\ Word(AlignDown(a, 4)) /\ AlignDown(a, 4) <= a
         /\ AlignUp(a, 4) \in Nat /\ Word(AlignUp(a, 4)) /\ a <= AlignUp(a, 4) /\ AlignUp(a, 4) < a + 4
  BY DEF AlignDown, AlignUp, Word, MinimumAlignment

(* An alignment that is accepted is a multiple of 4. *)
LEMMA ValidIs ==
  ASSUME NEW al \in Int, ValidAlignment(al)
  PROVE  /\ Widened(al) \in Nat \ {0} /\ Widened(al) % 4 = 0
         /\ Magnitude(al) \in Nat \ {0}
         /\ \A p \in Nat : p % Widened(al) = 0 => p % Magnitude(al) = 0
<1> DEFINE w == Widened(al)
           m == Magnitude(al)
<1>1. m \in Nat /\ w = IF m \in {1, 2} THEN 4 ELSE m
  BY DEF Magnitude, Widened, MinimumAlignment
<1>2. IsPowerOfTwo(w) /\ 4 <= w
  BY DEF ValidAlignment, MinimumAlignment
<1> HIDE DEF w, m
<1>3. m \in Nat \ {0} /\ w \in Nat
  BY <1>1, <1>2
<1>4. w % 4 = 0
  <2>1. w % 2 = 0
    <3>1. w \in 2 .. w /\ w % w = 0
      BY <1>2, <1>3, Z3
    <3> QED BY <1>2, <3>1 DEF IsPowerOfTwo
  <2>2. PICK k \in Nat : w = 2 * k
    <3>1. w \div 2 \in Nat /\ w = 2 * (w \div 2)
      BY <1>3, <2>1
    <3> QED BY <3>1
  <2>3. k \in 2 .. w /\ w % k = 0
    <3>1. k \in 2 .. w
      BY <1>2, <1>3, <2>2
    <3>2. (2 * k) % k = 0
      BY <3>1, Z3
    <3> QED BY <2>2, <3>1, <3>2
  <2>4. k % 2 = 0
    BY <1>2, <2>3 DEF IsPowerOfTwo
  <2> QED BY <2>2, <2>4
<1>5. \A p \in Nat : p % w = 0 => p % m = 0
  BY <1>1, <1>3
<1> QED BY <1>2, <1>3, <1>4, <1>5 DEF w, m

-----------------------------------------------------------------------------
(* Lists *)

(* What is left of a list when the blocks between its i-th and its j-th are *)
(* replaced by others.                                                     *)
Spliced(list, i, mid, j) == SubSeq(list, 1, i) \o mid \o SubSeq(list, j, Len(list))

LEMMA SplicedIs ==
  ASSUME NEW list \in Seq(Block), NEW i \in 0 .. Len(list), NEW j \in i + 1 .. Len(list) + 1,
         NEW mid \in Seq(Block)
  PROVE  /\ Spliced(list, i, mid, j) \in Seq(Block)
         /\ Len(Spliced(list, i, mid, j)) = Len(list) + Len(mid) - (j - i - 1)
         /\ \A k \in 1 .. i : Spliced(list, i, mid, j)[k] = list[k]
         /\ \A k \in 1 .. Len(mid) : Spliced(list, i, mid, j)[i + k] = mid[k]
         /\ \A k \in j .. Len(list) : Spliced(list, i, mid, j)[k + Len(mid) - (j - i - 1)] = list[k]
<1> DEFINE front == SubSeq(list, 1, i)
           back == SubSeq(list, j, Len(list))
           n == Len(list)
           m == Len(mid)
<1>1. n \in Nat /\ m \in Nat /\ \A k \in 1 .. n : list[k] \in Block
  OBVIOUS
<1>2. front \in Seq(Block) /\ Len(front) = i /\ \A k \in 1 .. i : front[k] = list[k]
  <2>1. \A k \in 1 .. i : list[k] \in Block
    BY <1>1
  <2>2. front \in Seq(Block) /\ Len(front) = IF 1 <= i THEN i - 1 + 1 ELSE 0
    BY <1>1, <2>1, SubSeqProperties
  <2>3. \A k \in 1 .. i - 1 + 1 : front[k] = list[1 + k - 1]
    BY <1>1, <2>1, SubSeqProperties
  <2> QED BY <2>2, <2>3
<1>3. back \in Seq(Block) /\ Len(back) = n - j + 1 /\ \A k \in 1 .. n - j + 1 : back[k] = list[j + k - 1]
  <2>1. \A k \in j .. n : list[k] \in Block
    BY <1>1
  <2>2. back \in Seq(Block) /\ Len(back) = IF j <= n THEN n - j + 1 ELSE 0
    BY <1>1, <2>1, SubSeqProperties
  <2>3. \A k \in 1 .. n - j + 1 : back[k] = list[j + k - 1]
    BY <1>1, <2>1, SubSeqProperties
  <2> QED BY <1>1, <2>2, <2>3
<1> HIDE DEF front, back, n, m
<1> DEFINE both == front \o mid
           all == both \o back
<1>4. /\ both \in Seq(Block) /\ Len(both) = i + m
      /\ \A k \in 1 .. i + m : both[k] = IF k <= i THEN front[k] ELSE mid[k - i]
  BY <1>2, ConcatProperties DEF m
<1> HIDE DEF both
<1>5. /\ all \in Seq(Block) /\ Len(all) = i + m + (n - j + 1)
      /\ \A k \in 1 .. i + m + (n - j + 1) : all[k] = IF k <= i + m THEN both[k] ELSE back[k - (i + m)]
  <2>1. both \in Seq(Block) /\ back \in Seq(Block)
    BY <1>3, <1>4
  <2>2. /\ all \in Seq(Block) /\ Len(all) = Len(both) + Len(back)
        /\ \A k \in 1 .. Len(both) + Len(back) : all[k] = IF k <= Len(both) THEN both[k] ELSE back[k - Len(both)]
    BY <2>1, ConcatProperties
  <2> HIDE DEF all
  <2> QED BY <1>3, <1>4, <2>2
<1>6. all = Spliced(list, i, mid, j)
  BY DEF Spliced, both, front, back
<1> HIDE DEF all
<1>7. i \in Nat /\ i <= n /\ j \in Nat /\ i < j /\ j <= n + 1
  BY <1>1 DEF n
<1>8. \A k \in 1 .. i : all[k] = list[k]
  BY <1>1, <1>2, <1>4, <1>5, <1>7
<1>9. \A k \in 1 .. m : all[i + k] = mid[k]
  <2> SUFFICES ASSUME NEW k \in 1 .. m PROVE all[i + k] = mid[k]
    OBVIOUS
  <2>1. i + k \in 1 .. i + m /\ i + k \in 1 .. i + m + (n - j + 1) /\ i + k - i = k
    BY <1>1, <1>7
  <2>2. all[i + k] = both[i + k]
    BY <1>5, <2>1
  <2>3. both[i + k] = mid[k]
    BY <1>1, <1>4, <1>7, <2>1
  <2> QED BY <2>2, <2>3
<1>10. \A k \in j .. n : all[k + m - (j - i - 1)] = list[k]
  <2> SUFFICES ASSUME NEW k \in j .. n PROVE all[k + m - (j - i - 1)] = list[k]
    OBVIOUS
  <2> DEFINE x == k + m - (j - i - 1)
  <2>1. x \in 1 .. i + m + (n - j + 1) /\ ~(x <= i + m) /\ x - (i + m) = k - j + 1
    BY <1>1, <1>7
  <2>2. all[x] = back[k - j + 1]
    BY <1>5, <2>1
  <2>3. k - j + 1 \in 1 .. n - j + 1 /\ j + (k - j + 1) - 1 = k
    BY <1>1, <1>7
  <2> QED BY <1>3, <2>2, <2>3
<1> QED BY <1>1, <1>5, <1>6, <1>7, <1>8, <1>9, <1>10 DEF n, m

LEMMA BlocksAssociate ==
  ASSUME NEW a \in Seq(Block), NEW b \in Seq(Block), NEW c \in Seq(Block)
  PROVE  (a \o b) \o c = a \o (b \o c)
  BY ConcatAssociative

(* Each block of it is one of the old or one of the new. *)
LEMMA SplicedHas ==
  ASSUME NEW list \in Seq(Block), NEW i \in 0 .. Len(list), NEW j \in i + 1 .. Len(list) + 1,
         NEW mid \in Seq(Block), NEW x \in DOMAIN Spliced(list, i, mid, j)
  PROVE  \/ x \in 1 .. i /\ x \in DOMAIN list /\ Spliced(list, i, mid, j)[x] = list[x]
         \/ \E k \in DOMAIN mid : x = i + k /\ Spliced(list, i, mid, j)[x] = mid[k]
         \/ \E k \in j .. Len(list) : /\ k \in DOMAIN list /\ x = k + Len(mid) - (j - i - 1)
                                      /\ Spliced(list, i, mid, j)[x] = list[k]
<1> DEFINE s == Spliced(list, i, mid, j)
           n == Len(list)
           m == Len(mid)
<1>1. /\ s \in Seq(Block) /\ Len(s) = n + m - (j - i - 1)
      /\ \A k \in 1 .. i : s[k] = list[k]
      /\ \A k \in 1 .. m : s[i + k] = mid[k]
      /\ \A k \in j .. n : s[k + m - (j - i - 1)] = list[k]
  BY SplicedIs
<1>2. n \in Nat /\ m \in Nat /\ DOMAIN list = 1 .. n /\ DOMAIN mid = 1 .. m
  OBVIOUS
<1>3. i \in Nat /\ i <= n /\ j \in Nat /\ i < j /\ j <= n + 1
  BY <1>2
<1> HIDE DEF s, n, m
<1>4. x \in 1 .. n + m - (j - i - 1)
  BY <1>1, <1>2, <1>3 DEF s
<1>5. CASE x <= i
  BY <1>1, <1>2, <1>3, <1>4, <1>5 DEF s
<1>6. CASE i < x /\ x <= i + m
  <2>1. x - i \in 1 .. m /\ x = i + (x - i)
    BY <1>2, <1>3, <1>4, <1>6
  <2>2. x - i \in DOMAIN mid /\ s[x] = mid[x - i]
    BY <1>1, <1>2, <2>1
  <2> QED BY <2>1, <2>2 DEF s
<1>7. CASE i + m < x
  <2> DEFINE k == x - m + (j - i - 1)
  <2>1. k \in j .. n /\ x = k + m - (j - i - 1)
    BY <1>2, <1>3, <1>4, <1>7
  <2> HIDE DEF k
  <2>2. k \in DOMAIN list /\ s[x] = list[k]
    BY <1>1, <1>2, <1>3, <2>1
  <2>3. k \in j .. Len(list) /\ x = k + Len(mid) - (j - i - 1)
    BY <2>1 DEF n, m
  <2> QED BY <2>2, <2>3 DEF s
<1> QED BY <1>2, <1>3, <1>4, <1>5, <1>6, <1>7

(* Each of the old that is not cut out and each of the new is a block of it. *)
LEMMA SplicedKeeps ==
  ASSUME NEW list \in Seq(Block), NEW i \in 0 .. Len(list), NEW j \in i + 1 .. Len(list) + 1,
         NEW mid \in Seq(Block)
  PROVE  /\ \A k \in 1 .. i : \E x \in DOMAIN Spliced(list, i, mid, j) : Spliced(list, i, mid, j)[x] = list[k]
         /\ \A k \in DOMAIN mid : \E x \in DOMAIN Spliced(list, i, mid, j) : Spliced(list, i, mid, j)[x] = mid[k]
         /\ \A k \in j .. Len(list) :
              \E x \in DOMAIN Spliced(list, i, mid, j) : Spliced(list, i, mid, j)[x] = list[k]
<1> DEFINE s == Spliced(list, i, mid, j)
           n == Len(list)
           m == Len(mid)
<1>1. /\ s \in Seq(Block) /\ Len(s) = n + m - (j - i - 1)
      /\ \A k \in 1 .. i : s[k] = list[k]
      /\ \A k \in 1 .. m : s[i + k] = mid[k]
      /\ \A k \in j .. n : s[k + m - (j - i - 1)] = list[k]
  BY SplicedIs
<1>2. n \in Nat /\ m \in Nat /\ DOMAIN mid = 1 .. m
  OBVIOUS
<1>3. i \in Nat /\ i <= n /\ j \in Nat /\ i < j /\ j <= n + 1
  BY <1>2
<1>4. DOMAIN s = 1 .. n + m - (j - i - 1)
  BY <1>1
<1> HIDE DEF s, n, m
<1>5. \A k \in 1 .. i : k \in DOMAIN s
  BY <1>2, <1>3, <1>4
<1>6. \A k \in 1 .. m : i + k \in DOMAIN s
  BY <1>2, <1>3, <1>4
<1>7. \A k \in j .. n : k + m - (j - i - 1) \in DOMAIN s
  BY <1>2, <1>3, <1>4
<1>8. /\ \A k \in 1 .. i : \E x \in DOMAIN s : s[x] = list[k]
      /\ \A k \in 1 .. m : \E x \in DOMAIN s : s[x] = mid[k]
      /\ \A k \in j .. n : \E x \in DOMAIN s : s[x] = list[k]
  BY <1>1, <1>5, <1>6, <1>7
<1> QED BY <1>2, <1>8 DEF s, n

LEMMA BlockIs ==
  ASSUME NEW b \in Block
  PROVE  /\ b.at \in Nat /\ b.size \in Nat
         /\ BlockEnd(b) \in Nat /\ BlockEnd(b) = b.at + 32 + b.size
  BY DEF Block, BlockEnd, Pointer, BlockHead

LEMMA SplicedSpread ==
  ASSUME NEW list \in Seq(Block), NEW i \in 0 .. Len(list), NEW j \in i + 1 .. Len(list) + 1,
         NEW mid \in Seq(Block), Spread(list), Spread(mid),
         \A m \in DOMAIN mid : /\ \A k \in 1 .. i : BlockEnd(list[k]) < mid[m].at
                               /\ \A k \in j .. Len(list) : BlockEnd(mid[m]) < list[k].at
  PROVE  Spread(Spliced(list, i, mid, j))
<1> DEFINE s == Spliced(list, i, mid, j)
           n == Len(list)
           old(x) == x \in 1 .. i /\ x \in DOMAIN list /\ s[x] = list[x]
           new(x) == \E k \in DOMAIN mid : x = i + k /\ s[x] = mid[k]
           late(x) == \E k \in j .. n : /\ k \in DOMAIN list /\ x = k + Len(mid) - (j - i - 1)
                                        /\ s[x] = list[k]
<1> SUFFICES ASSUME NEW x \in DOMAIN s, NEW y \in DOMAIN s, x < y
             PROVE  BlockEnd(s[x]) < s[y].at
  BY DEF Spread
<1>1. /\ old(x) \/ new(x) \/ late(x)
      /\ old(y) \/ new(y) \/ late(y)
  BY SplicedHas
<1>2. n \in Nat /\ Len(mid) \in Nat /\ DOMAIN mid = 1 .. Len(mid) /\ i \in Nat /\ j \in Nat /\ i < j
  OBVIOUS
<1>3. /\ \A a, b \in DOMAIN list : a < b => BlockEnd(list[a]) < list[b].at
      /\ \A a, b \in DOMAIN mid : a < b => BlockEnd(mid[a]) < mid[b].at
  BY DEF Spread
<1>4. DOMAIN s = 1 .. Len(s) /\ Len(s) \in Nat /\ x \in Nat /\ y \in Nat
  <2>1. s \in Seq(Block)
    BY SplicedIs
  <2> HIDE DEF s
  <2>2. DOMAIN s = 1 .. Len(s) /\ Len(s) \in Nat
    BY <2>1
  <2> QED BY <2>2
<1> HIDE DEF s, n
<1>5. CASE old(x) /\ old(y)
  BY <1>3, <1>5
<1>6. CASE old(x) /\ new(y)
  BY <1>6
<1>7. CASE old(x) /\ late(y)
  BY <1>2, <1>3, <1>7
<1>8. CASE new(x) /\ new(y)
  BY <1>2, <1>3, <1>4, <1>8
<1>9. CASE new(x) /\ late(y)
  BY <1>9 DEF n
<1>10. CASE late(x) /\ late(y)
  <2>1. PICK a \in j .. n : a \in DOMAIN list /\ x = a + Len(mid) - (j - i - 1) /\ s[x] = list[a]
    BY <1>10
  <2>2. PICK b \in j .. n : b \in DOMAIN list /\ y = b + Len(mid) - (j - i - 1) /\ s[y] = list[b]
    BY <1>10
  <2>3. a < b
    BY <1>2, <2>1, <2>2
  <2> QED BY <1>3, <2>1, <2>2, <2>3
<1>11. ~(new(x) /\ old(y)) /\ ~(late(x) /\ old(y))
  BY <1>2, <1>4
<1>12. ~(late(x) /\ new(y))
  <2> SUFFICES ASSUME NEW a \in j .. n, NEW m \in 1 .. Len(mid),
                      x = a + Len(mid) - (j - i - 1), y = i + m
               PROVE  FALSE
    BY <1>2
  <2> QED BY <1>2, <1>4
<1> QED BY <1>1, <1>5, <1>6, <1>7, <1>8, <1>9, <1>10, <1>11, <1>12

(* The blocks below an address come first in the list. *)
LEMMA BelowIs ==
  ASSUME NEW list \in Seq(Block), Spread(list), NEW a \in Nat
  PROVE  /\ Below(list, a) \in 0 .. Len(list)
         /\ \A i \in DOMAIN list : list[i].at < a <=> i <= Below(list, a)
<1> DEFINE T == {i \in DOMAIN list : list[i].at < a}
           n == Len(list)
<1>1. n \in Nat /\ DOMAIN list = 1 .. n /\ \A i \in 1 .. n : list[i] \in Block
  OBVIOUS
<1>2. \A i, j \in 1 .. n : i < j => list[i].at < list[j].at
  <2> SUFFICES ASSUME NEW i \in 1 .. n, NEW j \in 1 .. n, i < j PROVE list[i].at < list[j].at
    OBVIOUS
  <2>1. BlockEnd(list[i]) < list[j].at
    BY <1>1 DEF Spread
  <2>2. list[i] \in Block /\ list[j] \in Block
    BY <1>1
  <2>3. list[i].at \in Nat /\ list[i].size \in Nat /\ BlockEnd(list[i]) = list[i].at + 32 + list[i].size
    BY <2>2, BlockIs
  <2>4. list[j].at \in Nat
    BY <2>2, BlockIs
  <2> HIDE DEF T, n
  <2> QED BY <2>1, <2>3, <2>4, SMTT(30)
<1> HIDE DEF n
<1>3. PICK k \in 0 .. n : T = 1 .. k
  <2>1. CASE T = {}
    <3>1. 0 \in 0 .. n
      BY <1>1
    <3>2. 1 .. 0 = {}
      OBVIOUS
    <3> HIDE DEF T
    <3> QED BY <2>1, <3>1, <3>2
  <2>2. CASE T # {}
    <3>1. T \subseteq 1 .. n
      BY <1>1
    <3>2. PICK k \in T : \A i \in T : i <= k
      BY <1>1, <2>2, <3>1, GreatestNumber
    <3>3. k \in 1 .. n /\ list[k].at < a
      BY <1>1
    <3>4. ASSUME NEW i \in 1 .. k PROVE i \in T
      <4>1. i \in 1 .. n /\ (i = k \/ i < k)
        BY <1>1, <3>3
      <4>2. list[i].at \in Nat /\ list[k].at \in Nat
        BY <1>1, <3>3, <4>1, BlockIs
      <4>3. list[i].at < a
        BY <1>2, <3>3, <4>1, <4>2
      <4> QED BY <1>1, <4>1, <4>3
    <3>5. T = 1 .. k
      BY <1>1, <3>1, <3>2, <3>3, <3>4
    <3> QED BY <3>3, <3>5
  <2> QED BY <2>1, <2>2
<1>4. Below(list, a) = Cardinality(T)
  BY DEF Below
<1> HIDE DEF T
<1>5. Cardinality(1 .. k) = k
  <2>1. k \in Nat
    BY <1>1
  <2>2. Cardinality(1 .. k) = IF 1 > k THEN 0 ELSE k - 1 + 1
    BY <2>1, FS_Interval
  <2> QED BY <2>1, <2>2
<1>6. \A i \in DOMAIN list : list[i].at < a <=> i \in 1 .. k
  BY <1>3 DEF T
<1> QED BY <1>1, <1>3, <1>4, <1>5, <1>6 DEF n

-----------------------------------------------------------------------------
(* The operators on heaps *)
LEMMA FreeBlockIs ==
  ASSUME NEW from \in Nat, NEW to \in Nat, HoldsBlock(Region(from, to)), to <= SizeMod,
         Word(from), Word(to)
  PROVE  /\ FreeBlock(Region(from, to)) \in Block /\ Sound(FreeBlock(Region(from, to)))
         /\ FreeBlock(Region(from, to)).at = from /\ BlockEnd(FreeBlock(Region(from, to))) = to
<1> DEFINE n == to - from - 32
<1>1. n \in Nat /\ n >= 4 /\ n < SizeMod /\ SizeMod \in Nat
  BY ExpHeapAssumption DEF HoldsBlock, Length, Region, BlockHead, MinimumFreeBlockSize
<1>2. n % SizeMod = n
  BY <1>1, SmallModulo
<1>3. FreeBlock(Region(from, to)) = [at |-> from, size |-> n]
  BY <1>2 DEF FreeBlock, Region, BlockHead
<1>4. n % 4 = 0
  BY <1>1 DEF Word, MinimumAlignment
<1>5. from + 32 + n = to
  BY <1>1
<1> HIDE DEF n
<1> QED BY <1>1, <1>3, <1>4, <1>5 DEF Block, Sound, Word, MinimumAlignment, MinimumFreeBlockSize, BlockEnd, Pointer, BlockHead

(* CoalesceFreedRegion adds the region to the list, or leaves the list as   *)
(* it is if a block needs more room.  What was off both is off the result.  *)
LEMMA CoalesceIs ==
  ASSUME NEW from \in Nat, NEW to \in Nat, to <= SizeMod,
         NEW list, FreeList(list, from, to),
         NEW s \in Nat, NEW e \in Nat, from <= s, s < e, e <= to, Word(s), Word(e), OffAll(s, e, list)
  PROVE  /\ FreeList(Coalesce(list, Region(s, e)).list, from, to)
         /\ Coalesce(list, Region(s, e)).ok \in BOOLEAN
         /\ e - s >= 36 => Coalesce(list, Region(s, e)).ok
         /\ ~Coalesce(list, Region(s, e)).ok => Coalesce(list, Region(s, e)).list = list
         /\ \A p, q \in Nat : p < q /\ OffAll(p, q, list) /\ (q <= s \/ e <= p)
                                => OffAll(p, q, Coalesce(list, Region(s, e)).list)
         /\ Coalesce(list, Region(s, e)).ok =>
              \A p, q \in Nat : p < q /\ OffAll(p, q, Coalesce(list, Region(s, e)).list)
                                => OffAll(p, q, list) /\ (q <= s \/ e <= p)
<1> DEFINE region == Region(s, e)
           k == Below(list, s)
           n == Len(list)
           joinsPrev == k > 0 /\ BlockEnd(list[k]) = s
           joinsNext == k < n /\ list[k + 1].at = e
           start == IF joinsPrev THEN list[k].at ELSE s
           stop == IF joinsNext THEN BlockEnd(list[k + 1]) ELSE e
           i == IF joinsPrev THEN k - 1 ELSE k
           j == IF joinsNext THEN k + 2 ELSE k + 1
           whole == Region(start, stop)
           new == FreeBlock(whole)
           c == Coalesce(list, region)
<1>1. /\ list \in Seq(Block) /\ Spread(list) /\ n \in Nat /\ DOMAIN list = 1 .. n
      /\ \A x \in 1 .. n : /\ list[x] \in Block /\ Sound(list[x]) /\ from <= list[x].at /\ BlockEnd(list[x]) <= to
                           /\ list[x].at \in Nat /\ BlockEnd(list[x]) \in Nat
                           /\ list[x].at + 36 <= BlockEnd(list[x])
                           /\ Word(list[x].at) /\ Word(BlockEnd(list[x]))
      /\ \A x, y \in 1 .. n : x < y => BlockEnd(list[x]) < list[y].at
      /\ \A x \in 1 .. n : e <= list[x].at \/ BlockEnd(list[x]) <= s
  <2>1. /\ list \in Seq(Block) /\ Spread(list)
        /\ \A x \in DOMAIN list : Sound(list[x]) /\ from <= list[x].at /\ BlockEnd(list[x]) <= to
    BY DEF FreeList
  <2>2. n \in Nat /\ DOMAIN list = 1 .. n /\ \A x \in 1 .. n : list[x] \in Block
    BY <2>1
  <2> HIDE DEF n
  <2>3. \A x, y \in 1 .. n : x < y => BlockEnd(list[x]) < list[y].at
    BY <2>1, <2>2 DEF Spread
  <2>4. \A x \in 1 .. n : e <= list[x].at \/ BlockEnd(list[x]) <= s
    BY <2>2 DEF OffAll, Off
  <2>5. ASSUME NEW x \in 1 .. n
        PROVE  /\ list[x].at \in Nat /\ BlockEnd(list[x]) \in Nat
               /\ list[x].at + 36 <= BlockEnd(list[x])
               /\ Word(list[x].at) /\ Word(BlockEnd(list[x]))
    <3>1. list[x] \in Block /\ Sound(list[x])
      BY <2>1, <2>2
    <3>2. /\ list[x].at \in Nat /\ list[x].size \in Nat /\ BlockEnd(list[x]) = list[x].at + 32 + list[x].size
          /\ list[x].size >= 4 /\ list[x].at % 4 = 0 /\ list[x].size % 4 = 0
      BY <3>1, BlockIs DEF Sound, Word, MinimumAlignment, MinimumFreeBlockSize
    <3>3. \A a, z \in Nat : a % 4 = 0 /\ z % 4 = 0 => (a + 32 + z) % 4 = 0
      OBVIOUS
    <3>4. BlockEnd(list[x]) % 4 = 0
      BY <3>2, <3>3
    <3> QED BY <3>2, <3>4 DEF Word, MinimumAlignment
  <2> QED BY <2>1, <2>2, <2>3, <2>4, <2>5
<1>2. k \in 0 .. n /\ \A x \in 1 .. n : list[x].at < s <=> x <= k
  BY <1>1, BelowIs
<1>3. c = IF HoldsBlock(whole)
          THEN [ok |-> TRUE, list |-> Spliced(list, i, <<new>>, j)]
          ELSE [ok |-> FALSE, list |-> SubSeq(list, 1, i) \o SubSeq(list, j, n)]
  BY DEF Coalesce, Region, Inserted, Spliced
<1> HIDE DEF n, k
<1>4. i \in 0 .. n /\ j \in i + 1 .. n + 1 /\ i <= k /\ k < j
  BY <1>1, <1>2
<1>5. /\ start \in Nat /\ stop \in Nat /\ from <= start /\ start <= s /\ e <= stop /\ stop <= to
      /\ Word(start) /\ Word(stop)
      /\ joinsPrev \/ joinsNext => stop - start >= 36
  <2>1. joinsPrev => k \in 1 .. n
    BY <1>1, <1>2
  <2>2. joinsNext => k + 1 \in 1 .. n
    BY <1>1, <1>2
  <2>3. /\ start \in Nat /\ from <= start /\ start <= s /\ Word(start)
        /\ joinsPrev => s - start >= 36
    <3>1. CASE joinsPrev
      BY <1>1, <2>1, <3>1
    <3>2. CASE ~joinsPrev
      BY <3>2
    <3> QED BY <3>1, <3>2
  <2>4. /\ stop \in Nat /\ e <= stop /\ stop <= to /\ Word(stop)
        /\ joinsNext => stop - e >= 36
    <3>1. CASE joinsNext
      BY <1>1, <2>2, <3>1
    <3>2. CASE ~joinsNext
      BY <3>2
    <3> QED BY <3>1, <3>2
  <2> HIDE DEF start, stop, joinsPrev, joinsNext
  <2> QED BY <2>3, <2>4
<1>6. \A x \in 1 .. i : BlockEnd(list[x]) < start
  <2> SUFFICES ASSUME NEW x \in 1 .. i PROVE BlockEnd(list[x]) < start
    OBVIOUS
  <2>1. x \in 1 .. n /\ x <= k /\ k \in 1 .. n
    <3>1. x \in Nat /\ 1 <= x /\ x <= i
      BY <1>4
    <3> HIDE DEF i, j, start, stop, joinsPrev, joinsNext
    <3> QED BY <1>1, <1>2, <1>4, <3>1
  <2>2. list[x].at < s /\ BlockEnd(list[x]) <= s
    BY <1>1, <1>2, <2>1
  <2>3. CASE joinsPrev
    BY <1>1, <2>1, <2>3
  <2>4. CASE ~joinsPrev
    <3>1. list[k].at < s /\ BlockEnd(list[k]) # s
      BY <1>1, <1>2, <2>1, <2>4
    <3>2. BlockEnd(list[k]) < s
      <4>1. e <= list[k].at \/ BlockEnd(list[k]) <= s
        BY <1>1, <2>1
      <4>2. list[k].at \in Nat /\ BlockEnd(list[k]) \in Nat
        BY <1>1, <2>1
      <4> QED BY <3>1, <4>1, <4>2
    <3>3. x < k => BlockEnd(list[x]) < list[k].at
      BY <1>1, <2>1
    <3> QED BY <1>1, <2>1, <2>4, <3>1, <3>2, <3>3
  <2> QED BY <2>3, <2>4
<1>7. \A x \in j .. n : stop < list[x].at
  <2> SUFFICES ASSUME NEW x \in j .. n PROVE stop < list[x].at
    OBVIOUS
  <2>1. x \in 1 .. n /\ ~(x <= k) /\ k + 1 \in 1 .. n
    BY <1>1, <1>2, <1>4
  <2>2. e <= list[k + 1].at
    BY <1>1, <1>2, <2>1
  <2>3. k + 1 < x => BlockEnd(list[k + 1]) < list[x].at
    BY <1>1, <2>1
  <2>4. CASE joinsNext
    <3>1. stop = BlockEnd(list[k + 1]) /\ j = k + 2
      BY <2>4
    <3>2. k + 1 < x
      BY <1>1, <1>2, <2>1, <3>1
    <3> QED BY <2>3, <3>1, <3>2
  <2>5. CASE ~joinsNext
    <3>1. list[k + 1].at # e
      BY <1>1, <1>2, <2>1, <2>5
    <3>2. stop = e /\ list[k + 1].at \in Nat /\ list[k + 1].at <= BlockEnd(list[k + 1]) /\ BlockEnd(list[k + 1]) \in Nat
      BY <1>1, <2>1, <2>5
    <3>3. e < list[k + 1].at
      BY <2>2, <3>1, <3>2
    <3>4. x = k + 1 \/ k + 1 < x
      BY <1>1, <1>2, <2>1
    <3>5. list[x].at \in Nat
      BY <1>1, <2>1
    <3> HIDE DEF stop
    <3> QED BY <2>3, <3>2, <3>3, <3>4, <3>5
  <2> QED BY <2>4, <2>5
<1>8. HoldsBlock(whole) <=> stop - start >= 36
  BY DEF HoldsBlock, Length, Region, BlockHead, MinimumFreeBlockSize
<1>9. \A p, q \in Nat : p < q /\ OffAll(p, q, list) /\ (q <= s \/ e <= p) => q <= start \/ stop <= p
  <2> SUFFICES ASSUME NEW p \in Nat, NEW q \in Nat, p < q, OffAll(p, q, list), q <= s \/ e <= p
               PROVE  q <= start \/ stop <= p
    OBVIOUS
  <2>1. \A x \in 1 .. n : q <= list[x].at \/ BlockEnd(list[x]) <= p
    BY <1>1 DEF OffAll, Off
  <2>2. q <= s => q <= start
    <3>1. joinsPrev => k \in 1 .. n
      BY <1>1, <1>2
    <3> QED BY <1>1, <2>1, <3>1
  <2>3. e <= p => stop <= p
    <3>1. joinsNext => k + 1 \in 1 .. n
      BY <1>1, <1>2
    <3> QED BY <1>1, <2>1, <3>1
  <2> QED BY <2>2, <2>3
<1>10. ~HoldsBlock(whole) => ~joinsPrev /\ ~joinsNext /\ ~(e - s >= 36) /\ c.ok = FALSE /\ c.list = list
  <2> SUFFICES ASSUME ~HoldsBlock(whole)
               PROVE  ~joinsPrev /\ ~joinsNext /\ ~(e - s >= 36) /\ c.ok = FALSE /\ c.list = list
    OBVIOUS
  <2>1. ~joinsPrev /\ ~joinsNext
    BY <1>5, <1>8
  <2>2. i = k /\ j = k + 1 /\ start = s /\ stop = e
    BY <2>1
  <2>3. c.ok = FALSE /\ c.list = SubSeq(list, 1, k) \o SubSeq(list, k + 1, n)
    <3>1. c = [ok |-> FALSE, list |-> SubSeq(list, 1, i) \o SubSeq(list, j, n)]
      BY <1>3
    <3> HIDE DEF c
    <3> QED BY <2>2, <3>1
  <2>4. SubSeq(list, 1, k) \o SubSeq(list, k + 1, n) = SubSeq(list, 1, n)
    <3>1. 1 \in 1 .. Len(list) + 1 /\ k \in 1 - 1 .. Len(list) /\ n \in k .. Len(list)
      BY <1>1, <1>2 DEF n
    <3> QED BY <1>1, <3>1, ConcatAdjacentSubSeq
  <2>5. SubSeq(list, 1, n) = list
    BY <1>1, SubSeqFull DEF n
  <2> QED BY <1>8, <2>1, <2>2, <2>3, <2>4, <2>5
<1>13. \A x \in 1 .. n : i < x /\ x < j => start <= list[x].at /\ BlockEnd(list[x]) <= stop
  <2> SUFFICES ASSUME NEW x \in 1 .. n, i < x, x < j PROVE start <= list[x].at /\ BlockEnd(list[x]) <= stop
    OBVIOUS
  <2>1. x = k \/ x = k + 1
    BY <1>1, <1>2, SMTT(30)
  <2>2. CASE x = k
    <3>1. joinsPrev /\ BlockEnd(list[x]) = s /\ start = list[x].at
      BY <1>1, <1>2, <2>2
    <3> HIDE DEF start, stop, i, j, joinsPrev, joinsNext
    <3> QED BY <1>1, <1>5, <3>1
  <2>3. CASE x = k + 1
    <3>1. joinsNext /\ list[x].at = e /\ stop = BlockEnd(list[x])
      BY <1>1, <1>2, <2>3
    <3> HIDE DEF start, stop, i, j, joinsPrev, joinsNext
    <3> QED BY <1>1, <1>5, <3>1, SMTT(30)
  <2> QED BY <2>1, <2>2, <2>3
<1> HIDE DEF start, stop, i, j, joinsPrev, joinsNext, c
<1>11. CASE ~HoldsBlock(whole)
  BY <1>10, <1>11 DEF c
<1>12. CASE HoldsBlock(whole)
  <2>1. new \in Block /\ Sound(new) /\ new.at = start /\ BlockEnd(new) = stop
    <3>1. stop <= SizeMod
      BY <1>5, ExpHeapAssumption
    <3> QED BY <1>5, <1>12, <3>1, FreeBlockIs
  <2> HIDE DEF new, whole
  <2> DEFINE mid == <<new>>
             l == Spliced(list, i, mid, j)
  <2>2. mid \in Seq(Block) /\ DOMAIN mid = {1} /\ mid[1] = new
    BY <2>1
  <2> HIDE DEF mid
  <2>3. c.ok = TRUE /\ c.list = l
    BY <1>3, <1>12 DEF mid
  <2>4. Spread(mid)
    BY <2>2 DEF Spread
  <2>5. i \in 0 .. Len(list) /\ j \in i + 1 .. Len(list) + 1
    BY <1>4 DEF n
  <2>6. l \in Seq(Block) /\ Spread(l)
    <3>1. \A m \in DOMAIN mid : /\ \A x \in 1 .. i : BlockEnd(list[x]) < mid[m].at
                                /\ \A x \in j .. Len(list) : BlockEnd(mid[m]) < list[x].at
      BY <1>6, <1>7, <2>1, <2>2 DEF n
    <3>2. Spread(l)
      BY <1>1, <2>2, <2>4, <2>5, <3>1, SplicedSpread
    <3> QED BY <1>1, <2>2, <2>5, <3>2, SplicedIs
  <2>7. ASSUME NEW x \in DOMAIN l
        PROVE  (\E y \in 1 .. n : l[x] = list[y]) \/ l[x] = new
    <3>1. \/ x \in 1 .. i /\ x \in DOMAIN list /\ l[x] = list[x]
          \/ \E m \in DOMAIN mid : x = i + m /\ l[x] = mid[m]
          \/ \E m \in j .. Len(list) : /\ m \in DOMAIN list /\ x = m + Len(mid) - (j - i - 1)
                                       /\ l[x] = list[m]
      BY <1>1, <2>2, <2>5, SplicedHas
    <3> HIDE DEF l
    <3> QED BY <1>1, <2>2, <3>1
  <2>10. /\ \A x \in 1 .. i : \E y \in DOMAIN l : l[y] = list[x]
         /\ \A x \in j .. n : \E y \in DOMAIN l : l[y] = list[x]
         /\ \E y \in DOMAIN l : l[y] = new
    <3>1. /\ \A x \in 1 .. i : \E y \in DOMAIN l : l[y] = list[x]
          /\ \A x \in DOMAIN mid : \E y \in DOMAIN l : l[y] = mid[x]
          /\ \A x \in j .. Len(list) : \E y \in DOMAIN l : l[y] = list[x]
      BY <1>1, <2>2, <2>5, SplicedKeeps
    <3> HIDE DEF l
    <3> QED BY <2>2, <3>1 DEF n
  <2> HIDE DEF l
  <2>11. ASSUME NEW p \in Nat, NEW q \in Nat, p < q, OffAll(p, q, l)
         PROVE  OffAll(p, q, list) /\ (q <= s \/ e <= p)
    <3>1. \A y \in DOMAIN l : Off(p, q, l[y])
      BY <2>11 DEF OffAll
    <3>2. q <= start \/ stop <= p
      BY <2>1, <2>10, <3>1 DEF Off
    <3>3. q <= s \/ e <= p
      BY <1>5, <3>2
    <3>4. ASSUME NEW x \in 1 .. n PROVE Off(p, q, list[x])
      <4>1. x \in 1 .. i \/ x \in j .. n \/ (i < x /\ x < j)
        BY <1>1, <1>4
      <4>2. CASE x \in 1 .. i \/ x \in j .. n
        BY <2>10, <3>1, <4>2
      <4>3. CASE i < x /\ x < j
        <5>1. start <= list[x].at /\ BlockEnd(list[x]) <= stop /\ list[x].at \in Nat /\ BlockEnd(list[x]) \in Nat
          BY <1>1, <1>13, <4>3
        <5> QED BY <1>5, <3>2, <5>1 DEF Off
      <4> QED BY <4>1, <4>2, <4>3
    <3> QED BY <1>1, <3>3, <3>4 DEF OffAll
  <2>8. FreeList(l, from, to)
    BY <1>1, <1>5, <2>1, <2>6, <2>7 DEF FreeList
  <2>9. \A p, q \in Nat : p < q /\ OffAll(p, q, list) /\ (q <= s \/ e <= p) => OffAll(p, q, l)
    <3> SUFFICES ASSUME NEW p \in Nat, NEW q \in Nat, p < q, OffAll(p, q, list), q <= s \/ e <= p,
                        NEW x \in DOMAIN l
                 PROVE  Off(p, q, l[x])
      BY DEF OffAll
    <3>1. q <= start \/ stop <= p
      BY <1>9
    <3> QED BY <1>1, <2>1, <2>7, <3>1 DEF Off, OffAll
  <2> QED BY <2>3, <2>8, <2>9, <2>11 DEF c
<1> QED BY <1>11, <1>12

(* Used blocks that lie in an arena, apart from a list and from each other. *)
Fits(u, f, from, to) ==
  /\ IsFiniteSet(u)
  /\ \A b \in u : /\ b \in UsedBlock /\ Sound(b) /\ Word(b.pad)
                  /\ from <= First(b) /\ BlockEnd(b) <= to
                  /\ OffAll(First(b), BlockEnd(b), f)
  /\ \A b, c \in u : b # c => BlockEnd(b) <= First(c) \/ BlockEnd(c) <= First(b)

WithLists(h, f, u) == [h EXCEPT !.free = f, !.used = u]

LEMMA HeapWith ==
  ASSUME NEW h, HeapInv(h), NEW f, NEW u, FreeList(f, h.start, h.stop), Fits(u, f, h.start, h.stop)
  PROVE  /\ HeapInv(WithLists(h, f, u))
         /\ WithLists(h, f, u).used = u /\ WithLists(h, f, u).free = f
         /\ WithLists(h, f, u).start = h.start /\ WithLists(h, f, u).stop = h.stop
<1> DEFINE g == WithLists(h, f, u)
<1>1. /\ h \in [start : Nat, stop : Nat, free : Seq(Block), used : SUBSET UsedBlock,
                mode : Modes, margins : BOOLEAN]
      /\ h.start <= h.stop /\ h.stop < SizeMod
  BY DEF HeapInv, Typed
<1>2. /\ g.used = u /\ g.free = f /\ g.start = h.start /\ g.stop = h.stop
      /\ g.mode = h.mode /\ g.margins = h.margins
  BY <1>1 DEF WithLists
<1>3. f \in Seq(Block) /\ u \in SUBSET UsedBlock
  BY DEF FreeList, Fits
<1>4. g \in [start : Nat, stop : Nat, free : Seq(Block), used : SUBSET UsedBlock,
             mode : Modes, margins : BOOLEAN]
  BY <1>1, <1>3 DEF WithLists
<1> HIDE DEF g
<1>5. Typed(g)
  BY <1>1, <1>2, <1>4 DEF Typed, Fits
<1>6. UsedLie(g)
  BY <1>2 DEF UsedLie, Fits
<1>7. UsedApart(g)
  BY <1>2 DEF UsedApart, Fits
<1>8. FreeApart(g)
  BY <1>2 DEF FreeApart, Fits
<1>9. FreeList(g.free, g.start, g.stop)
  BY <1>2
<1>10. HeapInv(g)
  BY <1>5, <1>6, <1>7, <1>8, <1>9 DEF HeapInv
<1> QED BY <1>2, <1>10 DEF g

(* The facts about a heap that the lemmas below use. *)
LEMMA HeapHas ==
  ASSUME NEW h, HeapInv(h)
  PROVE  /\ h.start \in Nat /\ h.stop \in Nat /\ h.start <= h.stop /\ h.stop < SizeMod /\ SizeMod \in Nat
         /\ h.free \in Seq(Block) /\ FreeList(h.free, h.start, h.stop)
         /\ h.used \subseteq UsedBlock /\ IsFiniteSet(h.used)
         /\ h.mode \in Modes /\ h.margins \in BOOLEAN
         /\ Fits(h.used, h.free, h.start, h.stop)
<1>1. /\ h \in [start : Nat, stop : Nat, free : Seq(Block), used : SUBSET UsedBlock,
                mode : Modes, margins : BOOLEAN]
      /\ h.start <= h.stop /\ h.stop < SizeMod /\ IsFiniteSet(h.used)
  BY DEF HeapInv, Typed
<1>2. /\ h.start \in Nat /\ h.stop \in Nat /\ h.free \in Seq(Block) /\ h.used \subseteq UsedBlock
      /\ h.mode \in Modes /\ h.margins \in BOOLEAN
  BY <1>1
<1>3. SizeMod \in Nat
  BY ExpHeapAssumption
<1> QED BY <1>1, <1>2, <1>3 DEF HeapInv, UsedLie, UsedApart, FreeApart, Fits

LEMMA FreeBlockHas ==
  ASSUME NEW list, NEW from \in Nat, NEW to \in Nat, FreeList(list, from, to), NEW i \in DOMAIN list
  PROVE  /\ list[i] \in Block /\ Sound(list[i]) /\ from <= list[i].at /\ BlockEnd(list[i]) <= to
         /\ list[i].at \in Nat /\ list[i].size \in Nat /\ list[i].size >= 4 /\ Word(list[i].at)
         /\ BlockEnd(list[i]) = list[i].at + 32 + list[i].size /\ Word(BlockEnd(list[i]))
         /\ Pointer(list[i]) = list[i].at + 32
<1>1. list \in Seq(Block) /\ Sound(list[i]) /\ from <= list[i].at /\ BlockEnd(list[i]) <= to
  BY DEF FreeList
<1>2. list[i] \in Block
  BY <1>1
<1>3. /\ list[i].at \in Nat /\ list[i].size \in Nat /\ BlockEnd(list[i]) = list[i].at + 32 + list[i].size
      /\ list[i].size >= 4 /\ list[i].at % 4 = 0 /\ list[i].size % 4 = 0
  BY <1>1, <1>2, BlockIs DEF Sound, Word, MinimumAlignment, MinimumFreeBlockSize
<1>4. \A a, z \in Nat : a % 4 = 0 /\ z % 4 = 0 => (a + 32 + z) % 4 = 0
  OBVIOUS
<1>5. BlockEnd(list[i]) % 4 = 0
  BY <1>3, <1>4
<1> QED BY <1>1, <1>2, <1>3, <1>5 DEF Word, MinimumAlignment, Pointer, BlockHead

LEMMA UsedBlockHas ==
  ASSUME NEW b \in UsedBlock, Sound(b), Word(b.pad), 0 <= First(b)
  PROVE  /\ b.at \in Nat /\ b.size \in Nat /\ b.size >= 4 /\ b.pad \in 0 .. 127
         /\ First(b) \in Nat /\ First(b) = b.at - b.pad /\ Word(First(b))
         /\ BlockEnd(b) \in Nat /\ BlockEnd(b) = b.at + 32 + b.size /\ Word(BlockEnd(b))
         /\ Pointer(b) = b.at + 32
<1>1. /\ b.at \in Nat /\ b.size \in Nat /\ b.size >= 4 /\ b.pad \in 0 .. 127
      /\ b.at % 4 = 0 /\ b.size % 4 = 0 /\ b.pad % 4 = 0
  <2>1. b.at \in Nat /\ b.size \in Nat /\ b.pad \in 0 .. 127
    BY DEF UsedBlock, MaximumPaddingalignment
  <2>2. b.size >= 4 /\ b.at % 4 = 0 /\ b.size % 4 = 0 /\ b.pad % 4 = 0
    BY DEF Sound, Word, MinimumAlignment, MinimumFreeBlockSize
  <2> QED BY <2>1, <2>2
<1>2. First(b) = b.at - b.pad /\ BlockEnd(b) = b.at + 32 + b.size /\ Pointer(b) = b.at + 32
  BY <1>1 DEF First, BlockEnd, Pointer, BlockHead
<1>3. \A a, z \in Nat : a % 4 = 0 /\ z % 4 = 0 => (a + 32 + z) % 4 = 0 /\ (a - z) % 4 = 0
  OBVIOUS
<1>4. BlockEnd(b) % 4 = 0 /\ First(b) % 4 = 0
  BY <1>1, <1>2, <1>3
<1>5. First(b) \in Nat /\ BlockEnd(b) \in Nat
  <2>1. First(b) \in Int
    BY <1>1, <1>2
  <2>2. First(b) \in Nat
    BY <2>1
  <2>3. BlockEnd(b) \in Nat
    <3>1. b.at \in Nat /\ b.size \in Nat
      BY <1>1
    <3>2. BlockEnd(b) = b.at + 32 + b.size
      BY <1>2
    <3> QED BY <3>1, <3>2
  <2> QED BY <2>2, <2>3
<1>6. Word(First(b)) /\ Word(BlockEnd(b))
  BY <1>4 DEF Word, MinimumAlignment
<1> QED BY <1>1, <1>2, <1>5, <1>6

LEMMA KeptIs ==
  ASSUME NEW h, NEW from \in Nat, NEW to \in Nat, from <= to, to <= SizeMod, Word(from), Word(to),
         NEW direction, NEW side
  PROVE  \/ /\ ~MayKeep(h, Region(from, to), direction, side) /\ to - from < 128
            /\ KeptBlock(h, Region(from, to), direction, side) = <<>>
         \/ /\ MayKeep(h, Region(from, to), direction, side) /\ to - from >= 36
            /\ \E b \in Block : /\ KeptBlock(h, Region(from, to), direction, side) = <<b>>
                                /\ Sound(b) /\ b.at = from /\ BlockEnd(b) = to
<1>1. CASE ~MayKeep(h, Region(from, to), direction, side)
  <2>1. to - from < 128
    BY <1>1 DEF MayKeep, HoldsBlock, Length, Region, BlockHead, MinimumFreeBlockSize, MaximumPaddingalignment
  <2> QED BY <1>1, <2>1 DEF KeptBlock
<1>2. CASE MayKeep(h, Region(from, to), direction, side)
  <2>1. HoldsBlock(Region(from, to))
    BY <1>2 DEF MayKeep
  <2>2. to - from >= 36
    BY <2>1 DEF HoldsBlock, Length, Region, BlockHead, MinimumFreeBlockSize
  <2>3. KeptBlock(h, Region(from, to), direction, side) = <<FreeBlock(Region(from, to))>>
    BY <1>2 DEF KeptBlock
  <2> QED BY <1>2, <2>1, <2>2, <2>3, FreeBlockIs
<1> QED BY <1>1, <1>2

(* A free block is replaced by what is kept of it. *)
LEMMA CarvedIs ==
  ASSUME NEW from \in Nat, NEW to \in Nat, NEW list, FreeList(list, from, to), NEW i \in DOMAIN list,
         NEW mid \in Seq(Block), Spread(mid),
         \A m \in DOMAIN mid : /\ Sound(mid[m]) /\ list[i].at <= mid[m].at
                               /\ BlockEnd(mid[m]) <= BlockEnd(list[i])
  PROVE  /\ FreeList(Spliced(list, i - 1, mid, i + 1), from, to)
         /\ \A k \in DOMAIN Spliced(list, i - 1, mid, i + 1) :
              \/ \E m \in DOMAIN list : m # i /\ Spliced(list, i - 1, mid, i + 1)[k] = list[m]
              \/ \E m \in DOMAIN mid : Spliced(list, i - 1, mid, i + 1)[k] = mid[m]
         /\ \A k \in DOMAIN list : k # i => BlockEnd(list[k]) < list[i].at \/ BlockEnd(list[i]) < list[k].at
<1> DEFINE n == Len(list)
           a == list[i].at
           z == BlockEnd(list[i])
           f == Spliced(list, i - 1, mid, i + 1)
<1>1. /\ list \in Seq(Block) /\ Spread(list)
      /\ \A k \in DOMAIN list : list[k] \in Block /\ Sound(list[k]) /\ from <= list[k].at /\ BlockEnd(list[k]) <= to
  BY DEF FreeList
<1>2. n \in Nat /\ DOMAIN list = 1 .. n /\ i \in 1 .. n
  BY <1>1
<1>3. a \in Nat /\ z \in Nat /\ from <= a /\ z <= to
  BY <1>1, <1>2, BlockIs
<1> HIDE DEF n, a, z
<1>4. /\ i - 1 \in 0 .. Len(list) /\ i + 1 \in i - 1 + 1 .. Len(list) + 1
  BY <1>2 DEF n
<1>5. \A k \in 1 .. n : k # i => BlockEnd(list[k]) < a \/ z < list[k].at
  <2> SUFFICES ASSUME NEW k \in 1 .. n, k # i PROVE BlockEnd(list[k]) < a \/ z < list[k].at
    OBVIOUS
  <2>1. k < i \/ i < k
    BY <1>2
  <2>2. k < i => BlockEnd(list[k]) < list[i].at
    BY <1>1, <1>2 DEF Spread
  <2>3. i < k => BlockEnd(list[i]) < list[k].at
    BY <1>1, <1>2 DEF Spread
  <2> QED BY <2>1, <2>2, <2>3 DEF a, z
<1>6. f \in Seq(Block) /\ Spread(f)
  <2>1. \A m \in DOMAIN mid : /\ \A k \in 1 .. i - 1 : BlockEnd(list[k]) < mid[m].at
                              /\ \A k \in i + 1 .. Len(list) : BlockEnd(mid[m]) < list[k].at
    <3> SUFFICES ASSUME NEW m \in DOMAIN mid
                 PROVE  /\ \A k \in 1 .. i - 1 : BlockEnd(list[k]) < mid[m].at
                        /\ \A k \in i + 1 .. n : BlockEnd(mid[m]) < list[k].at
      BY DEF n
    <3>1. mid[m] \in Block /\ a <= mid[m].at /\ BlockEnd(mid[m]) <= z
      BY DEF a, z
    <3>2. mid[m].at \in Nat /\ BlockEnd(mid[m]) \in Nat
      BY <3>1, BlockIs
    <3>3. \A k \in 1 .. n : list[k].at \in Nat /\ BlockEnd(list[k]) \in Nat
      BY <1>1, <1>2, BlockIs
    <3>4. ASSUME NEW k \in 1 .. i - 1 PROVE k \in 1 .. n /\ BlockEnd(list[k]) < a
      <4>1. k \in 1 .. n /\ k < i
        BY <1>2
      <4> QED BY <1>1, <1>2, <4>1 DEF Spread, a
    <3>5. ASSUME NEW k \in i + 1 .. n PROVE k \in 1 .. n /\ z < list[k].at
      <4>1. k \in 1 .. n /\ i < k
        BY <1>2
      <4> QED BY <1>1, <1>2, <4>1 DEF Spread, z
    <3>6. \A k \in 1 .. i - 1 : BlockEnd(list[k]) < mid[m].at
      BY <1>3, <3>1, <3>2, <3>3, <3>4
    <3>7. \A k \in i + 1 .. n : BlockEnd(mid[m]) < list[k].at
      BY <1>3, <3>1, <3>2, <3>3, <3>5
    <3> QED BY <3>6, <3>7
  <2>2. Spread(f)
    BY <1>1, <1>4, <2>1, SplicedSpread
  <2> QED BY <1>1, <1>4, <2>2, SplicedIs
<1>7. ASSUME NEW k \in DOMAIN f
       PROVE  \/ \E m \in DOMAIN list : m # i /\ f[k] = list[m]
              \/ \E m \in DOMAIN mid : f[k] = mid[m]
  <2>1. \/ k \in 1 .. i - 1 /\ k \in DOMAIN list /\ f[k] = list[k]
        \/ \E m \in DOMAIN mid : k = i - 1 + m /\ f[k] = mid[m]
        \/ \E m \in i + 1 .. Len(list) : /\ m \in DOMAIN list /\ k = m + Len(mid) - (i + 1 - (i - 1) - 1)
                                         /\ f[k] = list[m]
    <3>1. list \in Seq(Block) /\ mid \in Seq(Block)
      BY <1>1
    <3> DEFINE c == i - 1
               j == i + 1
    <3>2. c \in 0 .. Len(list) /\ j \in c + 1 .. Len(list) + 1 /\ k \in DOMAIN Spliced(list, c, mid, j)
      BY <1>4
    <3> HIDE DEF c, j
    <3>3. \/ k \in 1 .. c /\ k \in DOMAIN list /\ Spliced(list, c, mid, j)[k] = list[k]
          \/ \E m \in DOMAIN mid : k = c + m /\ Spliced(list, c, mid, j)[k] = mid[m]
          \/ \E m \in j .. Len(list) : /\ m \in DOMAIN list /\ k = m + Len(mid) - (j - c - 1)
                                         /\ Spliced(list, c, mid, j)[k] = list[m]
      BY <3>1, <3>2, SplicedHas
    <3> QED BY <3>3 DEF c, j
  <2> HIDE DEF f
  <2>2. CASE k \in 1 .. i - 1 /\ k \in DOMAIN list /\ f[k] = list[k]
    <3>1. k # i
      BY <1>2, <2>2
    <3> QED BY <2>2, <3>1
  <2>3. CASE \E m \in DOMAIN mid : k = i - 1 + m /\ f[k] = mid[m]
    BY <2>3
  <2>4. CASE \E m \in i + 1 .. Len(list) : m \in DOMAIN list /\ f[k] = list[m]
    <3>1. \A m \in i + 1 .. Len(list) : m # i
      BY <1>2
    <3> QED BY <2>4, <3>1
  <2> QED BY <2>1, <2>2, <2>3, <2>4
<1> HIDE DEF f
<1>8. FreeList(f, from, to)
  <2> SUFFICES ASSUME NEW k \in DOMAIN f
               PROVE  Sound(f[k]) /\ from <= f[k].at /\ BlockEnd(f[k]) <= to
    BY <1>6 DEF FreeList
  <2>1. CASE \E m \in DOMAIN list : m # i /\ f[k] = list[m]
    BY <1>1, <2>1
  <2>2. CASE \E m \in DOMAIN mid : f[k] = mid[m]
    <3>1. PICK m \in DOMAIN mid : f[k] = mid[m]
      BY <2>2
    <3>2. mid[m] \in Block /\ Sound(mid[m]) /\ a <= mid[m].at /\ BlockEnd(mid[m]) <= z
      BY DEF a, z
    <3>3. mid[m].at \in Nat /\ BlockEnd(mid[m]) \in Nat
      BY <3>2, BlockIs
    <3> QED BY <1>1, <1>3, <3>1, <3>2, <3>3
  <2> QED BY <1>7, <2>1, <2>2
<1> QED BY <1>2, <1>5, <1>7, <1>8 DEF a, z, f

(* The other blocks and what is kept are still there. *)
LEMMA CarvedKeeps ==
  ASSUME NEW list \in Seq(Block), NEW i \in DOMAIN list, NEW mid \in Seq(Block)
  PROVE  /\ \A k \in DOMAIN list :
              k # i => \E m \in DOMAIN Spliced(list, i - 1, mid, i + 1) : Spliced(list, i - 1, mid, i + 1)[m] = list[k]
         /\ \A k \in DOMAIN mid :
              \E m \in DOMAIN Spliced(list, i - 1, mid, i + 1) : Spliced(list, i - 1, mid, i + 1)[m] = mid[k]
<1> DEFINE n == Len(list)
           c == i - 1
           j == i + 1
           g == Spliced(list, c, mid, j)
<1>1. n \in Nat /\ DOMAIN list = 1 .. n /\ i \in 1 .. n
  OBVIOUS
<1>2. c \in 0 .. n /\ j \in c + 1 .. n + 1 /\ \A k \in 1 .. n : k # i => k \in 1 .. c \/ k \in j .. n
  BY <1>1
<1>3. g = Spliced(list, i - 1, mid, i + 1)
  OBVIOUS
<1> HIDE DEF c, j
<1>4. /\ \A k \in 1 .. c : \E x \in DOMAIN g : g[x] = list[k]
      /\ \A k \in DOMAIN mid : \E x \in DOMAIN g : g[x] = mid[k]
      /\ \A k \in j .. n : \E x \in DOMAIN g : g[x] = list[k]
  BY <1>2, SplicedKeeps
<1> HIDE DEF g, n
<1> QED BY <1>1, <1>2, <1>3, <1>4

(* ConvertFreeBlockToUsedBlock puts one block of the size asked for where   *)
(* it was told to.                                                         *)
LEMMA ConvertIs ==
  ASSUME NEW h, HeapInv(h), NEW i \in DOMAIN h.free, NEW block \in Nat, NEW size \in Nat,
         Word(block), Word(size), size >= 4, NEW direction \in {"Front", "Back"},
         Pointer(h.free[i]) <= block, block + size <= BlockEnd(h.free[i])
  PROVE  LET g == ConvertFreeBlockToUsedBlock(h, i, block, size, direction)
         IN  /\ HeapInv(g) /\ g.start = h.start /\ g.stop = h.stop
             /\ \E b \in UsedBlock : /\ b \notin h.used /\ g.used = h.used \union {b}
                                     /\ Pointer(b) = block /\ b.size = size
             /\ Drops(h, g)
<1> DEFINE list == h.free
           n == Len(list)
           a == list[i].at
           z == BlockEnd(list[i])
           x == block - 32
           y == block + size
           front == Region(a, x)
           back == Region(y, z)
           fronts == KeptBlock(h, front, direction, "Front")
           backs == KeptBlock(h, back, direction, "Back")
           padding == IF MayKeep(h, front, direction, "Front") THEN 0 ELSE Length(front)
           new == [at |-> x, size |-> size, pad |-> padding % 128, dir |-> direction]
           mid == fronts \o backs
           f == Spliced(list, i - 1, mid, i + 1)
           u == h.used \union {new}
<1>1. /\ h.start \in Nat /\ h.stop \in Nat /\ h.stop < SizeMod /\ SizeMod \in Nat
      /\ list \in Seq(Block) /\ Spread(list) /\ FreeList(list, h.start, h.stop) /\ IsFiniteSet(h.used)
      /\ \A k \in DOMAIN list : list[k] \in Block /\ Sound(list[k]) /\ h.start <= list[k].at /\ BlockEnd(list[k]) <= h.stop
  BY HeapHas DEF FreeList
<1>2. n \in Nat /\ DOMAIN list = 1 .. n /\ i \in 1 .. n
  BY <1>1
<1>3. /\ a \in Nat /\ z \in Nat /\ Word(a) /\ Word(z) /\ a + 32 <= block /\ y <= z
      /\ h.start <= a /\ z <= h.stop
  BY <1>1, FreeBlockHas, BlockIs
<1>4. /\ x \in Nat /\ y \in Nat /\ Word(x) /\ Word(y) /\ a <= x /\ x + 36 <= y /\ y <= z /\ x <= SizeMod /\ z <= SizeMod
      /\ x % 4 = 0 /\ y < SizeMod
  <2>1. block % 4 = 0 /\ size % 4 = 0
    BY DEF Word, MinimumAlignment
  <2>2. (block - 32) % 4 = 0 /\ (block + size) % 4 = 0
    BY <2>1
  <2>3. Word(x) /\ Word(y)
    BY <2>2 DEF Word, MinimumAlignment
  <2>4. x \in Nat /\ y \in Nat /\ a <= x /\ x + 36 <= y
    BY <1>3
  <2>5. y <= z /\ z <= SizeMod /\ x <= SizeMod /\ y < SizeMod
    <3> HIDE DEF a, z
    <3> QED BY <1>1, <1>3
  <2> HIDE DEF a, z, y
  <2> QED BY <2>2, <2>3, <2>4, <2>5
<1>5. ConvertFreeBlockToUsedBlock(h, i, block, size, direction) = WithLists(h, f, u)
  <2>1. ConvertFreeBlockToUsedBlock(h, i, block, size, direction)
          = [h EXCEPT !.free = SubSeq(list, 1, i - 1) \o fronts \o backs \o SubSeq(list, i + 1, n), !.used = u]
    <3>1. y \in Nat /\ y < SizeMod /\ SizeMod \in Nat
      BY <1>1, <1>4
    <3>2. y % SizeMod = y
      <4> HIDE DEF y
      <4> QED BY <3>1, SmallModulo
    <3>3. back = Region((block + size) % SizeMod, BlockEnd(h.free[i]))
      BY <3>2
    <3> QED BY <3>3 DEF ConvertFreeBlockToUsedBlock, BlockHead
  <2>2. fronts \in Seq(Block) /\ backs \in Seq(Block)
    <3>1. fronts = <<>> \/ \E b \in Block : fronts = <<b>>
      BY <1>3, <1>4, KeptIs
    <3>2. backs = <<>> \/ \E b \in Block : backs = <<b>>
      BY <1>3, <1>4, KeptIs
    <3> HIDE DEF fronts, backs
    <3>3. <<>> \in Seq(Block) /\ \A b \in Block : <<b>> \in Seq(Block)
      OBVIOUS
    <3>4. fronts \in Seq(Block)
      BY <3>1, <3>3
    <3>5. backs \in Seq(Block)
      BY <3>2, <3>3
    <3> QED BY <3>4, <3>5
  <2>3. SubSeq(list, 1, i - 1) \in Seq(Block)
    <3>1. \A k \in 1 .. i - 1 : list[k] \in Block
      BY <1>1, <1>2
    <3> QED BY <1>2, <3>1, SubSeqProperties
  <2>4. (SubSeq(list, 1, i - 1) \o fronts) \o backs = SubSeq(list, 1, i - 1) \o (fronts \o backs)
    <3> DEFINE l == SubSeq(list, 1, i - 1)
    <3> HIDE DEF fronts, backs, l
    <3>1. l \in Seq(Block)
      BY <2>3 DEF l
    <3>2. (l \o fronts) \o backs = l \o (fronts \o backs)
      <4>1. fronts \in Seq(Block) /\ backs \in Seq(Block)
        BY <2>2
      <4> QED BY <3>1, <4>1, BlocksAssociate
    <3> QED BY <3>2 DEF l
  <2> QED BY <2>1, <2>4 DEF Spliced, WithLists
<1> HIDE DEF n, fronts, backs
(* What is kept of the free block. *)
<1>6. /\ mid \in Seq(Block) /\ Spread(mid)
      /\ \A m \in DOMAIN mid : /\ Sound(mid[m]) /\ a <= mid[m].at /\ BlockEnd(mid[m]) <= z
                               /\ y <= mid[m].at \/ (MayKeep(h, front, direction, "Front") /\ BlockEnd(mid[m]) = x)
      /\ MayKeep(h, front, direction, "Front") => \E m \in DOMAIN mid : mid[m].at = a /\ BlockEnd(mid[m]) = x
      /\ z - y < 128 \/ \E m \in DOMAIN mid : mid[m].at = y /\ BlockEnd(mid[m]) = z
  <2>1. \/ fronts = <<>> /\ ~MayKeep(h, front, direction, "Front")
        \/ /\ MayKeep(h, front, direction, "Front")
           /\ \E b \in Block : fronts = <<b>> /\ Sound(b) /\ b.at = a /\ BlockEnd(b) = x
    <3>1. x \in Nat /\ a \in Nat /\ a <= x /\ x <= SizeMod /\ Word(a) /\ Word(x)
      BY <1>3, <1>4
    <3> HIDE DEF a, x
    <3> QED BY <3>1, KeptIs DEF fronts
  <2>2. \/ backs = <<>> /\ z - y < 128
        \/ \E b \in Block : backs = <<b>> /\ Sound(b) /\ b.at = y /\ BlockEnd(b) = z
    <3>1. y \in Nat /\ z \in Nat /\ y <= z /\ z <= SizeMod /\ Word(y) /\ Word(z)
      BY <1>3, <1>4
    <3> HIDE DEF y, z
    <3> QED BY <3>1, KeptIs DEF backs
  <2> HIDE DEF front, a, z, x, y
  <2>3. CASE fronts = <<>> /\ backs = <<>>
    <3>1. mid = <<>> /\ DOMAIN mid = {}
      BY <2>3
    <3>2. ~MayKeep(h, front, direction, "Front") /\ z - y < 128
      BY <2>1, <2>2, <2>3
    <3> HIDE DEF mid
    <3> QED BY <3>1, <3>2 DEF Spread
  <2>4. CASE fronts = <<>> /\ backs # <<>>
    <3>1. PICK b \in Block : backs = <<b>> /\ Sound(b) /\ b.at = y /\ BlockEnd(b) = z
      BY <2>2, <2>4
    <3>2. mid = <<b>>
      BY <2>4, <3>1
    <3> HIDE DEF mid
    <3>3. mid \in Seq(Block) /\ DOMAIN mid = {1} /\ mid[1] = b
      BY <3>2
    <3>4. Spread(mid)
      BY <3>3 DEF Spread
    <3>5. a <= b.at /\ BlockEnd(b) <= z /\ y <= b.at
      BY <1>3, <1>4, <3>1
    <3>6. ~MayKeep(h, front, direction, "Front")
      BY <2>1, <2>4
    <3> QED BY <3>1, <3>3, <3>4, <3>5, <3>6
  <2>5. CASE fronts # <<>> /\ backs = <<>>
    <3>1. PICK b \in Block : fronts = <<b>> /\ Sound(b) /\ b.at = a /\ BlockEnd(b) = x
      BY <2>1, <2>5
    <3>2. mid = <<b>>
      BY <2>5, <3>1
    <3> HIDE DEF mid
    <3>3. mid \in Seq(Block) /\ DOMAIN mid = {1} /\ mid[1] = b
      BY <3>2
    <3>4. Spread(mid)
      BY <3>3 DEF Spread
    <3>5. a <= b.at /\ BlockEnd(b) <= z /\ MayKeep(h, front, direction, "Front")
      BY <1>3, <1>4, <2>1, <2>5, <3>1
    <3>6. z - y < 128
      BY <2>2, <2>5
    <3> QED BY <3>1, <3>3, <3>4, <3>5, <3>6
  <2>6. CASE fronts # <<>> /\ backs # <<>>
    <3>1. PICK b \in Block : fronts = <<b>> /\ Sound(b) /\ b.at = a /\ BlockEnd(b) = x
      BY <2>1, <2>6
    <3>2. PICK c \in Block : backs = <<c>> /\ Sound(c) /\ c.at = y /\ BlockEnd(c) = z
      BY <2>2, <2>6
    <3>3. /\ fronts \in Seq(Block) /\ Len(fronts) = 1 /\ fronts[1] = b
          /\ backs \in Seq(Block) /\ Len(backs) = 1 /\ backs[1] = c
      BY <3>1, <3>2
    <3>4. mid \in Seq(Block) /\ DOMAIN mid = {1, 2} /\ mid[1] = b /\ mid[2] = c
      <4>1. /\ mid \in Seq(Block) /\ Len(mid) = Len(fronts) + Len(backs)
            /\ \A k \in 1 .. Len(fronts) + Len(backs) :
                 mid[k] = IF k <= Len(fronts) THEN fronts[k] ELSE backs[k - Len(fronts)]
        BY <3>3, ConcatProperties
      <4> HIDE DEF mid
      <4> QED BY <3>3, <4>1
    <3>5. BlockEnd(b) < c.at
      BY <1>4, <3>1, <3>2
    <3>6. Spread(mid)
      BY <3>4, <3>5 DEF Spread
    <3> HIDE DEF mid
    <3>7. MayKeep(h, front, direction, "Front")
      BY <2>1, <2>6
    <3>8. /\ Sound(b) /\ b.at = a /\ BlockEnd(b) = x /\ Sound(c) /\ c.at = y /\ BlockEnd(c) = z
          /\ a <= b.at /\ BlockEnd(b) <= z /\ a <= c.at /\ BlockEnd(c) <= z /\ y <= c.at
      BY <1>3, <1>4, <3>1, <3>2
    <3>9. 1 \in DOMAIN mid /\ 2 \in DOMAIN mid /\ \A m \in DOMAIN mid : mid[m] = b \/ mid[m] = c
      BY <3>4
    <3>10. \A m \in DOMAIN mid : /\ Sound(mid[m]) /\ a <= mid[m].at /\ BlockEnd(mid[m]) <= z
                                 /\ y <= mid[m].at \/ BlockEnd(mid[m]) = x
      BY <3>8, <3>9
    <3>11. /\ \E m \in DOMAIN mid : mid[m].at = a /\ BlockEnd(mid[m]) = x
           /\ \E m \in DOMAIN mid : mid[m].at = y /\ BlockEnd(mid[m]) = z
      BY <3>4, <3>8, <3>9
    <3> QED BY <3>4, <3>6, <3>7, <3>10, <3>11
  <2> QED BY <2>3, <2>4, <2>5, <2>6
(* The new block, with its padding. *)
<1>7. /\ padding \in 0 .. 127 /\ padding % 4 = 0 /\ padding % 128 = padding
      /\ padding = IF MayKeep(h, front, direction, "Front") THEN 0 ELSE x - a
  <2>1. CASE MayKeep(h, front, direction, "Front")
    BY <2>1
  <2>2. CASE ~MayKeep(h, front, direction, "Front")
    <3>1. Length(front) = x - a
      BY DEF Length, Region
    <3>2. x - a \in Nat /\ x - a < 128
      BY <1>3, <1>4, <2>2, <3>1 DEF MayKeep, HoldsBlock, BlockHead, MinimumFreeBlockSize, MaximumPaddingalignment
    <3>3. (x - a) % 4 = 0
      <4>1. x % 4 = 0 /\ a % 4 = 0
        BY <1>3, <1>4 DEF Word, MinimumAlignment
      <4> HIDE DEF x, a
      <4> QED BY <1>3, <1>4, <4>1
    <3>4. (x - a) % 128 = x - a
      BY <3>2
    <3>5. padding = x - a
      BY <2>2, <3>1
    <3> QED BY <2>2, <3>2, <3>3, <3>4, <3>5
  <2> QED BY <2>1, <2>2
<1> HIDE DEF padding, mid, front, a, z, x, y
<1>8. /\ new.at = x /\ new.size = size /\ new.pad = padding /\ new \in UsedBlock
  BY <1>4, <1>7 DEF UsedBlock, MaximumPaddingalignment
<1> HIDE DEF new
<1>9. /\ Sound(new) /\ Word(new.pad)
      /\ First(new) = IF MayKeep(h, front, direction, "Front") THEN x ELSE a
      /\ First(new) \in Nat /\ a <= First(new) /\ First(new) <= x
      /\ BlockEnd(new) = y /\ Pointer(new) = block
  <2>1. Sound(new) /\ Word(new.pad)
    BY <1>4, <1>7, <1>8 DEF Sound, Word, MinimumAlignment, MinimumFreeBlockSize
  <2>2. First(new) = IF MayKeep(h, front, direction, "Front") THEN x ELSE a
    BY <1>3, <1>4, <1>7, <1>8 DEF First
  <2>3. Pointer(new) = block /\ BlockEnd(new) = y
    BY <1>8 DEF Pointer, BlockEnd, BlockHead, x, y
  <2> QED BY <1>3, <1>4, <2>1, <2>2, <2>3
(* The list. *)
<1>10. /\ FreeList(f, h.start, h.stop)
       /\ \A k \in DOMAIN f : \/ \E m \in DOMAIN list : m # i /\ f[k] = list[m]
                              \/ \E m \in DOMAIN mid : f[k] = mid[m]
       /\ \A k \in DOMAIN list : k # i => BlockEnd(list[k]) < a \/ z < list[k].at
  <2>1. \A m \in DOMAIN mid : /\ Sound(mid[m]) /\ list[i].at <= mid[m].at
                              /\ BlockEnd(mid[m]) <= BlockEnd(list[i])
    BY <1>6 DEF a, z
  <2> HIDE DEF list
  <2> QED BY <1>1, <1>2, <1>6, <2>1, CarvedIs DEF a, z
<1>11. /\ \A k \in DOMAIN list : k # i => \E m \in DOMAIN f : f[m] = list[k]
       /\ \A k \in DOMAIN mid : \E m \in DOMAIN f : f[m] = mid[k]
  <2>1. list \in Seq(Block) /\ i \in DOMAIN list /\ mid \in Seq(Block)
    BY <1>1, <1>6
  <2>2. /\ \A k \in DOMAIN list :
              k # i => \E m \in DOMAIN Spliced(list, i - 1, mid, i + 1) : Spliced(list, i - 1, mid, i + 1)[m] = list[k]
        /\ \A k \in DOMAIN mid :
              \E m \in DOMAIN Spliced(list, i - 1, mid, i + 1) : Spliced(list, i - 1, mid, i + 1)[m] = mid[k]
    <3> HIDE DEF list, mid
    <3> QED BY <2>1, CarvedKeeps
  <2> HIDE DEF list, mid
  <2> QED BY <2>2 DEF f
<1> HIDE DEF f
(* Nothing overlaps. *)
<1>15. OffAll(First(new), BlockEnd(new), f)
  <2> SUFFICES ASSUME NEW k \in DOMAIN f
               PROVE  Off(First(new), BlockEnd(new), f[k])
    BY DEF OffAll
  <2>1. CASE \E m \in DOMAIN list : m # i /\ f[k] = list[m]
    <3>1. PICK m \in DOMAIN list : m # i /\ f[k] = list[m]
      BY <2>1
    <3>2. BlockEnd(list[m]) < a \/ z < list[m].at
      BY <1>2, <1>10, <3>1
    <3>3. list[m].at \in Nat /\ BlockEnd(list[m]) \in Nat
      BY <1>1, BlockIs
    <3> QED BY <1>3, <1>4, <1>9, <3>1, <3>2, <3>3 DEF Off
  <2>2. CASE \E m \in DOMAIN mid : f[k] = mid[m]
    <3>1. PICK m \in DOMAIN mid : f[k] = mid[m]
      BY <2>2
    <3>2. y <= mid[m].at \/ (MayKeep(h, front, direction, "Front") /\ BlockEnd(mid[m]) = x)
      BY <1>6
    <3>3. CASE y <= mid[m].at
      BY <1>9, <3>1, <3>3 DEF Off
    <3>4. CASE MayKeep(h, front, direction, "Front") /\ BlockEnd(mid[m]) = x
      BY <1>4, <1>9, <3>1, <3>4 DEF Off
    <3> QED BY <3>2, <3>3, <3>4
  <2> QED BY <1>10, <2>1, <2>2
<1>16. ASSUME NEW b \in h.used
       PROVE  /\ OffAll(First(b), BlockEnd(b), f)
              /\ BlockEnd(b) <= First(new) \/ BlockEnd(new) <= First(b)
              /\ b # new
  <2>1. /\ b \in UsedBlock /\ Sound(b) /\ Word(b.pad) /\ h.start <= First(b)
        /\ OffAll(First(b), BlockEnd(b), list)
    BY HeapHas DEF Fits
  <2>2. /\ First(b) \in Nat /\ BlockEnd(b) \in Nat /\ First(b) < BlockEnd(b)
    <3>1. First(b) \in Int
      BY <2>1 DEF First, UsedBlock
    <3>2. 0 <= First(b)
      BY <1>1, <2>1, <3>1
    <3>3. /\ b.at \in Nat /\ b.size \in Nat /\ b.pad \in 0 .. 127 /\ First(b) \in Nat /\ BlockEnd(b) \in Nat
          /\ First(b) = b.at - b.pad /\ BlockEnd(b) = b.at + 32 + b.size
      BY <2>1, <3>2, UsedBlockHas
    <3> QED BY <3>3
  <2>3. \A k \in DOMAIN list : BlockEnd(b) <= list[k].at \/ BlockEnd(list[k]) <= First(b)
    BY <2>1 DEF OffAll, Off
  <2>4. BlockEnd(b) <= a \/ z <= First(b)
    BY <1>2, <2>3 DEF a, z
  <2>5. BlockEnd(b) <= First(new) \/ BlockEnd(new) <= First(b)
    BY <1>3, <1>4, <1>9, <2>2, <2>4
  <2>6. ASSUME NEW k \in DOMAIN f PROVE Off(First(b), BlockEnd(b), f[k])
    <3>1. CASE \E m \in DOMAIN list : m # i /\ f[k] = list[m]
      BY <2>3, <3>1 DEF Off
    <3>2. CASE \E m \in DOMAIN mid : f[k] = mid[m]
      <4>1. PICK m \in DOMAIN mid : f[k] = mid[m]
        BY <3>2
      <4>2. mid[m] \in Block /\ a <= mid[m].at /\ BlockEnd(mid[m]) <= z
        BY <1>6
      <4>3. mid[m].at \in Nat /\ BlockEnd(mid[m]) \in Nat
        BY <4>2, BlockIs
      <4> QED BY <1>3, <2>2, <2>4, <4>1, <4>2, <4>3 DEF Off
    <3> QED BY <1>10, <3>1, <3>2
  <2>7. b # new
    BY <1>4, <1>9, <2>2, <2>5
  <2> QED BY <2>5, <2>6, <2>7 DEF OffAll
<1>17. new \notin h.used
  BY <1>16
<1>18. IsFiniteSet(u)
  BY <1>1, FS_AddElement
<1>19. \A b \in u : /\ b \in UsedBlock /\ Sound(b) /\ Word(b.pad)
                    /\ h.start <= First(b) /\ BlockEnd(b) <= h.stop
                    /\ OffAll(First(b), BlockEnd(b), f)
  <2>1. h.start <= First(new) /\ BlockEnd(new) <= h.stop
    <3>1. h.start \in Nat /\ h.stop \in Nat /\ h.start <= a /\ z <= h.stop
      BY <1>1, <1>3
    <3> QED BY <1>3, <1>4, <1>9, <3>1
  <2>2. ASSUME NEW b \in h.used
        PROVE  /\ b \in UsedBlock /\ Sound(b) /\ Word(b.pad)
               /\ h.start <= First(b) /\ BlockEnd(b) <= h.stop
               /\ OffAll(First(b), BlockEnd(b), f)
    BY <1>16, HeapHas DEF Fits
  <2> QED BY <1>8, <1>9, <1>15, <2>1, <2>2
<1>20. \A b, c \in u : b # c => BlockEnd(b) <= First(c) \/ BlockEnd(c) <= First(b)
  <2>1. \A b, c \in h.used : b # c => BlockEnd(b) <= First(c) \/ BlockEnd(c) <= First(b)
    BY HeapHas DEF Fits
  <2> QED BY <1>16, <2>1
<1>21. Fits(u, f, h.start, h.stop)
  BY <1>18, <1>19, <1>20 DEF Fits
<1> HIDE DEF u
<1>22. /\ HeapInv(WithLists(h, f, u)) /\ WithLists(h, f, u).used = u
       /\ WithLists(h, f, u).start = h.start /\ WithLists(h, f, u).stop = h.stop
  BY <1>10, <1>21, HeapWith
(* Only what is left behind the block may belong to nothing now. *)
<1>23. ASSUME NEW c \in Nat, Stray(h, c) PROVE OffAll(c, c + 1, f) /\ \A b \in u : c < First(b) \/ BlockEnd(b) <= c
  <2>1. (\A k \in DOMAIN list : Off(c, c + 1, list[k])) /\ \A b \in h.used : c < First(b) \/ BlockEnd(b) <= c
    BY <1>23 DEF Stray, OffAll
  <2>2. c < a \/ z <= c
    BY <1>2, <1>3, <2>1 DEF Off, a, z
  <2>3. c < First(new) \/ BlockEnd(new) <= c
    BY <1>3, <1>4, <1>9, <2>2
  <2>4. ASSUME NEW k \in DOMAIN f PROVE Off(c, c + 1, f[k])
    <3>1. CASE \E m \in DOMAIN list : m # i /\ f[k] = list[m]
      BY <2>1, <3>1
    <3>2. CASE \E m \in DOMAIN mid : f[k] = mid[m]
      <4>1. PICK m \in DOMAIN mid : f[k] = mid[m]
        BY <3>2
      <4>2. mid[m] \in Block /\ a <= mid[m].at /\ BlockEnd(mid[m]) <= z
        BY <1>6
      <4>3. mid[m].at \in Nat /\ BlockEnd(mid[m]) \in Nat
        BY <4>2, BlockIs
      <4> QED BY <1>3, <2>2, <4>1, <4>2, <4>3 DEF Off
    <3> QED BY <1>10, <3>1, <3>2
  <2> QED BY <2>1, <2>3, <2>4 DEF OffAll, u
<1>24. ASSUME NEW c \in Nat, OffAll(c, c + 1, f), \A b \in u : c < First(b) \/ BlockEnd(b) <= c
       PROVE  Stray(h, c) \/ (y <= c /\ c < y + 127)
  <2>1. \A k \in DOMAIN f : Off(c, c + 1, f[k])
    BY <1>24 DEF OffAll
  <2>2. c < First(new) \/ y <= c
    BY <1>9, <1>24 DEF u
  <2>3. ~MayKeep(h, front, direction, "Front") => c < a \/ y <= c
    BY <1>9, <2>2
  <2>4. MayKeep(h, front, direction, "Front") => (c < a \/ x <= c) /\ (c < x \/ y <= c)
    <3>1. MayKeep(h, front, direction, "Front") => c < a \/ x <= c
      BY <1>3, <1>4, <1>6, <1>11, <2>1 DEF Off
    <3> QED BY <1>9, <2>2, <3>1
  <2>5. c < a \/ y <= c
    BY <1>3, <1>4, <2>3, <2>4
  <2>6. z - y < 128 \/ c < y \/ z <= c
    BY <1>3, <1>4, <1>6, <1>11, <2>1 DEF Off
  <2>7. CASE y <= c /\ c < y + 127
    BY <2>7
  <2>8. CASE c < a \/ z <= c
    <3>1. Off(c, c + 1, list[i])
      BY <1>3, <2>8 DEF Off, a, z
    <3>2. \A k \in DOMAIN list : k # i => Off(c, c + 1, list[k])
      BY <1>11, <2>1
    <3>3. \A b \in h.used : c < First(b) \/ BlockEnd(b) <= c
      BY <1>24 DEF u
    <3> QED BY <3>1, <3>2, <3>3 DEF Stray, OffAll
  <2>9. (y <= c /\ c < y + 127) \/ c < a \/ z <= c
    BY <1>3, <1>4, <2>5, <2>6
  <2> QED BY <2>7, <2>8, <2>9
<1>25. WithLists(h, f, u).free = f
  BY <1>10, <1>21, HeapWith
<1>26. Drops(h, WithLists(h, f, u))
  <2> DEFINE g == WithLists(h, f, u)
  <2>1. \A c : Stray(g, c) <=> OffAll(c, c + 1, f) /\ \A b \in u : c < First(b) \/ BlockEnd(b) <= c
    BY <1>22, <1>25 DEF Stray
  <2> HIDE DEF g
  <2>2. \A c \in Nat : Stray(h, c) => Stray(g, c)
    BY <1>23, <2>1
  <2>3. \A c \in Nat : Stray(g, c) => Stray(h, c) \/ (y <= c /\ c < y + 127)
    BY <1>24, <2>1
  <2>4. y \in Nat
    BY <1>4
  <2> QED BY <2>2, <2>3, <2>4 DEF Drops, g
<1>27. \E b \in UsedBlock : /\ b \notin h.used /\ u = h.used \union {b}
                           /\ Pointer(b) = block /\ b.size = size
  BY <1>8, <1>9, <1>17 DEF u
<1> QED BY <1>5, <1>22, <1>26, <1>27

(* The searches from either end of the list choose one of the blocks that   *)
(* fit.                                                                    *)
LEMMA EarliestIs ==
  ASSUME NEW n \in Nat, NEW T, T \subseteq 1 .. n, T # {}, NEW direction \in {"Front", "Back"}
  PROVE  \E i \in T : \A j \in T \ {i} : Earlier(i, j, direction)
<1>1. CASE direction = "Front"
  <2>1. T \subseteq Nat
    OBVIOUS
  <2>2. PICK i \in T : \A j \in T : i <= j
    BY <2>1, LeastNumber
  <2>3. \A j \in T \ {i} : i < j
    BY <2>1, <2>2
  <2> QED BY <1>1, <2>3 DEF Earlier
<1>2. CASE direction = "Back"
  <2>1. PICK i \in T : \A j \in T : j <= i
    BY GreatestNumber
  <2>2. \A j \in T \ {i} : i > j
    BY <2>1
  <2> QED BY <1>2, <2>2 DEF Earlier
<1> QED BY <1>1, <1>2

LEMMA ChosenIs ==
  ASSUME NEW h, h.free \in Seq(Block), h.mode \in Modes, NEW S, S \subseteq DOMAIN h.free, S # {},
         NEW direction \in {"Front", "Back"}
  PROVE  Chosen(h, S, direction) \in S
<1> DEFINE Best(i) == \A j \in S \ {i} :
                        \/ h.mode = "BestFit" /\ h.free[i].size < h.free[j].size
                        \/ /\ h.mode = "FirstFit" \/ h.free[i].size = h.free[j].size
                           /\ Earlier(i, j, direction)
           n == Len(h.free)
<1>1. n \in Nat /\ S \subseteq 1 .. n /\ \A i \in S : h.free[i].size \in Nat
  BY BlockIs
<1> HIDE DEF n
<1>2. \E i \in S : Best(i)
  <2>1. CASE h.mode = "FirstFit"
    <3>1. PICK i \in S : \A j \in S \ {i} : Earlier(i, j, direction)
      BY <1>1, EarliestIs
    <3> QED BY <2>1, <3>1
  <2>2. CASE h.mode = "BestFit"
    <3> DEFINE V == {h.free[i].size : i \in S}
    <3>1. V \subseteq Nat /\ V # {}
      BY <1>1
    <3>2. PICK v \in V : \A x \in V : v <= x
      BY <3>1, LeastNumber
    <3> DEFINE T == {i \in S : h.free[i].size = v}
    <3>3. T \subseteq 1 .. n /\ T # {}
      BY <1>1, <3>2
    <3>4. PICK i \in T : \A j \in T \ {i} : Earlier(i, j, direction)
      BY <1>1, <3>3, EarliestIs
    <3>5. ASSUME NEW j \in S \ {i}
          PROVE  \/ h.free[i].size < h.free[j].size
                 \/ h.free[i].size = h.free[j].size /\ Earlier(i, j, direction)
      <4>1. h.free[i].size = v /\ v <= h.free[j].size /\ v \in Nat /\ h.free[j].size \in Nat
        BY <1>1, <3>1, <3>2, <3>4
      <4>2. CASE h.free[j].size = v
        BY <3>4, <4>1, <4>2
      <4>3. CASE h.free[j].size # v
        BY <4>1, <4>3
      <4> QED BY <4>2, <4>3
    <3>6. i \in S
      BY <3>4
    <3> QED BY <2>2, <3>5, <3>6
  <2> QED BY <2>1, <2>2 DEF Modes
<1>3. Chosen(h, S, direction) = CHOOSE i \in S : Best(i)
  BY DEF Chosen
<1> HIDE DEF Best
<1> QED BY <1>2, <1>3

(* Where a block for an aligned address begins. *)
LEMMA BlockStartIs ==
  ASSUME NEW b \in Block, NEW al \in Nat \ {0}, al % 4 = 0
  PROVE  /\ BlockStart(b, al) \in Nat /\ Word(BlockStart(b, al)) /\ BlockStart(b, al) % al = 0
         /\ b.at + 32 <= BlockStart(b, al)
<1>1. Pointer(b) = b.at + 32 /\ b.at + 32 \in Nat
  BY BlockIs DEF Pointer, BlockHead
<1> QED BY <1>1, RoundedUp, Rounded, RoundedToWord DEF BlockStart

(* What a proper request adds up to in a block does not wrap around. *)
LEMMA OffsetIs ==
  ASSUME NEW b \in Block, NEW al \in Nat \ {0}, al % 4 = 0, NEW size \in Nat, size + al <= SizeMod
  PROVE  /\ BlockOffset(b, al) \in Nat
         /\ (size + BlockOffset(b, al)) % SizeMod = size + BlockStart(b, al) - Pointer(b)
<1> DEFINE p == Pointer(b)
           d == BlockStart(b, al) - p
<1>1. p \in Nat
  BY BlockIs DEF Pointer, BlockHead
<1> HIDE DEF p
<1>2. BlockStart(b, al) \in Nat /\ p <= BlockStart(b, al) /\ BlockStart(b, al) < p + al
  BY <1>1, RoundedUp DEF BlockStart, p
<1>3. /\ d \in Nat /\ d < al /\ size + d \in Nat /\ size + d < SizeMod /\ SizeMod \in Nat
      /\ size + d = size + BlockStart(b, al) - p
  BY <1>1, <1>2, ExpHeapAssumption
<1>4. BlockOffset(b, al) = d
  BY DEF BlockOffset, p
<1> HIDE DEF d
<1>5. (size + d) % SizeMod = size + d
  BY <1>3, SmallModulo
<1> QED BY <1>3, <1>4, <1>5 DEF p

(* What an allocation answers: nothing, or a new block as it was asked for. *)
Serves(r, h, size, al) ==
  \/ Fitting(h, size, al) = {} /\ r.ptr = 0 /\ r.heap = h
  \/ /\ Fitting(h, size, al) # {}
     /\ r.ptr \in Nat \ {0} /\ r.ptr % al = 0
     /\ HeapInv(r.heap) /\ r.heap.start = h.start /\ r.heap.stop = h.stop
     /\ Drops(h, r.heap)
     /\ \E b \in UsedBlock : /\ b \notin h.used /\ r.heap.used = h.used \union {b}
                             /\ Pointer(b) = r.ptr /\ b.size = size

LEMMA AllocateFromIs ==
  ASSUME NEW h, HeapInv(h), NEW size \in Nat, Word(size), size >= 4, NEW al \in Nat \ {0}, al % 4 = 0,
         size + al <= SizeMod, NEW direction \in {"Front", "Back"}
  PROVE  Serves(AllocateFrom(h, size, al, direction), h, size, al)
<1> USE DEF Serves
<1> DEFINE S == Fitting(h, size, al)
           i == Chosen(h, S, direction)
           block == BlockStart(h.free[i], al)
           g == ConvertFreeBlockToUsedBlock(h, i, block, size, direction)
<1>1. AllocateFrom(h, size, al, direction)
        = IF S = {} THEN [heap |-> h, ptr |-> 0] ELSE [heap |-> g, ptr |-> block]
  BY DEF AllocateFrom
<1>2. CASE S = {}
  BY <1>1, <1>2
<1>3. CASE S # {}
  <2>1. /\ h.free \in Seq(Block) /\ h.mode \in Modes /\ FreeList(h.free, h.start, h.stop)
        /\ h.start \in Nat /\ h.stop \in Nat
    BY HeapHas
  <2>2. i \in S
    <3>1. S \subseteq DOMAIN h.free
      BY DEF Fitting
    <3> QED BY <1>3, <2>1, <3>1, ChosenIs
  <2>3. i \in DOMAIN h.free /\ h.free[i].size >= size + block - Pointer(h.free[i])
    <3>1. i \in DOMAIN h.free /\ h.free[i].size >= (size + BlockOffset(h.free[i], al)) % SizeMod
      BY <2>2 DEF Fitting
    <3>2. h.free[i] \in Block
      BY <2>1, <3>1, FreeBlockHas
    <3> QED BY <3>1, <3>2, OffsetIs
  <2> HIDE DEF S, i
  <2>4. /\ h.free[i] \in Block /\ h.free[i].at \in Nat /\ h.free[i].size \in Nat
        /\ Pointer(h.free[i]) = h.free[i].at + 32
        /\ BlockEnd(h.free[i]) = h.free[i].at + 32 + h.free[i].size
    BY <2>1, <2>3, FreeBlockHas
  <2>5. block \in Nat /\ Word(block) /\ block % al = 0 /\ h.free[i].at + 32 <= block
    BY <2>4, BlockStartIs
  <2> HIDE DEF block
  <2>6. Pointer(h.free[i]) <= block /\ block + size <= BlockEnd(h.free[i]) /\ block # 0
    BY <2>3, <2>4, <2>5
  <2>7. /\ HeapInv(g) /\ g.start = h.start /\ g.stop = h.stop
        /\ \E b \in UsedBlock : /\ b \notin h.used /\ g.used = h.used \union {b}
                                /\ Pointer(b) = block /\ b.size = size
        /\ Drops(h, g)
    BY <2>3, <2>5, <2>6, ConvertIs
  <2> HIDE DEF g
  <2>8. AllocateFrom(h, size, al, direction) = [heap |-> g, ptr |-> block]
    BY <1>1, <1>3
  <2> QED BY <1>3, <2>5, <2>6, <2>7, <2>8 DEF S
<1> QED BY <1>2, <1>3

LEMMA RoundedSizeIs ==
  ASSUME NEW n \in Nat, 0 < n, n <= SizeMod - 4
  PROVE  /\ RoundedSize(n) \in Nat /\ Word(RoundedSize(n)) /\ RoundedSize(n) >= 4
         /\ n <= RoundedSize(n) /\ RoundedSize(n) < n + 4 /\ RoundedSize(n) < SizeMod
<1> DEFINE m == AlignUp(n, 4)
<1>1. SizeMod \in Nat /\ SizeMod % 4 = 0
  BY ExpHeapAssumption
<1>2. m \in Nat /\ Word(m) /\ n <= m /\ m < n + 4
  BY RoundedDown
<1>3. m % 4 = 0
  BY <1>2 DEF Word, MinimumAlignment
<1> HIDE DEF m
<1>4. m >= 4 /\ m < SizeMod
  BY <1>1, <1>2, <1>3
<1>5. m % SizeMod = m
  BY <1>1, <1>2, <1>4, SmallModulo
<1>6. RoundedSize(n) = m
  BY <1>5 DEF RoundedSize, m, MinimumAlignment
<1> QED BY <1>2, <1>4, <1>6

(* Neither rounding up nor aligning a proper request wraps around. *)
LEMMA ProperIs ==
  ASSUME NEW n \in Nat, NEW al \in Int, ValidAlignment(al), ProperRequest(n, al)
  PROVE  LET asked == IF n = 0 THEN 1 ELSE n
         IN  /\ n <= SizeMod - 4
             /\ asked \in Nat /\ 0 < asked /\ n <= asked /\ asked <= SizeMod - 4
             /\ RoundedSize(asked) + Widened(al) <= SizeMod
<1> DEFINE asked == IF n = 0 THEN 1 ELSE n
           w == Widened(al)
           m == RoundedSize(asked)
<1>1. w \in Nat /\ w # 0 /\ w % 4 = 0 /\ n + w < SizeMod
  BY ValidIs DEF ProperRequest
<1>2. SizeMod \in Nat /\ SizeMod % 4 = 0
  BY ExpHeapAssumption
<1> HIDE DEF w
<1>3. /\ n <= SizeMod - 4 /\ asked + w <= SizeMod
      /\ asked \in Nat /\ 0 < asked /\ n <= asked /\ asked <= SizeMod - 4
  BY <1>1, <1>2
<1> HIDE DEF asked
<1>4. m \in Nat /\ m % 4 = 0 /\ m < asked + 4
  BY <1>3, RoundedSizeIs DEF Word, MinimumAlignment
<1> HIDE DEF m
<1>5. m + w <= SizeMod
  BY <1>1, <1>2, <1>3, <1>4
<1> QED BY <1>3, <1>5 DEF asked, m, w

(* A request is refused, or gets a block of its own, large enough and       *)
(* aligned as asked for.                                                   *)
LEMMA AllocateFromExpHeapIs ==
  ASSUME NEW h, HeapInv(h), NEW n \in Nat, NEW al \in Int, ValidAlignment(al), ProperRequest(n, al)
  PROVE  LET r == AllocateFromExpHeap(h, n, al)
         IN  \/ r.ptr = 0 /\ r.heap = h
             \/ /\ r.ptr # 0
                /\ HeapInv(r.heap) /\ r.heap.start = h.start /\ r.heap.stop = h.stop /\ Drops(h, r.heap)
                /\ \E b \in UsedBlock : /\ b \notin h.used /\ r.heap.used = h.used \union {b}
                                        /\ b.size >= n /\ b.size > 0 /\ Pointer(b) % Magnitude(al) = 0
<1> DEFINE asked == IF n = 0 THEN 1 ELSE n
           size == RoundedSize(asked)
           w == Widened(al)
           direction == IF al >= 0 THEN "Front" ELSE "Back"
           r == AllocateFrom(h, size, w, direction)
<1>1. /\ asked \in Nat /\ 0 < asked /\ asked <= SizeMod - 4 /\ n <= asked
      /\ size + w <= SizeMod
  BY ProperIs
<1> HIDE DEF asked
<1>2. size \in Nat /\ Word(size) /\ size >= 4 /\ asked <= size
  BY <1>1, RoundedSizeIs
<1>3. w \in Nat \ {0} /\ w % 4 = 0 /\ \A p \in Nat : p % w = 0 => p % Magnitude(al) = 0
  BY ValidIs
<1>4. direction \in {"Front", "Back"}
  OBVIOUS
<1>5. AllocateFromExpHeap(h, n, al) = r
  BY DEF AllocateFromExpHeap, asked
<1> HIDE DEF size, w, direction
<1>6. \/ r.ptr = 0 /\ r.heap = h
      \/ /\ r.ptr \in Nat \ {0} /\ r.ptr % w = 0
         /\ HeapInv(r.heap) /\ r.heap.start = h.start /\ r.heap.stop = h.stop /\ Drops(h, r.heap)
         /\ \E b \in UsedBlock : /\ b \notin h.used /\ r.heap.used = h.used \union {b}
                                 /\ Pointer(b) = r.ptr /\ b.size = size
  <2>1. /\ size \in Nat /\ Word(size) /\ size >= 4 /\ w \in Nat \ {0} /\ w % 4 = 0
        /\ size + w <= SizeMod /\ direction \in {"Front", "Back"}
    BY <1>1, <1>2, <1>3, <1>4
  <2>2. Serves(r, h, size, w)
    BY <2>1, AllocateFromIs
  <2> HIDE DEF r
  <2> QED BY <2>2 DEF Serves
<1> HIDE DEF r
<1>7. CASE r.ptr = 0 /\ r.heap = h
  BY <1>5, <1>7
<1>8. CASE /\ r.ptr \in Nat \ {0} /\ r.ptr % w = 0
           /\ HeapInv(r.heap) /\ r.heap.start = h.start /\ r.heap.stop = h.stop /\ Drops(h, r.heap)
           /\ \E b \in UsedBlock : /\ b \notin h.used /\ r.heap.used = h.used \union {b}
                                   /\ Pointer(b) = r.ptr /\ b.size = size
  <2>1. PICK b \in UsedBlock : /\ b \notin h.used /\ r.heap.used = h.used \union {b}
                               /\ Pointer(b) = r.ptr /\ b.size = size
    BY <1>8
  <2>2. Pointer(b) % Magnitude(al) = 0
    BY <1>3, <1>8, <2>1
  <2>3. b.size >= n /\ b.size > 0
    BY <1>1, <1>2, <2>1
  <2> QED BY <1>5, <1>8, <2>1, <2>2, <2>3
<1> QED BY <1>6, <1>7, <1>8

(* The facts about a used block of a heap. *)
LEMMA UsedHas ==
  ASSUME NEW h, HeapInv(h), NEW b \in h.used
  PROVE  /\ b \in UsedBlock /\ Sound(b) /\ Word(b.pad) /\ h.start <= First(b) /\ BlockEnd(b) <= h.stop
         /\ b.at \in Nat /\ b.size \in Nat /\ b.size >= 4 /\ b.pad \in 0 .. 127
         /\ First(b) \in Nat /\ First(b) = b.at - b.pad /\ Word(First(b))
         /\ BlockEnd(b) \in Nat /\ BlockEnd(b) = b.at + 32 + b.size /\ Word(BlockEnd(b))
         /\ Pointer(b) = b.at + 32
         /\ OffAll(First(b), BlockEnd(b), h.free)
<1>1. h.start \in Nat
  BY HeapHas
<1>2. /\ b \in UsedBlock /\ Sound(b) /\ Word(b.pad) /\ h.start <= First(b) /\ BlockEnd(b) <= h.stop
      /\ OffAll(First(b), BlockEnd(b), h.free)
  BY HeapHas DEF Fits
<1>3. 0 <= First(b)
  <2>1. First(b) \in Int
    BY <1>2 DEF First, UsedBlock
  <2> QED BY <1>1, <1>2, <2>1
<1> QED BY <1>2, <1>3, UsedBlockHas

(* FreeToExpHeap gives back the block and nothing else, and never fails.    *)
LEMMA FreeIs ==
  ASSUME NEW h, HeapInv(h), NEW b \in h.used
  PROVE  LET r == FreeToExpHeap(h, b)
         IN  /\ IsValidUsedMemoryBlock(h, b) /\ r.ok /\ HeapInv(r.heap)
             /\ r.heap.start = h.start /\ r.heap.stop = h.stop /\ r.heap.used = h.used \ {b}
             /\ Keeps(h, r.heap)
<1> DEFINE s == First(b)
           e == BlockEnd(b)
           c == Coalesce(h.free, Region(s, e))
           u == h.used \ {b}
<1>1. /\ h.start \in Nat /\ h.stop \in Nat /\ h.stop < SizeMod /\ h.stop <= SizeMod /\ SizeMod \in Nat
      /\ FreeList(h.free, h.start, h.stop) /\ Fits(h.used, h.free, h.start, h.stop)
  BY HeapHas
<1>2. /\ s \in Nat /\ e \in Nat /\ h.start <= s /\ e <= h.stop /\ s + 36 <= e /\ Word(s) /\ Word(e)
      /\ OffAll(s, e, h.free)
      /\ Pointer(b) = b.at + 32 /\ h.start <= b.at + 32 /\ b.at + 32 < h.stop
  <2>1. /\ h.start <= First(b) /\ BlockEnd(b) <= h.stop
        /\ b.at \in Nat /\ b.size \in Nat /\ b.size >= 4 /\ b.pad \in 0 .. 127
        /\ First(b) \in Nat /\ First(b) = b.at - b.pad /\ Word(First(b))
        /\ BlockEnd(b) \in Nat /\ BlockEnd(b) = b.at + 32 + b.size /\ Word(BlockEnd(b))
        /\ Pointer(b) = b.at + 32
        /\ OffAll(First(b), BlockEnd(b), h.free)
    BY UsedHas
  <2> QED BY <1>1, <2>1
<1>3. IsValidUsedMemoryBlock(h, b)
  <2>1. e < SizeMod /\ SizeMod \in Nat
    BY <1>1, <1>2
  <2>2. e % SizeMod = e
    <3> HIDE DEF e
    <3> QED BY <1>2, <2>1, SmallModulo
  <2> QED BY <1>2, <2>2 DEF IsValidUsedMemoryBlock
<1> HIDE DEF s, e
<1>4. /\ FreeList(c.list, h.start, h.stop) /\ c.ok
      /\ \A p, q \in Nat : p < q /\ OffAll(p, q, h.free) /\ (q <= s \/ e <= p) => OffAll(p, q, c.list)
      /\ \A p, q \in Nat : p < q /\ OffAll(p, q, c.list) => OffAll(p, q, h.free) /\ (q <= s \/ e <= p)
  BY <1>1, <1>2, CoalesceIs
<1> HIDE DEF c
<1>5. ASSUME NEW d \in u PROVE OffAll(First(d), BlockEnd(d), c.list)
  <2>1. d \in h.used /\ d # b
    OBVIOUS
  <2>2. /\ First(d) \in Nat /\ BlockEnd(d) \in Nat /\ First(d) < BlockEnd(d)
        /\ OffAll(First(d), BlockEnd(d), h.free)
    <3>1. /\ d.at \in Nat /\ d.size \in Nat /\ d.pad \in 0 .. 127
          /\ First(d) \in Nat /\ First(d) = d.at - d.pad
          /\ BlockEnd(d) \in Nat /\ BlockEnd(d) = d.at + 32 + d.size
          /\ OffAll(First(d), BlockEnd(d), h.free)
      BY <2>1, UsedHas
    <3> QED BY <3>1
  <2>3. BlockEnd(d) <= s \/ e <= First(d)
    BY <1>1, <2>1 DEF Fits, s, e
  <2> QED BY <1>4, <2>2, <2>3
<1>6. Fits(u, c.list, h.start, h.stop)
  <2>1. IsFiniteSet(u)
    BY <1>1, FS_Subset DEF Fits
  <2> QED BY <1>1, <1>5, <2>1 DEF Fits
<1>7. FreeToExpHeap(h, b) = [ok |-> c.ok, heap |-> WithLists(h, c.list, u)]
  <2>1. UsedRegion(b) = Region(s, e)
    BY DEF UsedRegion, s, e, First
  <2>2. [h EXCEPT !.used = h.used \ {b}, !.free = c.list] = WithLists(h, c.list, u)
    <3>1. h \in [start : Nat, stop : Nat, free : Seq(Block), used : SUBSET UsedBlock,
                 mode : Modes, margins : BOOLEAN]
      BY DEF HeapInv, Typed
    <3> QED BY <3>1 DEF WithLists
  <2> QED BY <2>1, <2>2 DEF FreeToExpHeap, c
<1> HIDE DEF u
<1>8. /\ HeapInv(WithLists(h, c.list, u)) /\ WithLists(h, c.list, u).used = u
      /\ WithLists(h, c.list, u).start = h.start /\ WithLists(h, c.list, u).stop = h.stop
      /\ WithLists(h, c.list, u).free = c.list
  BY <1>4, <1>6, HeapWith
<1>9. Keeps(h, WithLists(h, c.list, u))
  <2> DEFINE g == WithLists(h, c.list, u)
  <2>1. g.free = c.list /\ g.used = u
    BY <1>8
  <2> HIDE DEF g
  <2> SUFFICES ASSUME NEW a \in Nat PROVE Stray(g, a) <=> Stray(h, a)
    BY DEF Keeps, g
  <2>2. a + 1 \in Nat /\ a < a + 1 /\ (a + 1 <= s <=> a < s)
    BY <1>2
  <2>3. OffAll(a, a + 1, c.list) <=> OffAll(a, a + 1, h.free) /\ (a < s \/ e <= a)
    BY <1>4, <2>2
  <2>4. (\A d \in h.used : a < First(d) \/ BlockEnd(d) <= a)
          <=> (\A d \in u : a < First(d) \/ BlockEnd(d) <= a) /\ (a < s \/ e <= a)
    BY DEF u, s, e
  <2> QED BY <2>1, <2>3, <2>4 DEF Stray
<1> QED BY <1>3, <1>4, <1>7, <1>8, <1>9 DEF u

(* A used block may end elsewhere if nothing else is there. *)
Sized(b, n) == [b EXCEPT !.size = n]
WithSized(h, f, b, n) == WithLists(h, f, (h.used \ {b}) \union {Sized(b, n)})

LEMMA SizedIs ==
  ASSUME NEW b \in UsedBlock, NEW n \in Nat
  PROVE  /\ Sized(b, n) \in UsedBlock /\ Sized(b, n).at = b.at /\ Sized(b, n).size = n
         /\ Sized(b, n).pad = b.pad /\ First(Sized(b, n)) = First(b) /\ BlockEnd(Sized(b, n)) = b.at + 32 + n
         /\ Sized(b, b.size) = b
  BY DEF Sized, UsedBlock, First, BlockEnd, Pointer, BlockHead

LEMMA WithSizeIs ==
  ASSUME NEW h, HeapInv(h), NEW b, NEW n, NEW f
  PROVE  [WithSize(h, b, n) EXCEPT !.free = f] = WithSized(h, f, b, n)
<1> DEFINE u == (h.used \ {b}) \union {Sized(b, n)}
<1>1. h \in [start : Nat, stop : Nat, free : Seq(Block), used : SUBSET UsedBlock,
             mode : Modes, margins : BOOLEAN]
  BY DEF HeapInv, Typed
<1>2. WithSize(h, b, n) = [h EXCEPT !.used = u]
  BY <1>1 DEF WithSize, Sized
<1>3. WithSized(h, f, b, n) = WithLists(h, f, u)
  BY DEF WithSized
<1> HIDE DEF u
<1>4. [WithSize(h, b, n) EXCEPT !.free = f] = WithLists(h, f, u)
  BY <1>1, <1>2 DEF WithLists
<1> QED BY <1>3, <1>4

LEMMA SizedFits ==
  ASSUME NEW h, HeapInv(h), NEW b \in h.used, NEW n \in Nat, Word(n), n >= 4,
         NEW f, FreeList(f, h.start, h.stop), BlockEnd(Sized(b, n)) <= h.stop,
         OffAll(First(b), BlockEnd(Sized(b, n)), f),
         \A d \in h.used \ {b} : /\ OffAll(First(d), BlockEnd(d), f)
                                 /\ BlockEnd(Sized(b, n)) <= First(d) \/ BlockEnd(d) <= First(b)
  PROVE  /\ HeapInv(WithSized(h, f, b, n))
         /\ WithSized(h, f, b, n).start = h.start /\ WithSized(h, f, b, n).stop = h.stop
         /\ WithSized(h, f, b, n).used = (h.used \ {b}) \union {Sized(b, n)}
<1> DEFINE c == Sized(b, n)
           u == (h.used \ {b}) \union {c}
<1>1. /\ b \in UsedBlock /\ Sound(b) /\ Word(b.pad) /\ h.start <= First(b)
  BY UsedHas
<1>2. c \in UsedBlock /\ c.at = b.at /\ c.size = n /\ c.pad = b.pad /\ First(c) = First(b)
  BY <1>1, SizedIs
<1>3. Sound(c) /\ Word(c.pad)
  BY <1>1, <1>2 DEF Sound, MinimumFreeBlockSize
<1>4. IsFiniteSet(h.used) /\ Fits(h.used, h.free, h.start, h.stop)
  BY HeapHas
<1> HIDE DEF c
<1>6. Fits(u, f, h.start, h.stop)
  <2>1. IsFiniteSet(u)
    BY <1>4, FS_Subset, FS_AddElement
  <2>2. \A d \in u : /\ d \in UsedBlock /\ Sound(d) /\ Word(d.pad)
                     /\ h.start <= First(d) /\ BlockEnd(d) <= h.stop
                     /\ OffAll(First(d), BlockEnd(d), f)
    BY <1>1, <1>2, <1>3, <1>4 DEF Fits, c
  <2>3. \A d, e \in u : d # e => BlockEnd(d) <= First(e) \/ BlockEnd(e) <= First(d)
    BY <1>2, <1>4 DEF Fits, c
  <2> QED BY <2>1, <2>2, <2>3 DEF Fits
<1> HIDE DEF u
<1>7. /\ HeapInv(WithLists(h, f, u)) /\ WithLists(h, f, u).used = u
      /\ WithLists(h, f, u).start = h.start /\ WithLists(h, f, u).stop = h.stop
  BY <1>6, HeapWith
<1> QED BY <1>7 DEF WithSized, u, c

LEMMA WithSizedHas ==
  ASSUME NEW h, HeapInv(h), NEW f, NEW b, NEW n
  PROVE  /\ WithSized(h, f, b, n).free = f
         /\ WithSized(h, f, b, n).used = (h.used \ {b}) \union {Sized(b, n)}
<1>1. h \in [start : Nat, stop : Nat, free : Seq(Block), used : SUBSET UsedBlock,
             mode : Modes, margins : BOOLEAN]
  BY DEF HeapInv, Typed
<1> QED BY <1>1 DEF WithSized, WithLists

(* No byte is lost when a block ends elsewhere if what it loses is free and *)
(* what it gets was.                                                       *)
LEMMA SizedKeeps ==
  ASSUME NEW h, NEW g, NEW b \in h.used, NEW c,
         g.used = (h.used \ {b}) \union {c}, First(c) = First(b),
         \A a \in Nat : OffAll(a, a + 1, g.free) /\ (a < First(b) \/ BlockEnd(c) <= a)
                          <=> OffAll(a, a + 1, h.free) /\ (a < First(b) \/ BlockEnd(b) <= a)
  PROVE  Keeps(h, g)
<1> SUFFICES ASSUME NEW a \in Nat PROVE Stray(g, a) <=> Stray(h, a)
  BY DEF Keeps
<1>1. (\A d \in g.used : a < First(d) \/ BlockEnd(d) <= a)
        <=> (\A d \in h.used \ {b} : a < First(d) \/ BlockEnd(d) <= a) /\ (a < First(b) \/ BlockEnd(c) <= a)
  OBVIOUS
<1>2. (\A d \in h.used : a < First(d) \/ BlockEnd(d) <= a)
        <=> (\A d \in h.used \ {b} : a < First(d) \/ BlockEnd(d) <= a) /\ (a < First(b) \/ BlockEnd(b) <= a)
  OBVIOUS
<1> QED BY <1>1, <1>2 DEF Stray

(* Two used blocks of a heap. *)
LEMMA UsedApartIs ==
  ASSUME NEW h, HeapInv(h), NEW b \in h.used, NEW d \in h.used, b # d
  PROVE  /\ BlockEnd(b) <= First(d) \/ BlockEnd(d) <= First(b)
         /\ First(d) \in Nat /\ BlockEnd(d) \in Nat /\ First(d) < BlockEnd(d)
         /\ OffAll(First(d), BlockEnd(d), h.free)
<1>1. Fits(h.used, h.free, h.start, h.stop)
  BY HeapHas
<1>2. /\ d.at \in Nat /\ d.size \in Nat /\ d.pad \in 0 .. 127
      /\ First(d) \in Nat /\ First(d) = d.at - d.pad
      /\ BlockEnd(d) \in Nat /\ BlockEnd(d) = d.at + 32 + d.size
      /\ OffAll(First(d), BlockEnd(d), h.free)
  BY UsedHas
<1>3. BlockEnd(b) <= First(d) \/ BlockEnd(d) <= First(b)
  BY <1>1 DEF Fits
<1> QED BY <1>2, <1>3

LEMMA ShrinkIs ==
  ASSUME NEW h, HeapInv(h), NEW b \in h.used, NEW n \in Nat, Word(n), n >= 4, n < b.size
  PROVE  LET r == Shrink(h, b, n)
         IN  /\ HeapInv(r.heap) /\ r.heap.start = h.start /\ r.heap.stop = h.stop
             /\ r.size > 0 /\ Keeps(h, r.heap)
             /\ \E m \in Nat : m >= n /\ r.heap.used = (h.used \ {b}) \union {Sized(b, m)}
<1> DEFINE s == Pointer(b) + n
           e == BlockEnd(b)
           c == Coalesce(h.free, Region(s, e))
           left == IF c.ok THEN n ELSE b.size
<1>1. /\ h.start \in Nat /\ h.stop \in Nat /\ h.stop <= SizeMod /\ FreeList(h.free, h.start, h.stop)
      /\ h.free \in Seq(Block)
  BY HeapHas
<1>2. /\ b \in UsedBlock /\ Sound(b) /\ Word(b.pad) /\ h.start <= First(b) /\ BlockEnd(b) <= h.stop
      /\ b.at \in Nat /\ b.size \in Nat /\ b.size >= 4 /\ b.pad \in 0 .. 127
      /\ First(b) \in Nat /\ First(b) = b.at - b.pad /\ Word(First(b))
      /\ BlockEnd(b) \in Nat /\ BlockEnd(b) = b.at + 32 + b.size /\ Word(BlockEnd(b))
      /\ Pointer(b) = b.at + 32
      /\ OffAll(First(b), BlockEnd(b), h.free)
  BY UsedHas
<1>3. /\ s \in Nat /\ e \in Nat /\ s = b.at + 32 + n /\ First(b) < s /\ h.start <= s /\ s < e /\ e <= h.stop /\ Word(e)
  <2>1. s = b.at + 32 + n
    BY <1>2
  <2>2. h.start \in Nat /\ First(b) \in Nat /\ b.at \in Nat /\ b.size \in Nat /\ b.pad \in 0 .. 127
    BY <1>1, <1>2
  <2>3. /\ h.start <= First(b) /\ First(b) = b.at - b.pad
        /\ e = b.at + 32 + b.size /\ e <= h.stop /\ Word(e) /\ e \in Nat
    BY <1>2
  <2> HIDE DEF s, e
  <2> QED BY <2>1, <2>2, <2>3
<1>4. Word(s)
  <2>1. b.at % 4 = 0 /\ n % 4 = 0
    BY <1>2 DEF Sound, Word, MinimumAlignment
  <2>2. (b.at + 32 + n) % 4 = 0
    BY <1>2, <2>1
  <2> QED BY <1>3, <2>2 DEF Word, MinimumAlignment
<1> HIDE DEF s, e
<1>5. OffAll(s, e, h.free) /\ OffAll(First(b), s, h.free)
  <2> SUFFICES ASSUME NEW i \in DOMAIN h.free PROVE Off(s, e, h.free[i]) /\ Off(First(b), s, h.free[i])
    BY DEF OffAll
  <2>1. e <= h.free[i].at \/ BlockEnd(h.free[i]) <= First(b)
    BY <1>2 DEF OffAll, Off, e
  <2>2. h.free[i].at \in Nat /\ BlockEnd(h.free[i]) \in Nat
    BY <1>1, BlockIs
  <2> QED BY <1>2, <1>3, <2>1, <2>2 DEF Off
<1>6. /\ FreeList(c.list, h.start, h.stop) /\ c.ok \in BOOLEAN
      /\ ~c.ok => c.list = h.free
      /\ \A p, q \in Nat : p < q /\ OffAll(p, q, h.free) /\ (q <= s \/ e <= p) => OffAll(p, q, c.list)
      /\ c.ok => \A p, q \in Nat : p < q /\ OffAll(p, q, c.list) => OffAll(p, q, h.free) /\ (q <= s \/ e <= p)
  BY <1>1, <1>3, <1>4, <1>5, CoalesceIs, SMTT(30)
<1>7. Shrink(h, b, n) = [heap |-> [WithSize(h, b, left) EXCEPT !.free = c.list], size |-> left]
  BY DEF Shrink, s, e
<1> HIDE DEF c
<1>8. /\ left \in Nat /\ left >= n /\ left >= 4 /\ Word(left) /\ left > 0 /\ left <= b.size
      /\ (c.ok /\ left = n) \/ (~c.ok /\ left = b.size)
  BY <1>2, <1>6 DEF Sound
<1> HIDE DEF left
<1>9. /\ BlockEnd(Sized(b, left)) = b.at + 32 + left
      /\ BlockEnd(Sized(b, left)) \in Nat /\ BlockEnd(Sized(b, left)) <= e
      /\ BlockEnd(Sized(b, left)) <= h.stop
  <2>1. BlockEnd(Sized(b, left)) = b.at + 32 + left
    BY <1>2, <1>8, SizedIs
  <2>2. e = b.at + 32 + b.size /\ e <= h.stop /\ e \in Nat
    BY <1>2, <1>3 DEF e
  <2>3. b.at \in Nat /\ b.size \in Nat /\ left \in Nat /\ left <= b.size /\ h.stop \in Nat
    BY <1>1, <1>2, <1>8
  <2> HIDE DEF e
  <2> QED BY <2>1, <2>2, <2>3
<1>10. OffAll(First(b), BlockEnd(Sized(b, left)), c.list)
  <2>1. CASE c.ok
    <3>1. BlockEnd(Sized(b, left)) = s
      BY <1>3, <1>8, <1>9, <2>1
    <3> QED BY <1>2, <1>3, <1>5, <1>6, <3>1
  <2>2. CASE ~c.ok
    <3>1. BlockEnd(Sized(b, left)) = e
      BY <1>2, <1>8, <1>9, <2>2 DEF e
    <3> QED BY <1>2, <1>6, <2>2, <3>1 DEF e
  <2> QED BY <2>1, <2>2
<1>11. ASSUME NEW d \in h.used \ {b}
       PROVE  /\ OffAll(First(d), BlockEnd(d), c.list)
              /\ BlockEnd(Sized(b, left)) <= First(d) \/ BlockEnd(d) <= First(b)
  <2>1. /\ e <= First(d) \/ BlockEnd(d) <= First(b)
        /\ First(d) \in Nat /\ BlockEnd(d) \in Nat /\ First(d) < BlockEnd(d)
        /\ OffAll(First(d), BlockEnd(d), h.free)
    BY UsedApartIs DEF e
  <2>2. BlockEnd(d) <= s \/ e <= First(d)
    BY <1>2, <1>3, <2>1
  <2>3. BlockEnd(Sized(b, left)) <= First(d) \/ BlockEnd(d) <= First(b)
    BY <1>3, <1>9, <2>1
  <2> QED BY <1>6, <2>1, <2>2, <2>3
<1> DEFINE f == c.list
<1>12. /\ FreeList(f, h.start, h.stop) /\ OffAll(First(b), BlockEnd(Sized(b, left)), f)
       /\ \A d \in h.used \ {b} : /\ OffAll(First(d), BlockEnd(d), f)
                                  /\ BlockEnd(Sized(b, left)) <= First(d) \/ BlockEnd(d) <= First(b)
  BY <1>6, <1>10, <1>11
<1>13. Shrink(h, b, n) = [heap |-> [WithSize(h, b, left) EXCEPT !.free = f], size |-> left]
  BY <1>7
<1> HIDE DEF f
<1>14. /\ HeapInv(WithSized(h, f, b, left))
       /\ WithSized(h, f, b, left).start = h.start /\ WithSized(h, f, b, left).stop = h.stop
       /\ WithSized(h, f, b, left).used = (h.used \ {b}) \union {Sized(b, left)}
  <2>1. /\ left \in Nat /\ Word(left) /\ left >= 4 /\ BlockEnd(Sized(b, left)) <= h.stop
        /\ FreeList(f, h.start, h.stop) /\ OffAll(First(b), BlockEnd(Sized(b, left)), f)
    BY <1>8, <1>9, <1>12
  <2>2. \A d \in h.used \ {b} : /\ OffAll(First(d), BlockEnd(d), f)
                                /\ BlockEnd(Sized(b, left)) <= First(d) \/ BlockEnd(d) <= First(b)
    BY <1>12
  <2> QED BY <2>1, <2>2, SizedFits
<1>15. Shrink(h, b, n) = [heap |-> WithSized(h, f, b, left), size |-> left]
  <2>1. \A x, y : [WithSize(h, b, x) EXCEPT !.free = y] = WithSized(h, y, b, x)
    BY WithSizeIs, Zenon
  <2> QED BY <1>13, <2>1, Zenon
<1>16. Keeps(h, WithSized(h, f, b, left))
  <2>1. /\ WithSized(h, f, b, left).free = f
        /\ WithSized(h, f, b, left).used = (h.used \ {b}) \union {Sized(b, left)}
    BY <1>14, WithSizedHas
  <2>2. First(Sized(b, left)) = First(b)
    BY <1>2, <1>8, SizedIs
  <2>3. ASSUME NEW a \in Nat
        PROVE  OffAll(a, a + 1, f) /\ (a < First(b) \/ BlockEnd(Sized(b, left)) <= a)
                 <=> OffAll(a, a + 1, h.free) /\ (a < First(b) \/ e <= a)
    <3>1. CASE c.ok
      <4>1. BlockEnd(Sized(b, left)) = s
        BY <1>3, <1>8, <1>9, <3>1
      <4>2. a + 1 \in Nat /\ a < a + 1 /\ (a + 1 <= s <=> a < s)
        BY <1>3
      <4>3. OffAll(a, a + 1, f) <=> OffAll(a, a + 1, h.free) /\ (a < s \/ e <= a)
        BY <1>6, <3>1, <4>2 DEF f
      <4> QED BY <1>2, <1>3, <4>1, <4>3
    <3>2. CASE ~c.ok
      <4>1. BlockEnd(Sized(b, left)) = e
        BY <1>2, <1>8, <1>9, <3>2 DEF e
      <4> QED BY <1>6, <3>2, <4>1 DEF f
    <3> QED BY <3>1, <3>2
  <2> QED BY <2>1, <2>2, <2>3, SizedKeeps DEF e
<1> QED BY <1>8, <1>14, <1>15, <1>16

LEMMA GrowIs ==
  ASSUME NEW h, HeapInv(h), NEW b \in h.used, NEW n \in Nat, Word(n), n > b.size
  PROVE  LET r == Grow(h, b, n)
         IN  \/ r.heap = h /\ r.size = 0
             \/ /\ HeapInv(r.heap) /\ r.heap.start = h.start /\ r.heap.stop = h.stop
                /\ r.size > 0 /\ Keeps(h, r.heap)
                /\ \E m \in Nat : m >= n /\ r.heap.used = (h.used \ {b}) \union {Sized(b, m)}
<1> DEFINE list == h.free
           next == {j \in DOMAIN list : list[j].at = BlockEnd(b)}
           i == CHOOSE j \in next : TRUE
           s == Pointer(b) + n
           z == BlockEnd(list[i])
           rest == Region(s, z)
           taken == IF HoldsBlock(rest) THEN n ELSE z - Pointer(b)
           kept == IF HoldsBlock(rest) THEN <<FreeBlock(rest)>> ELSE <<>>
           f == Spliced(list, i - 1, kept, i + 1)
<1>1. Grow(h, b, n) = IF next = {} \/ n > b.size + 32 + list[i].size
                      THEN [heap |-> h, size |-> 0]
                      ELSE [heap |-> [WithSize(h, b, taken) EXCEPT !.free = f], size |-> taken]
  <2>1. rest.stop = z /\ \A x, y : WithSize(h, x, y).free = list
    <3>1. h \in [start : Nat, stop : Nat, free : Seq(Block), used : SUBSET UsedBlock,
                 mode : Modes, margins : BOOLEAN]
      BY DEF HeapInv, Typed
    <3> QED BY <3>1 DEF WithSize, Region
  <2>2. [WithSize(h, b, taken) EXCEPT !.free = SubSeq(@, 1, i - 1) \o kept \o SubSeq(@, i + 1, Len(@))]
          = [WithSize(h, b, taken) EXCEPT !.free = f]
    <3>1. WithSize(h, b, taken).free = list
      BY <2>1
    <3> HIDE DEF i, list, taken, kept
    <3> QED BY <3>1 DEF Spliced
  <2>3. Grow(h, b, n) = IF next = {} \/ n > b.size + BlockHead + list[i].size
                        THEN [heap |-> h, size |-> 0]
                        ELSE [heap |-> [WithSize(h, b, taken) EXCEPT
                                          !.free = SubSeq(@, 1, i - 1) \o kept \o SubSeq(@, i + 1, Len(@))],
                              size |-> taken]
    <3>1. taken = IF HoldsBlock(rest) THEN n ELSE rest.stop - Pointer(b)
      BY <2>1
    <3> HIDE DEF taken
    <3> QED BY <3>1 DEF Grow
  <2> HIDE DEF next, i, taken, kept, list, f
  <2> QED BY <2>2, <2>3 DEF BlockHead
<1>2. CASE next = {} \/ n > b.size + 32 + list[i].size
  <2>1. Grow(h, b, n) = [heap |-> h, size |-> 0]
    BY <1>1, <1>2, Zenon
  <2> HIDE DEF list, next, i, s, z, rest, taken, kept, f
  <2> QED BY <2>1
<1>3. CASE next # {} /\ ~(n > b.size + 32 + list[i].size)
  <2>1. i \in DOMAIN list /\ list[i].at = BlockEnd(b)
    <3>1. i \in next
      BY <1>3
    <3> HIDE DEF i
    <3> QED BY <3>1
  <2> HIDE DEF i
  <2>2. /\ h.start \in Nat /\ h.stop \in Nat /\ h.stop <= SizeMod /\ FreeList(list, h.start, h.stop)
        /\ list \in Seq(Block)
    BY HeapHas
  <2>3. /\ b \in UsedBlock /\ Sound(b) /\ h.start <= First(b)
        /\ b.at \in Nat /\ b.size \in Nat /\ b.size >= 4 /\ b.pad \in 0 .. 127
        /\ First(b) \in Nat /\ First(b) = b.at - b.pad
        /\ BlockEnd(b) \in Nat /\ BlockEnd(b) = b.at + 32 + b.size
        /\ Pointer(b) = b.at + 32
        /\ OffAll(First(b), BlockEnd(b), list)
    BY UsedHas
  <2>4. /\ list[i].at \in Nat /\ list[i].size \in Nat /\ list[i].size >= 4
        /\ z = list[i].at + 32 + list[i].size /\ z \in Nat /\ z <= h.stop /\ Word(z)
    <3>1. /\ list[i].at \in Nat /\ list[i].size \in Nat /\ list[i].size >= 4
          /\ z = list[i].at + 32 + list[i].size /\ z <= h.stop /\ Word(z)
      BY <2>1, <2>2, FreeBlockHas
    <3>2. \A x, y \in Nat : x + 32 + y \in Nat
      OBVIOUS
    <3> QED BY <3>1, <3>2
  <2>5. s = b.at + 32 + n
    BY <2>3
  <2> HIDE DEF list, next, s, z
  <2>6. s \in Nat /\ list[i].at <= s /\ s <= z /\ First(b) < s
    BY <1>3, <2>1, <2>3, <2>4, <2>5
  <2>7. Word(s) /\ n % 4 = 0
    <3>1. b.at % 4 = 0 /\ n % 4 = 0
      BY <2>3 DEF Sound, Word, MinimumAlignment
    <3>2. \A x, y \in Nat : x % 4 = 0 /\ y % 4 = 0 => (x + 32 + y) % 4 = 0
      OBVIOUS
    <3>3. (b.at + 32 + n) % 4 = 0
      BY <2>3, <3>1, <3>2
    <3> QED BY <2>5, <3>1, <3>3 DEF Word, MinimumAlignment
(* What is kept of the free block, and where the used one ends. *)
  <2> DEFINE y == BlockEnd(Sized(b, taken))
  <2>8. /\ taken \in Nat /\ Word(taken) /\ taken >= 4 /\ taken >= n
        /\ y \in Nat /\ BlockEnd(b) <= y /\ y <= z /\ First(b) < y
        /\ kept \in Seq(Block) /\ Spread(kept)
        /\ \A m \in DOMAIN kept : Sound(kept[m]) /\ list[i].at <= kept[m].at /\ y <= kept[m].at /\ BlockEnd(kept[m]) <= z
        /\ y = z \/ \E m \in DOMAIN kept : kept[m].at = y /\ BlockEnd(kept[m]) = z
    <3>1. CASE HoldsBlock(rest)
      <4>1. z <= SizeMod
        BY <2>2, <2>4, ExpHeapAssumption
      <4>2. /\ FreeBlock(rest) \in Block /\ Sound(FreeBlock(rest))
            /\ FreeBlock(rest).at = s /\ BlockEnd(FreeBlock(rest)) = z
        BY <2>4, <2>6, <2>7, <3>1, <4>1, FreeBlockIs
      <4>3. taken = n /\ kept = <<FreeBlock(rest)>>
        BY <3>1
      <4> HIDE DEF rest, taken, kept
      <4>4. kept \in Seq(Block) /\ DOMAIN kept = {1} /\ kept[1] = FreeBlock(rest)
        BY <4>2, <4>3
      <4>5. Spread(kept)
        BY <4>4 DEF Spread
      <4>6. y = s
        BY <2>3, <2>5, <4>3, SizedIs
      <4> HIDE DEF y
      <4>7. /\ taken \in Nat /\ Word(taken) /\ taken >= 4 /\ taken >= n
        BY <2>3, <4>3
      <4>8. y \in Nat /\ BlockEnd(b) <= y /\ y <= z /\ First(b) < y
        BY <2>1, <2>6, <4>6
      <4> QED BY <2>4, <2>6, <4>2, <4>4, <4>5, <4>6, <4>7, <4>8
    <3>2. CASE ~HoldsBlock(rest)
      <4>1. taken = z - Pointer(b) /\ kept = <<>>
        BY <3>2
      <4> HIDE DEF rest, taken, kept
      <4>2. taken \in Nat /\ taken >= n /\ taken >= 4 /\ b.at + 32 + taken = z
        <5>1. b.at \in Nat /\ Pointer(b) = b.at + 32 /\ z \in Nat /\ s = b.at + 32 + n /\ s <= z
          BY <2>3, <2>4, <2>5, <2>6
        <5>2. n >= 4
          BY <2>3
        <5>3. taken = z - (b.at + 32)
          BY <4>1, <5>1
        <5>4. taken \in Int /\ taken >= n
          BY <5>1, <5>3
        <5>5. b.at + 32 + taken = z
          BY <5>1, <5>3
        <5> QED BY <5>2, <5>4, <5>5
      <4>3. Word(taken)
        <5>1. b.at % 4 = 0 /\ z % 4 = 0
          BY <2>3, <2>4 DEF Sound, Word, MinimumAlignment
        <5>2. \A x, w \in Nat : x % 4 = 0 /\ (x + 32 + w) % 4 = 0 => w % 4 = 0
          OBVIOUS
        <5>3. b.at \in Nat /\ (b.at + 32 + taken) % 4 = 0
          BY <2>3, <4>2, <5>1
        <5>4. taken % 4 = 0
          BY <4>2, <5>1, <5>2, <5>3
        <5> QED BY <5>4 DEF Word, MinimumAlignment
      <4>4. y = z
        BY <2>3, <4>2, SizedIs
      <4> HIDE DEF y
      <4>5. kept \in Seq(Block) /\ DOMAIN kept = {}
        BY <4>1
      <4>6. Spread(kept)
        BY <4>5 DEF Spread
      <4>7. y \in Nat /\ BlockEnd(b) <= y /\ y <= z /\ First(b) < y
        BY <2>1, <2>4, <2>6, <2>3, <4>4
      <4> QED BY <4>2, <4>3, <4>4, <4>5, <4>6, <4>7
    <3> QED BY <3>1, <3>2
  <2> HIDE DEF taken, kept
(* The list without it. *)
  <2>9. /\ FreeList(f, h.start, h.stop)
        /\ \A k \in DOMAIN f : \/ \E m \in DOMAIN list : m # i /\ f[k] = list[m]
                               \/ \E m \in DOMAIN kept : f[k] = kept[m]
        /\ \A k \in DOMAIN list : k # i => BlockEnd(list[k]) < list[i].at \/ z < list[k].at
    <3>1. \A m \in DOMAIN kept : Sound(kept[m]) /\ list[i].at <= kept[m].at /\ BlockEnd(kept[m]) <= BlockEnd(list[i])
      BY <2>8 DEF z
    <3>2. kept \in Seq(Block) /\ Spread(kept)
      BY <2>8
    <3> QED BY <2>1, <2>2, <3>1, <3>2, CarvedIs DEF z
  <2>17. /\ \A k \in DOMAIN list : k # i => \E m \in DOMAIN f : f[m] = list[k]
         /\ \A k \in DOMAIN kept : \E m \in DOMAIN f : f[m] = kept[k]
    <3>1. list \in Seq(Block) /\ i \in DOMAIN list /\ kept \in Seq(Block)
      BY <2>1, <2>2, <2>8
    <3>2. /\ \A k \in DOMAIN list :
               k # i => \E m \in DOMAIN Spliced(list, i - 1, kept, i + 1) : Spliced(list, i - 1, kept, i + 1)[m] = list[k]
          /\ \A k \in DOMAIN kept :
               \E m \in DOMAIN Spliced(list, i - 1, kept, i + 1) : Spliced(list, i - 1, kept, i + 1)[m] = kept[k]
      BY <3>1, CarvedKeeps
    <3> QED BY <3>2
  <2> HIDE DEF f, y
  <2>10. /\ \A m \in DOMAIN list : list[m].at \in Nat /\ BlockEnd(list[m]) \in Nat /\ list[m].at < BlockEnd(list[m])
         /\ \A m \in DOMAIN kept : kept[m].at \in Nat /\ BlockEnd(kept[m]) \in Nat
    <3>1. ASSUME NEW c \in Block PROVE c.at \in Nat /\ BlockEnd(c) \in Nat /\ c.at < BlockEnd(c)
      <4>1. c.at \in Nat /\ c.size \in Nat /\ BlockEnd(c) \in Nat /\ BlockEnd(c) = c.at + 32 + c.size
        BY BlockIs
      <4> QED BY <4>1
    <3>2. /\ \A m \in DOMAIN list : list[m] \in Block
          /\ \A m \in DOMAIN kept : kept[m] \in Block
      BY <2>2, <2>8
    <3> QED BY <3>1, <3>2
  <2>11. ASSUME NEW p \in Nat, NEW q \in Nat, p < q, OffAll(p, q, list),
                q <= list[i].at \/ z <= p
         PROVE  OffAll(p, q, f)
    <3> SUFFICES ASSUME NEW k \in DOMAIN f PROVE Off(p, q, f[k])
      BY DEF OffAll
    <3>1. CASE \E m \in DOMAIN list : m # i /\ f[k] = list[m]
      BY <2>11, <3>1 DEF OffAll
    <3>2. CASE \E m \in DOMAIN kept : f[k] = kept[m]
      <4>1. PICK m \in DOMAIN kept : f[k] = kept[m]
        BY <3>2
      <4>2. /\ list[i].at <= kept[m].at /\ BlockEnd(kept[m]) <= z
            /\ kept[m].at \in Nat /\ BlockEnd(kept[m]) \in Nat
        BY <2>8, <2>10
      <4> QED BY <2>4, <2>11, <4>1, <4>2 DEF Off
    <3> QED BY <2>9, <3>1, <3>2
  <2>12. OffAll(First(b), y, f)
    <3> SUFFICES ASSUME NEW k \in DOMAIN f PROVE Off(First(b), y, f[k])
      BY DEF OffAll
    <3>1. CASE \E m \in DOMAIN list : m # i /\ f[k] = list[m]
      <4>1. PICK m \in DOMAIN list : m # i /\ f[k] = list[m]
        BY <3>1
      <4>2. BlockEnd(b) <= list[m].at \/ BlockEnd(list[m]) <= First(b)
        BY <2>3 DEF OffAll, Off
      <4>3. BlockEnd(list[m]) < list[i].at \/ z < list[m].at
        BY <2>9, <4>1
      <4>4. list[m].at \in Nat /\ BlockEnd(list[m]) \in Nat /\ list[m].at < BlockEnd(list[m])
        BY <2>10
      <4>5. y <= list[m].at \/ BlockEnd(list[m]) <= First(b)
        <5>1. y \in Nat /\ y <= z /\ z \in Nat /\ list[i].at = BlockEnd(b) /\ BlockEnd(b) \in Nat
          BY <2>1, <2>3, <2>4, <2>8
        <5> QED BY <4>2, <4>3, <4>4, <5>1
      <4> QED BY <4>1, <4>5 DEF Off
    <3>2. CASE \E m \in DOMAIN kept : f[k] = kept[m]
      BY <2>8, <3>2 DEF Off
    <3> QED BY <2>9, <3>1, <3>2
  <2>13. ASSUME NEW d \in h.used \ {b}
         PROVE  OffAll(First(d), BlockEnd(d), f) /\ (y <= First(d) \/ BlockEnd(d) <= First(b))
    <3>1. /\ BlockEnd(b) <= First(d) \/ BlockEnd(d) <= First(b)
          /\ First(d) \in Nat /\ BlockEnd(d) \in Nat /\ First(d) < BlockEnd(d)
          /\ OffAll(First(d), BlockEnd(d), list)
      BY UsedApartIs DEF list
    <3>2. BlockEnd(d) <= list[i].at \/ z <= First(d)
      BY <2>1, <3>1 DEF OffAll, Off, z
    <3>3. y <= First(d) \/ BlockEnd(d) <= First(b)
      <4>1. y \in Nat /\ y <= z /\ z \in Nat /\ list[i].at = BlockEnd(b) /\ BlockEnd(b) \in Nat /\ First(b) \in Nat
        BY <2>1, <2>3, <2>4, <2>8
      <4> QED BY <3>1, <3>2, <4>1
    <3> QED BY <2>11, <3>1, <3>2, <3>3
  <2>14. /\ HeapInv(WithSized(h, f, b, taken))
         /\ WithSized(h, f, b, taken).start = h.start /\ WithSized(h, f, b, taken).stop = h.stop
         /\ WithSized(h, f, b, taken).used = (h.used \ {b}) \union {Sized(b, taken)}
    <3>1. /\ taken \in Nat /\ Word(taken) /\ taken >= 4 /\ BlockEnd(Sized(b, taken)) <= h.stop
          /\ FreeList(f, h.start, h.stop) /\ OffAll(First(b), BlockEnd(Sized(b, taken)), f)
      <4>1. y <= h.stop
        BY <2>2, <2>4, <2>8
      <4> QED BY <2>8, <2>9, <2>12, <4>1 DEF y
    <3>2. \A d \in h.used \ {b} : /\ OffAll(First(d), BlockEnd(d), f)
                                  /\ BlockEnd(Sized(b, taken)) <= First(d) \/ BlockEnd(d) <= First(b)
      BY <2>13 DEF y
    <3> QED BY <3>1, <3>2, SizedFits
  <2>15. Grow(h, b, n) = [heap |-> WithSized(h, f, b, taken), size |-> taken]
    <3>1. \A x, v : [WithSize(h, b, x) EXCEPT !.free = v] = WithSized(h, v, b, x)
      BY WithSizeIs, Zenon
    <3>2. Grow(h, b, n) = [heap |-> [WithSize(h, b, taken) EXCEPT !.free = f], size |-> taken]
      BY <1>1, <1>3, Zenon
    <3> QED BY <3>1, <3>2, Zenon
  <2>16. taken > 0 /\ taken >= n /\ taken \in Nat
    BY <2>8
  <2>18. ASSUME NEW a \in Nat
         PROVE  OffAll(a, a + 1, f) /\ (a < First(b) \/ y <= a)
                  <=> OffAll(a, a + 1, list) /\ (a < First(b) \/ BlockEnd(b) <= a)
    <3>1. ASSUME OffAll(a, a + 1, list), a < First(b) \/ BlockEnd(b) <= a
          PROVE  OffAll(a, a + 1, f) /\ (a < First(b) \/ y <= a)
      <4>1. a < list[i].at \/ z <= a
        BY <2>1, <2>4, <3>1 DEF OffAll, Off, z
      <4>2. a + 1 \in Nat /\ a < a + 1 /\ (a + 1 <= list[i].at \/ z <= a)
        BY <2>4, <4>1
      <4>3. OffAll(a, a + 1, f)
        BY <2>11, <3>1, <4>2
      <4>4. a < First(b) \/ y <= a
        BY <2>1, <2>3, <2>4, <2>8, <3>1, <4>1
      <4> QED BY <4>3, <4>4
    <3>2. ASSUME OffAll(a, a + 1, f), a < First(b) \/ y <= a
          PROVE  OffAll(a, a + 1, list) /\ (a < First(b) \/ BlockEnd(b) <= a)
      <4>1. \A m \in DOMAIN f : Off(a, a + 1, f[m])
        BY <3>2 DEF OffAll
      <4>2. \A k \in DOMAIN list : k # i => Off(a, a + 1, list[k])
        BY <2>17, <4>1
      <4>3. y = z \/ a < y \/ z <= a
        BY <2>4, <2>8, <2>17, <4>1, SMTT(30) DEF Off
      <4>4. a < First(b) \/ z <= a
        BY <2>3, <2>4, <2>8, <3>2, <4>3
      <4>5. Off(a, a + 1, list[i])
        BY <2>1, <2>3, <2>4, <4>4 DEF Off, z
      <4>6. a < First(b) \/ BlockEnd(b) <= a
        BY <2>3, <2>4, <2>8, <4>4
      <4> QED BY <4>2, <4>5, <4>6 DEF OffAll
    <3> QED BY <3>1, <3>2
  <2>19. Keeps(h, WithSized(h, f, b, taken))
    <3>1. /\ WithSized(h, f, b, taken).free = f
          /\ WithSized(h, f, b, taken).used = (h.used \ {b}) \union {Sized(b, taken)}
      BY WithSizedHas
    <3>2. First(Sized(b, taken)) = First(b)
      BY <2>3, <2>8, SizedIs
    <3>3. \A a \in Nat : OffAll(a, a + 1, f) /\ (a < First(b) \/ BlockEnd(Sized(b, taken)) <= a)
                           <=> OffAll(a, a + 1, h.free) /\ (a < First(b) \/ BlockEnd(b) <= a)
      BY <2>18 DEF y, list
    <3> QED BY <3>1, <3>2, <3>3, SizedKeeps
  <2> QED BY <2>14, <2>15, <2>16, <2>19
<1> QED BY <1>2, <1>3

(* A block is resized to the size asked for or a little more, or nothing    *)
(* happened.                                                               *)
LEMMA ResizeIs ==
  ASSUME NEW h, HeapInv(h), NEW b \in h.used, NEW n \in Nat, 0 < n, n <= SizeMod - 4
  PROVE  LET r == ResizeExpHeapMemoryBlock(h, b, n)
         IN  \/ r.heap = h /\ r.size = 0
             \/ /\ HeapInv(r.heap) /\ r.heap.start = h.start /\ r.heap.stop = h.stop
                /\ r.size > 0 /\ Keeps(h, r.heap)
                /\ \E m \in Nat : m >= n /\ r.heap.used = (h.used \ {b}) \union {Sized(b, m)}
<1> DEFINE size == RoundedSize(n)
           r == ResizeExpHeapMemoryBlock(h, b, n)
<1>1. size \in Nat /\ Word(size) /\ size >= 4 /\ n <= size
  BY RoundedSizeIs
<1>2. b \in UsedBlock /\ b.size \in Nat
  BY UsedHas
<1>3. r = CASE size = b.size -> [heap |-> h, size |-> size]
            [] size > b.size -> Grow(h, b, size)
            [] size < b.size -> Shrink(h, b, size)
  BY DEF ResizeExpHeapMemoryBlock
<1> HIDE DEF r, size
<1>4. CASE size = b.size
  <2>1. r = [heap |-> h, size |-> size]
    BY <1>1, <1>2, <1>3, <1>4
  <2>2. h.used = (h.used \ {b}) \union {Sized(b, size)}
    <3>1. Sized(b, size) = b
      BY <1>2, <1>4, SizedIs
    <3> QED BY <3>1
  <2>3. size > 0
    BY <1>1
  <2>4. Keeps(h, h)
    BY DEF Keeps
  <2> QED BY <1>1, <2>1, <2>2, <2>3, <2>4 DEF r
<1>5. CASE size > b.size
  <2>1. r = Grow(h, b, size)
    BY <1>1, <1>2, <1>3, <1>5
  <2>2. \/ r.heap = h /\ r.size = 0
        \/ /\ HeapInv(r.heap) /\ r.heap.start = h.start /\ r.heap.stop = h.stop
           /\ r.size > 0 /\ Keeps(h, r.heap)
           /\ \E m \in Nat : m >= size /\ r.heap.used = (h.used \ {b}) \union {Sized(b, m)}
    BY <1>1, <1>5, <2>1, GrowIs
  <2>3. \A m \in Nat : m >= size => m >= n
    BY <1>1
  <2> QED BY <2>2, <2>3 DEF r
<1>6. CASE size < b.size
  <2>1. r = Shrink(h, b, size)
    BY <1>1, <1>2, <1>3, <1>6
  <2>2. /\ HeapInv(r.heap) /\ r.heap.start = h.start /\ r.heap.stop = h.stop
        /\ r.size > 0 /\ Keeps(h, r.heap)
        /\ \E m \in Nat : m >= size /\ r.heap.used = (h.used \ {b}) \union {Sized(b, m)}
    BY <1>1, <1>6, <2>1, ShrinkIs
  <2>3. \A m \in Nat : m >= size => m >= n
    BY <1>1
  <2> QED BY <2>2, <2>3 DEF r
<1> QED BY <1>1, <1>2, <1>4, <1>5, <1>6

(* The heap before initialize has none. *)
LEMMA NoHeapIs ==
  /\ HeapInv(NoHeap)
  /\ NoHeap.used = {} /\ NoHeap.free = <<>> /\ NoHeap.start = 0 /\ NoHeap.stop = 0
<1>1. /\ NoHeap.used = {} /\ NoHeap.free = <<>> /\ NoHeap.start = 0 /\ NoHeap.stop = 0
  BY DEF NoHeap
<1>2. NoHeap \in [start : Nat, stop : Nat, free : Seq(Block), used : SUBSET UsedBlock,
                  mode : Modes, margins : BOOLEAN]
  BY DEF NoHeap, Modes
<1>3. Typed(NoHeap)
  BY <1>1, <1>2, FS_EmptySet, ExpHeapAssumption DEF Typed
<1>4. FreeList(<<>>, 0, 0)
  BY DEF FreeList, Spread
<1>5. UsedLie(NoHeap) /\ UsedApart(NoHeap) /\ FreeApart(NoHeap)
  BY <1>1 DEF UsedLie, UsedApart, FreeApart
<1> QED BY <1>1, <1>3, <1>4, <1>5 DEF HeapInv

(* initialize makes a heap of one free block. *)
LEMMA CreateIs ==
  ASSUME NEW a \in Arenas, ProperArena(a)
  PROVE  /\ HeapInv(CreateExpHeap(a))
         /\ CreateExpHeap(a).used = {} /\ CreateExpHeap(a).start <= CreateExpHeap(a).stop
<1> DEFINE from == AlignUp(a.addr, 4)
           to == AlignDown(a.addr + a.size, 4)
           start == from + 104
           f == <<FreeBlock(Region(start, to))>>
           h == [NoHeap EXCEPT !.start = start, !.stop = to, !.free = f]
<1>1. a.addr \in Nat /\ a.size \in Nat /\ a.addr + a.size \in Nat /\ a.addr + a.size < SizeMod /\ SizeMod \in Nat
  BY ExpHeapAssumption
<1>2. from \in Nat /\ Word(from) /\ to \in Nat /\ Word(to) /\ to < SizeMod
  BY <1>1, RoundedDown
<1>3. HoldsBlock(Region(start, to))
  BY DEF ProperArena, HeapHeadSize, MinimumAlignment
<1>4. CreateExpHeap(a) = IF from > to \/ ~HoldsBlock(Region(from, to)) THEN NoHeap ELSE h
  BY DEF CreateExpHeap, HeapHeadSize, MinimumAlignment
<1> HIDE DEF from, to
<1>5. start \in Nat /\ Word(start) /\ to - start >= 36
  BY <1>2, <1>3 DEF HoldsBlock, Length, Region, BlockHead, MinimumFreeBlockSize, Word, MinimumAlignment
<1>6. from <= to /\ HoldsBlock(Region(from, to))
  BY <1>2, <1>5 DEF HoldsBlock, Length, Region, BlockHead, MinimumFreeBlockSize
<1>7. CreateExpHeap(a) = h
  BY <1>2, <1>4, <1>6
<1> HIDE DEF start
<1>8. /\ FreeBlock(Region(start, to)) \in Block /\ Sound(FreeBlock(Region(start, to)))
      /\ FreeBlock(Region(start, to)).at = start /\ BlockEnd(FreeBlock(Region(start, to))) = to
  <2>1. to <= SizeMod
    BY <1>1, <1>2
  <2> QED BY <1>2, <1>3, <1>5, <2>1, FreeBlockIs
<1>9. f \in Seq(Block) /\ DOMAIN f = {1} /\ f[1] = FreeBlock(Region(start, to))
  BY <1>8
<1> HIDE DEF f
<1>10. FreeList(f, start, to)
  BY <1>2, <1>5, <1>8, <1>9 DEF FreeList, Spread
<1>11. /\ NoHeap \in [start : Nat, stop : Nat, free : Seq(Block), used : SUBSET UsedBlock,
                    mode : Modes, margins : BOOLEAN]
       /\ NoHeap.used = {}
  BY NoHeapIs DEF HeapInv, Typed
<1>12. /\ h.start = start /\ h.stop = to /\ h.free = f /\ h.used = {}
       /\ h \in [start : Nat, stop : Nat, free : Seq(Block), used : SUBSET UsedBlock,
                 mode : Modes, margins : BOOLEAN]
  BY <1>2, <1>5, <1>9, <1>11
<1> HIDE DEF h
<1>13. Typed(h)
  <2>1. IsFiniteSet({})
    BY FS_EmptySet
  <2>2. start <= to /\ to < SizeMod
    BY <1>2, <1>5
  <2> QED BY <1>2, <1>12, <2>1, <2>2 DEF Typed
<1>14. UsedLie(h) /\ UsedApart(h) /\ FreeApart(h)
  BY <1>12 DEF UsedLie, UsedApart, FreeApart
<1>15. HeapInv(h) /\ h.start <= h.stop
  BY <1>10, <1>12, <1>13, <1>14 DEF HeapInv, Typed
<1> QED BY <1>7, <1>12, <1>15

(* adjust takes the last free block from the arena, if it ends it.          *)
LEMMA AdjustedIs ==
  ASSUME NEW h, HeapInv(h)
  PROVE  /\ HeapInv(Adjusted(h))
         /\ Adjusted(h).start = h.start /\ Adjusted(h).stop <= h.stop
         /\ Adjusted(h).used = h.used
<1> DEFINE list == h.free
           n == Len(list)
           last == list[n]
           f == SubSeq(list, 1, n - 1)
           g == [h EXCEPT !.free = f, !.stop = last.at]
<1>1. /\ h.start \in Nat /\ h.stop \in Nat /\ h.start <= h.stop /\ h.stop < SizeMod
      /\ list \in Seq(Block) /\ FreeList(list, h.start, h.stop)
      /\ h \in [start : Nat, stop : Nat, free : Seq(Block), used : SUBSET UsedBlock,
                mode : Modes, margins : BOOLEAN]
  BY HeapHas DEF HeapInv, Typed
<1>2. CASE list = <<>> \/ BlockEnd(last) # h.stop
  <2>1. Adjusted(h) = h
    BY <1>2 DEF Adjusted
  <2> QED BY <1>1, <2>1
<1>3. CASE list # <<>> /\ BlockEnd(last) = h.stop
  <2>1. n \in Nat /\ n \in DOMAIN list /\ DOMAIN list = 1 .. n
    BY <1>1, <1>3
  <2>2. /\ last \in Block /\ last.at \in Nat /\ last.size \in Nat /\ h.start <= last.at
        /\ h.stop = last.at + 32 + last.size /\ Word(last.at)
    BY <1>1, <1>3, <2>1, FreeBlockHas
  <2>3. h.stop - (last.size + 32) = last.at /\ last.at <= h.stop
    <3>1. \A x, y, z \in Nat : z = x + 32 + y => z - (y + 32) = x /\ x <= z
      OBVIOUS
    <3> HIDE DEF last, f, g, n, list
    <3> QED BY <1>1, <2>2, <3>1
  <2>4. Adjusted(h) = g
    <3>1. Adjusted(h) = [h EXCEPT !.free = f, !.stop = h.stop - (last.size + BlockHead)]
      BY <1>3 DEF Adjusted
    <3> QED BY <2>3, <3>1 DEF BlockHead
  <2>5. f \in Seq(Block) /\ Len(f) = n - 1 /\ \A k \in 1 .. n - 1 : f[k] = list[k]
    <3>1. \A k \in 1 .. n - 1 : list[k] \in Block
      BY <1>1, <2>1
    <3> HIDE DEF list
    <3>2. f \in Seq(Block) /\ Len(f) = IF 1 <= n - 1 THEN n - 1 - 1 + 1 ELSE 0
      BY <2>1, <3>1, SubSeqProperties
    <3>3. \A k \in 1 .. n - 1 - 1 + 1 : f[k] = list[1 + k - 1]
      BY <2>1, <3>1, SubSeqProperties
    <3> QED BY <2>1, <3>2, <3>3
  <2>6. g.free = f /\ g.stop = last.at /\ g.start = h.start /\ g.used = h.used /\ g.mode = h.mode /\ g.margins = h.margins
    BY <1>1
  <2>7. g \in [start : Nat, stop : Nat, free : Seq(Block), used : SUBSET UsedBlock,
               mode : Modes, margins : BOOLEAN]
    BY <1>1, <2>2, <2>5
  <2> HIDE DEF g, f, n
  <2>8. /\ \A i, j \in DOMAIN list : i < j => BlockEnd(list[i]) < list[j].at
        /\ \A i \in DOMAIN list : Sound(list[i]) /\ h.start <= list[i].at
    BY <1>1 DEF FreeList, Spread
  <2>9. \A k \in DOMAIN f : k \in DOMAIN list /\ k < n /\ f[k] = list[k]
    BY <2>1, <2>5
  <2>10. FreeList(f, h.start, last.at)
    <3>1. Spread(f)
      BY <2>8, <2>9 DEF Spread
    <3>2. ASSUME NEW k \in DOMAIN f PROVE Sound(f[k]) /\ h.start <= f[k].at /\ BlockEnd(f[k]) <= last.at
      <4>1. k \in DOMAIN list /\ k < n /\ f[k] = list[k]
        BY <2>9
      <4>2. BlockEnd(list[k]) < last.at
        BY <2>1, <2>8, <4>1
      <4>3. BlockEnd(list[k]) \in Nat
        BY <1>1, <4>1, BlockIs
      <4> HIDE DEF list, last
      <4>4. BlockEnd(list[k]) <= last.at
        BY <2>2, <4>2, <4>3
      <4> QED BY <2>8, <4>1, <4>4
    <3> QED BY <2>5, <3>1, <3>2 DEF FreeList
  <2>11. ASSUME NEW b \in h.used PROVE BlockEnd(b) <= last.at
    <3>1. /\ BlockEnd(b) <= h.stop /\ b.at \in Nat /\ b.size \in Nat /\ b.pad \in 0 .. 127
          /\ First(b) \in Nat /\ First(b) = b.at - b.pad
          /\ BlockEnd(b) \in Nat /\ BlockEnd(b) = b.at + 32 + b.size
          /\ OffAll(First(b), BlockEnd(b), list)
      BY UsedHas
    <3>2. BlockEnd(b) <= last.at \/ BlockEnd(last) <= First(b)
      BY <2>1, <3>1 DEF OffAll, Off
    <3> HIDE DEF last, list
    <3>3. First(b) < BlockEnd(b)
      BY <3>1
    <3>4. BlockEnd(b) <= h.stop /\ First(b) \in Nat /\ BlockEnd(b) \in Nat /\ h.stop \in Nat
      BY <1>1, <3>1
    <3> QED BY <1>3, <3>2, <3>3, <3>4
  <2>12. Typed(g)
    <3>1. IsFiniteSet(h.used)
      BY HeapHas
    <3>2. last.at < SizeMod
      BY <1>1, <2>2, <2>3, ExpHeapAssumption
    <3> QED BY <2>2, <2>6, <2>7, <3>1, <3>2 DEF Typed
  <2>13. UsedLie(g) /\ UsedApart(g)
    BY <2>6, <2>11 DEF HeapInv, UsedLie, UsedApart
  <2>14. FreeApart(g)
    <3> SUFFICES ASSUME NEW b \in h.used, NEW k \in DOMAIN f PROVE Off(First(b), BlockEnd(b), f[k])
      BY <2>6 DEF FreeApart, OffAll
    <3>1. OffAll(First(b), BlockEnd(b), list)
      BY UsedHas
    <3> QED BY <2>9, <3>1 DEF OffAll
  <2>15. HeapInv(g)
    BY <2>6, <2>10, <2>12, <2>13, <2>14 DEF HeapInv
  <2> QED BY <2>3, <2>4, <2>6, <2>15
<1> QED BY <1>2, <1>3

(* What it takes from the arena is that block. *)
LEMMA AdjustedKeeps ==
  ASSUME NEW h, HeapInv(h), NEW a \in Nat
  PROVE  a < Adjusted(h).stop /\ Stray(Adjusted(h), a) <=> a < h.stop /\ Stray(h, a)
<1> DEFINE list == h.free
           n == Len(list)
           last == list[n]
           f == SubSeq(list, 1, n - 1)
           g == Adjusted(h)
<1>1. /\ h.start \in Nat /\ h.stop \in Nat /\ list \in Seq(Block) /\ FreeList(list, h.start, h.stop)
      /\ h \in [start : Nat, stop : Nat, free : Seq(Block), used : SUBSET UsedBlock,
                mode : Modes, margins : BOOLEAN]
  BY HeapHas DEF HeapInv, Typed
<1>2. CASE list = <<>> \/ BlockEnd(last) # h.stop
  BY <1>2 DEF Adjusted
<1>3. CASE list # <<>> /\ BlockEnd(last) = h.stop
  <2>1. n \in Nat /\ n \in 1 .. n /\ DOMAIN list = 1 .. n
    BY <1>1, <1>3
  <2>2. last.at \in Nat /\ last.size \in Nat /\ BlockEnd(last) = last.at + 32 + last.size
    BY <1>1, <2>1, FreeBlockHas
  <2>3. h.stop - (last.size + 32) = last.at
    <3>1. last.at \in Nat /\ last.size \in Nat /\ h.stop = last.at + 32 + last.size
      BY <1>3, <2>2
    <3> HIDE DEF last, f, g, n, list
    <3> QED BY <3>1
  <2>4. g = [h EXCEPT !.free = f, !.stop = last.at]
    <3>1. g = [h EXCEPT !.free = f, !.stop = h.stop - (last.size + BlockHead)]
      BY <1>3 DEF Adjusted
    <3> QED BY <2>3, <3>1 DEF BlockHead
  <2> HIDE DEF g
  <2>5. g.free = f /\ g.stop = last.at /\ g.used = h.used
    BY <1>1, <2>4
  <2>6. DOMAIN f = 1 .. n - 1 /\ \A k \in 1 .. n - 1 : f[k] = list[k]
    <3>1. \A k \in 1 .. n - 1 : list[k] \in Block
      BY <1>1, <2>1
    <3> HIDE DEF list
    <3>2. f \in Seq(Block) /\ Len(f) = IF 1 <= n - 1 THEN n - 1 - 1 + 1 ELSE 0
      BY <2>1, <3>1, SubSeqProperties
    <3>3. \A k \in 1 .. n - 1 - 1 + 1 : f[k] = list[1 + k - 1]
      BY <2>1, <3>1, SubSeqProperties
    <3> QED BY <2>1, <3>2, <3>3
  <2> HIDE DEF f, list, last, n
  <2>7. OffAll(a, a + 1, list) <=> OffAll(a, a + 1, f) /\ Off(a, a + 1, last)
    <3>1. \A k \in 1 .. n : k = n \/ k \in 1 .. n - 1
      BY <2>1
    <3>2. \A k \in 1 .. n - 1 : k \in 1 .. n
      BY <2>1
    <3> QED BY <2>1, <2>6, <3>1, <3>2 DEF OffAll, last
  <2>8. Off(a, a + 1, last) <=> a < last.at \/ h.stop <= a
    BY <1>1, <1>3, <2>2 DEF Off
  <2>9. last.at < h.stop
    BY <1>3, <2>2
  <2> QED BY <1>1, <2>2, <2>5, <2>7, <2>8, <2>9 DEF Stray, g, list
<1> QED BY <1>2, <1>3

(* A word is what reallocate asks for when it has to move a block.          *)
LEMMA WordAligned == ValidAlignment(MinimumAlignment) /\ MinimumAlignment \in Int
<1>1. \A d \in 2 .. 4 : 4 % d = 0 => d % 2 = 0
  <2> SUFFICES ASSUME NEW d \in 2 .. 4, 4 % d = 0 PROVE d % 2 = 0
    OBVIOUS
  <2>1. d = 2 \/ d = 3 \/ d = 4
    OBVIOUS
  <2>2. 4 % 3 = 1 /\ 2 % 2 = 0 /\ 4 % 2 = 0
    OBVIOUS
  <2> QED BY <2>1, <2>2
<1>2. Widened(4) = 4
  BY DEF Widened, Magnitude, MinimumAlignment
<1> QED BY <1>1, <1>2 DEF ValidAlignment, IsPowerOfTwo, MinimumAlignment

(* A used block is known by its address. *)
LEMMA UsedOnce ==
  ASSUME NEW h, HeapInv(h), NEW b \in h.used, NEW c \in h.used, b.at = c.at
  PROVE  b = c
<1> SUFFICES ASSUME b # c PROVE FALSE
  OBVIOUS
<1>1. BlockEnd(b) <= First(c) \/ BlockEnd(c) <= First(b)
  BY UsedApartIs
<1>2. /\ b.at \in Nat /\ b.size \in Nat /\ b.pad \in 0 .. 127
      /\ First(b) = b.at - b.pad /\ BlockEnd(b) = b.at + 32 + b.size
  BY UsedHas
<1>3. /\ c.at \in Nat /\ c.size \in Nat /\ c.pad \in 0 .. 127
      /\ First(c) = c.at - c.pad /\ BlockEnd(c) = c.at + 32 + c.size
  BY UsedHas
<1> QED BY <1>1, <1>2, <1>3

(* The blocks a client sees. *)
Seen(h) == {[ptr |-> Pointer(b), size |-> b.size] : b \in h.used}

LEMMA SeenIs ==
  ASSUME NEW h, HeapInv(h), NEW b \in h.used
  PROVE  /\ h.start <= Pointer(b) /\ Pointer(b) + b.size <= h.stop
         /\ Pointer(b) \in Nat /\ b.size \in Nat /\ b.size > 0
         /\ \A c \in h.used : b # c => /\ Pointer(b) # Pointer(c)
                                       /\ (Pointer(b) + b.size <= Pointer(c) \/ Pointer(c) + c.size <= Pointer(b))
<1>1. /\ h.start \in Nat /\ h.stop \in Nat
  BY HeapHas
<1>2. /\ h.start <= First(b) /\ BlockEnd(b) <= h.stop
      /\ b.at \in Nat /\ b.size \in Nat /\ b.size >= 4 /\ b.pad \in 0 .. 127
      /\ First(b) \in Nat /\ First(b) = b.at - b.pad /\ BlockEnd(b) = b.at + 32 + b.size
      /\ Pointer(b) = b.at + 32
  BY UsedHas
<1>3. ASSUME NEW c \in h.used, b # c
      PROVE  /\ Pointer(b) # Pointer(c)
             /\ (Pointer(b) + b.size <= Pointer(c) \/ Pointer(c) + c.size <= Pointer(b))
  <2>1. BlockEnd(b) <= First(c) \/ BlockEnd(c) <= First(b)
    BY <1>3, UsedApartIs
  <2>2. /\ c.at \in Nat /\ c.size \in Nat /\ c.pad \in 0 .. 127
        /\ First(c) = c.at - c.pad /\ BlockEnd(c) = c.at + 32 + c.size
        /\ Pointer(c) = c.at + 32
    BY UsedHas
  <2> QED BY <1>2, <2>1, <2>2
<1>4. h.start <= Pointer(b) /\ Pointer(b) + b.size <= h.stop /\ Pointer(b) \in Nat
  BY <1>1, <1>2
<1> QED BY <1>2, <1>3, <1>4

-----------------------------------------------------------------------------
(* The steps.  What each makes of the heap is kept with IInv: it is what    *)
(* the refinement needs.                                                   *)
Unmoved == heap'.start = heap.start /\ heap'.stop = heap.stop
Obtained(n, al) ==
  /\ Unmoved
  /\ \E b \in UsedBlock : /\ b \notin heap.used /\ heap'.used = heap.used \union {b}
                          /\ b.size >= n /\ Pointer(b) % Magnitude(al) = 0
Replaced(b, n) ==
  /\ Unmoved
  /\ \E c \in heap'.used : /\ c \notin heap.used \ {b} /\ heap'.used = (heap.used \ {b}) \union {c}
                            /\ c.size >= n
(* No byte is lost, or a few of them to a new block. *)
Losses ==
  \/ Keeps(heap, heap')
  \/ Drops(heap, heap') /\ ~(Pointers(heap') \subseteq Pointers(heap))
Trimmed == heap'.start = heap.start /\ heap'.stop <= heap.stop /\ heap'.used = heap.used

LEMMA Arguments == Sizes \subseteq Nat /\ Alignments \subseteq Int
BY ExpHeapAssumption

LEMMA NoLoss == heap' = heap => Losses
<1> SUFFICES ASSUME heap' = heap PROVE Keeps(heap, heap')
  BY DEF Losses
<1>1. Keeps(heap, heap)
  BY DEF Keeps
<1> QED BY <1>1

(* The address of a new block is nobody else's. *)
LEMMA NewPointer ==
  ASSUME NEW h, NEW g, HeapInv(g), h.used \subseteq g.used, NEW b \in g.used, b \notin h.used
  PROVE  Pointer(b) \notin Pointers(h)
<1> SUFFICES ASSUME NEW d \in h.used, Pointer(d) = Pointer(b) PROVE FALSE
  BY DEF Pointers
<1>1. d \in g.used
  OBVIOUS
<1>2. d.at \in Nat /\ Pointer(d) = d.at + 32
  BY <1>1, UsedHas
<1>3. b.at \in Nat /\ Pointer(b) = b.at + 32
  BY UsedHas
<1>4. d.at = b.at
  <2>1. d.at + 32 = b.at + 32
    BY <1>2, <1>3
  <2>2. \A x, y \in Nat : x + 32 = y + 32 => x = y
    OBVIOUS
  <2> QED BY <1>2, <1>3, <2>1, <2>2
<1>5. d = b
  BY <1>1, <1>4, UsedOnce
<1> QED BY <1>5

LEMMA InitIInv == Init => IInv
BY NoHeapIs DEF Init, IInv

LEMMA InitializeStep ==
  ASSUME IInv, NEW a \in Arenas, ProperArena(a), Initialize(a)
  PROVE  IInv' /\ heap'.used = {} /\ heap'.start <= heap'.stop
BY CreateIs DEF IInv, Initialize

LEMMA DestroyStep ==
  ASSUME IInv, Destroy
  PROVE  IInv' /\ heap'.used = {} /\ heap'.start <= heap'.stop
BY NoHeapIs DEF IInv, Destroy

LEMMA AdjustStep ==
  ASSUME IInv, heap # NoHeap, Adjust
  PROVE  IInv' /\ Trimmed
<1>1. heap' = Adjusted(heap) /\ aborted' = aborted
  BY DEF Adjust, NoHandle
<1> QED BY <1>1, AdjustedIs DEF IInv, Trimmed

LEMMA AllocateStep ==
  ASSUME IInv, heap # NoHeap, NEW n \in Sizes, NEW al \in Alignments,
         ValidAlignment(al), ProperRequest(n, al), Allocate(n, al)
  PROVE  IInv' /\ (heap' = heap \/ Obtained(n, al)) /\ Losses
<1>1. heap' = AllocateFromExpHeap(heap, n, al).heap /\ aborted' = aborted
  BY DEF Allocate, NoHandle
<1>2. HeapInv(heap) /\ n \in Nat /\ al \in Int
  BY Arguments DEF IInv
<1>3. \/ heap' = heap
      \/ /\ HeapInv(heap') /\ heap'.start = heap.start /\ heap'.stop = heap.stop /\ Drops(heap, heap')
         /\ \E b \in UsedBlock : /\ b \notin heap.used /\ heap'.used = heap.used \union {b}
                                 /\ b.size >= n /\ b.size > 0 /\ Pointer(b) % Magnitude(al) = 0
  BY <1>1, <1>2, AllocateFromExpHeapIs
<1>4. Losses
  <2>1. CASE heap' = heap
    BY <2>1, NoLoss
  <2>2. CASE /\ HeapInv(heap') /\ Drops(heap, heap')
             /\ \E b \in UsedBlock : b \notin heap.used /\ heap'.used = heap.used \union {b}
    <3>1. PICK b \in UsedBlock : b \notin heap.used /\ heap'.used = heap.used \union {b}
      BY <2>2
    <3>2. b \in heap'.used /\ heap.used \subseteq heap'.used
      BY <3>1
    <3>3. Pointer(b) \notin Pointers(heap)
      BY <2>2, <3>1, <3>2, NewPointer
    <3>4. Pointer(b) \in Pointers(heap')
      BY <3>2 DEF Pointers
    <3> QED BY <2>2, <3>3, <3>4 DEF Losses
  <2> QED BY <1>3, <2>1, <2>2
<1> QED BY <1>1, <1>3, <1>4 DEF IInv, Obtained, Unmoved

LEMMA FreeStep ==
  ASSUME IInv, heap # NoHeap, NEW b \in heap.used, Free(b)
  PROVE  IInv' /\ Unmoved /\ heap'.used = heap.used \ {b} /\ Losses
<1>1. FreeIn(heap, b)
  BY DEF Free, NoHandle
<1>2. /\ IsValidUsedMemoryBlock(heap, b) /\ FreeToExpHeap(heap, b).ok
      /\ HeapInv(FreeToExpHeap(heap, b).heap)
      /\ FreeToExpHeap(heap, b).heap.start = heap.start /\ FreeToExpHeap(heap, b).heap.stop = heap.stop
      /\ FreeToExpHeap(heap, b).heap.used = heap.used \ {b}
      /\ Keeps(heap, FreeToExpHeap(heap, b).heap)
  BY FreeIs DEF IInv
<1>3. heap' = FreeToExpHeap(heap, b).heap /\ aborted' = aborted
  BY <1>1, <1>2 DEF FreeIn
<1> QED BY <1>2, <1>3 DEF IInv, Unmoved, Losses

LEMMA ReallocateStep ==
  ASSUME IInv, heap # NoHeap, NEW b \in heap.used, NEW n \in Sizes \ {0},
         ProperRequest(n, MinimumAlignment), Reallocate(b, n)
  PROVE  IInv' /\ (heap' = heap \/ Replaced(b, n)) /\ Losses
<1> DEFINE resized == ResizeExpHeapMemoryBlock(heap, b, n)
           moved == AllocateFromExpHeap(resized.heap, n, MinimumAlignment)
           old == CHOOSE c \in moved.heap.used : c.at = b.at
<1>1. IF ~IsValidUsedMemoryBlock(heap, b) THEN Abort("not a used block")
      ELSE IF resized.size > 0 THEN heap' = resized.heap /\ UNCHANGED aborted
      ELSE IF moved.ptr = 0 THEN heap' = moved.heap /\ UNCHANGED aborted
      ELSE FreeIn(moved.heap, old)
  BY DEF Reallocate
<1>2. HeapInv(heap) /\ n \in Nat /\ 0 < n /\ n <= SizeMod - 4
  <2>1. n \in Nat /\ 0 < n
    BY Arguments
  <2>2. MinimumAlignment \in Int /\ ValidAlignment(MinimumAlignment)
    BY WordAligned
  <2> QED BY <2>1, <2>2, ProperIs DEF IInv
<1>3. IsValidUsedMemoryBlock(heap, b)
  BY <1>2, FreeIs
<1>4. \/ resized.heap = heap /\ resized.size = 0
      \/ /\ HeapInv(resized.heap) /\ resized.heap.start = heap.start /\ resized.heap.stop = heap.stop
         /\ resized.size > 0 /\ Keeps(heap, resized.heap)
         /\ \E m \in Nat : m >= n /\ resized.heap.used = (heap.used \ {b}) \union {Sized(b, m)}
  BY <1>2, ResizeIs
<1> HIDE DEF resized
<1>5. CASE /\ HeapInv(resized.heap) /\ resized.heap.start = heap.start /\ resized.heap.stop = heap.stop
           /\ resized.size > 0 /\ Keeps(heap, resized.heap)
           /\ \E m \in Nat : m >= n /\ resized.heap.used = (heap.used \ {b}) \union {Sized(b, m)}
  <2>1. heap' = resized.heap /\ aborted' = aborted
    BY <1>1, <1>3, <1>5
  <2>2. PICK m \in Nat : m >= n /\ heap'.used = (heap.used \ {b}) \union {Sized(b, m)}
    BY <1>5, <2>1
  <2>3. Sized(b, m).size = m /\ Sized(b, m).at = b.at
    BY <1>2, UsedHas, SizedIs
  <2>4. Sized(b, m) \notin heap.used \ {b}
    BY <1>2, <2>3, UsedOnce
  <2>5. Unmoved /\ Sized(b, m) \in heap'.used
    BY <1>5, <2>1, <2>2 DEF Unmoved
  <2>6. Replaced(b, n)
    BY <2>2, <2>3, <2>4, <2>5 DEF Replaced
  <2>7. Losses
    BY <1>5, <2>1 DEF Losses
  <2> QED BY <1>5, <2>1, <2>6, <2>7 DEF IInv
<1>6. CASE resized.heap = heap /\ resized.size = 0
  <2>1. \/ moved.ptr = 0 /\ moved.heap = heap
        \/ /\ moved.ptr # 0
           /\ HeapInv(moved.heap) /\ moved.heap.start = heap.start /\ moved.heap.stop = heap.stop
           /\ Drops(heap, moved.heap)
           /\ \E c \in UsedBlock : /\ c \notin heap.used /\ moved.heap.used = heap.used \union {c}
                                   /\ c.size >= n /\ c.size > 0 /\ Pointer(c) % Magnitude(MinimumAlignment) = 0
    BY <1>2, <1>6, WordAligned, AllocateFromExpHeapIs
  <2> HIDE DEF moved
  <2>2. CASE moved.ptr = 0 /\ moved.heap = heap
    BY <1>1, <1>2, <1>3, <1>6, <2>2, NoLoss DEF IInv
  <2>3. CASE /\ moved.ptr # 0
             /\ HeapInv(moved.heap) /\ moved.heap.start = heap.start /\ moved.heap.stop = heap.stop
             /\ Drops(heap, moved.heap)
             /\ \E c \in UsedBlock : /\ c \notin heap.used /\ moved.heap.used = heap.used \union {c}
                                     /\ c.size >= n /\ c.size > 0 /\ Pointer(c) % Magnitude(MinimumAlignment) = 0
    <3>1. PICK c \in UsedBlock : /\ c \notin heap.used /\ moved.heap.used = heap.used \union {c}
                                 /\ c.size >= n
      BY <2>3
    <3>2. b \in moved.heap.used /\ b # c
      BY <3>1
    <3>3. old = b
      <4>1. \A d \in moved.heap.used : d.at = b.at => d = b
        BY <2>3, <3>2, UsedOnce
      <4> QED BY <3>2, <4>1
    <3>4. FreeIn(moved.heap, b)
      <4>1. ~(resized.size > 0) /\ moved.ptr # 0
        BY <1>6, <2>3
      <4>2. FreeIn(moved.heap, old)
        BY <1>1, <1>3, <4>1, Zenon
      <4> QED BY <3>3, <4>2, Zenon
    <3> DEFINE freed == FreeToExpHeap(moved.heap, b)
    <3>5. /\ IsValidUsedMemoryBlock(moved.heap, b) /\ freed.ok /\ HeapInv(freed.heap)
          /\ freed.heap.start = moved.heap.start /\ freed.heap.stop = moved.heap.stop
          /\ freed.heap.used = moved.heap.used \ {b} /\ Keeps(moved.heap, freed.heap)
      BY <2>3, <3>2, FreeIs
    <3>6. heap' = freed.heap /\ aborted' = aborted
      BY <3>4, <3>5 DEF FreeIn
    <3> HIDE DEF freed
    <3>7. heap'.used = (heap.used \ {b}) \union {c}
      BY <3>1, <3>2, <3>5, <3>6
    <3>8. Losses
      <4>1. c \in heap'.used /\ c \in moved.heap.used /\ heap.used \subseteq moved.heap.used
        BY <3>1, <3>7
      <4>2. Pointer(c) \notin Pointers(heap)
        BY <2>3, <3>1, <4>1, NewPointer
      <4>3. Pointer(c) \in Pointers(heap')
        BY <4>1 DEF Pointers
      <4>4. Drops(heap, heap')
        BY <2>3, <3>5, <3>6 DEF Drops, Keeps
      <4> QED BY <4>2, <4>3, <4>4 DEF Losses
    <3> QED BY <2>3, <3>1, <3>5, <3>6, <3>7, <3>8 DEF IInv, Replaced, Unmoved
  <2> QED BY <2>1, <2>2, <2>3
<1> QED BY <1>4, <1>5, <1>6

LEMMA ModeStep ==
  ASSUME IInv, heap # NoHeap,
         (\E m \in Modes : SetAllocationMode(m)) \/ (\E use \in BOOLEAN : SetUseMarginsOfAlignment(use))
  PROVE  IInv' /\ Unmoved /\ heap'.used = heap.used /\ Losses
<1>1. /\ heap \in [start : Nat, stop : Nat, free : Seq(Block), used : SUBSET UsedBlock,
                   mode : Modes, margins : BOOLEAN]
      /\ heap.start <= heap.stop /\ heap.stop < SizeMod /\ IsFiniteSet(heap.used)
  BY DEF IInv, HeapInv, Typed
<1>2. /\ \/ \E m \in Modes : heap' = [heap EXCEPT !.mode = m]
         \/ \E use \in BOOLEAN : heap' = [heap EXCEPT !.margins = use]
      /\ aborted' = aborted
  BY DEF SetAllocationMode, SetUseMarginsOfAlignment, NoHandle
<1>3. /\ heap' \in [start : Nat, stop : Nat, free : Seq(Block), used : SUBSET UsedBlock,
                    mode : Modes, margins : BOOLEAN]
      /\ heap'.start = heap.start /\ heap'.stop = heap.stop /\ heap'.free = heap.free /\ heap'.used = heap.used
  BY <1>1, <1>2
<1>4. Typed(heap')
  BY <1>1, <1>3 DEF Typed
<1>5. FreeList(heap'.free, heap'.start, heap'.stop) /\ UsedLie(heap') /\ UsedApart(heap') /\ FreeApart(heap')
  BY <1>3 DEF IInv, HeapInv, UsedLie, UsedApart, FreeApart
<1>6. Losses
  BY <1>3 DEF Losses, Keeps, Stray
<1> QED BY <1>2, <1>3, <1>4, <1>5, <1>6 DEF IInv, HeapInv, Unmoved

(* What a step of a disciplined client does. *)
LEMMA StepIs ==
  ASSUME IInv, DisciplinedNext
  PROVE  /\ IInv'
         /\ \/ heap'.used = {} /\ heap'.start <= heap'.stop
            \/ Trimmed
            \/ Unmoved /\ heap'.used = heap.used
            \/ \E n \in Sizes, al \in Alignments : Obtained(n, al)
            \/ \E b \in heap.used : Unmoved /\ heap'.used = heap.used \ {b}
            \/ \E b \in heap.used, n \in Sizes : Replaced(b, n)
<1>1. CASE \E a \in Arenas : ProperArena(a) /\ Initialize(a)
  BY <1>1, InitializeStep
<1>2. CASE heap # NoHeap /\ Destroy
  BY <1>2, DestroyStep
<1>3. CASE heap # NoHeap /\ Adjust
  BY <1>3, AdjustStep
<1>4. CASE /\ heap # NoHeap
           /\ \E n \in Sizes, al \in Alignments :
                ValidAlignment(al) /\ ProperRequest(n, al) /\ Allocate(n, al)
  <2>1. PICK n \in Sizes, al \in Alignments :
             ValidAlignment(al) /\ ProperRequest(n, al) /\ Allocate(n, al)
    BY <1>4
  <2>2. IInv' /\ (heap' = heap \/ Obtained(n, al))
    BY <1>4, <2>1, AllocateStep
  <2> QED BY <2>2 DEF Unmoved
<1>5. CASE heap # NoHeap /\ \E b \in heap.used : Free(b)
  BY <1>5, FreeStep
<1>6. CASE /\ heap # NoHeap
           /\ \E b \in heap.used, n \in Sizes \ {0} : ProperRequest(n, MinimumAlignment) /\ Reallocate(b, n)
  <2>1. PICK b \in heap.used, n \in Sizes \ {0} : ProperRequest(n, MinimumAlignment) /\ Reallocate(b, n)
    BY <1>6
  <2>2. IInv' /\ (heap' = heap \/ Replaced(b, n))
    BY <1>6, <2>1, ReallocateStep
  <2>3. n \in Sizes
    OBVIOUS
  <2> QED BY <2>2, <2>3 DEF Unmoved
<1>7. CASE /\ heap # NoHeap
           /\ \/ \E m \in Modes : SetAllocationMode(m)
              \/ \E use \in BOOLEAN : SetUseMarginsOfAlignment(use)
  BY <1>7, ModeStep
<1> QED BY <1>1, <1>2, <1>3, <1>4, <1>5, <1>6, <1>7 DEF DisciplinedNext

LEMMA NextIInv ==
  ASSUME IInv, [DisciplinedNext]_vars
  PROVE  IInv'
<1>1. CASE DisciplinedNext
  BY <1>1, StepIs
<1>2. CASE UNCHANGED vars
  BY <1>2 DEF IInv, vars
<1> QED BY <1>1, <1>2

LEMMA Invariant == DisciplinedSpec => []IInv
<1>1. Init => IInv
  BY InitIInv
<1>2. IInv /\ [DisciplinedNext]_vars => IInv'
  BY NextIInv
<1> QED BY <1>1, <1>2, PTL DEF DisciplinedSpec

(* Blocks, used and free, are where the header's fields can say and lie in  *)
(* the arena (lmem_impl_exp_heap.cpp, the block headers).                   *)
THEOREM BlocksAreSound == DisciplinedSpec => []TypeOK
<1>1. ASSUME IInv PROVE TypeOK
  <2>1. /\ heap.start \in Nat /\ heap.stop \in Nat /\ heap.start <= heap.stop
        /\ FreeList(heap.free, heap.start, heap.stop)
        /\ heap.mode \in Modes /\ heap.margins \in BOOLEAN
    BY <1>1, HeapHas DEF IInv
  <2>2. ASSUME NEW b \in heap.used
        PROVE  /\ Word(b.at) /\ Word(b.size) /\ b.size >= MinimumFreeBlockSize
               /\ heap.start <= b.at /\ BlockEnd(b) <= heap.stop
               /\ b.pad \in 0 .. MaximumPaddingalignment - 1 /\ b.dir \in {"Front", "Back"}
    <3>1. /\ b \in UsedBlock /\ Sound(b) /\ heap.start <= First(b) /\ BlockEnd(b) <= heap.stop
          /\ b.at \in Nat /\ b.pad \in 0 .. 127 /\ First(b) = b.at - b.pad
      BY <1>1, UsedHas DEF IInv
    <3>2. heap.start <= b.at
      BY <2>1, <3>1
    <3> QED BY <3>1, <3>2 DEF UsedBlock, Sound
  <2>3. ASSUME NEW b \in ToRange(heap.free)
        PROVE  /\ Word(b.at) /\ Word(b.size) /\ b.size >= MinimumFreeBlockSize
               /\ heap.start <= b.at /\ BlockEnd(b) <= heap.stop
    BY <2>1 DEF FreeList, ToRange, Sound
  <2>4. aborted = "no"
    BY <1>1 DEF IInv
  <2> QED BY <2>1, <2>2, <2>3, <2>4 DEF TypeOK
<1> QED BY <1>1, Invariant, PTL

(* No assertion fails: in particular a freed region always becomes part of  *)
(* a free block (HK_ASSERT(coalesced)).                                     *)
THEOREM NothingIsAsserted == DisciplinedSpec => []NoAssertionFails
<1>1. IInv => NoAssertionFails
  BY DEF IInv, NoAssertionFails
<1> QED BY <1>1, Invariant, PTL

(* Free neighbours are merged, whatever was freed, shrunk, grown into or    *)
(* split off (CoalesceFreedRegion).                                        *)
THEOREM NeighboursAreMerged == DisciplinedSpec => []NoFreeNeighbours
<1>1. ASSUME IInv PROVE NoFreeNeighbours
  <2>1. heap.free \in Seq(Block) /\ Spread(heap.free)
    BY <1>1, HeapHas DEF IInv, FreeList
  <2>2. ASSUME NEW i \in 1 .. Len(heap.free) - 1
        PROVE  BlockEnd(heap.free[i]) # heap.free[i + 1].at
    <3>1. i \in DOMAIN heap.free /\ i + 1 \in DOMAIN heap.free /\ i < i + 1
      BY <2>1
    <3>2. BlockEnd(heap.free[i]) < heap.free[i + 1].at
      BY <2>1, <3>1 DEF Spread
    <3>3. BlockEnd(heap.free[i]) \in Nat /\ heap.free[i + 1].at \in Nat
      BY <2>1, <3>1, BlockIs
    <3> QED BY <3>2, <3>3
  <2> QED BY <2>2 DEF NoFreeNeighbours
<1> QED BY <1>1, Invariant, PTL

-----------------------------------------------------------------------------
(* No two blocks share a byte. *)
LEMMA DistinctImages ==
  ASSUME NEW S, IsFiniteSet(S), NEW T, NEW f \in [S -> T],
         \A x, y \in S : x # y => f[x] # f[y], \A t \in T : \E x \in S : f[x] = t
  PROVE  IsFiniteSet(T) /\ Cardinality(T) = Cardinality(S)
<1>1. f \in Injection(S, T)
  BY DEF Injection, IsInjective
<1>2. f \in Surjection(S, T)
  BY DEF Surjection
<1> QED BY <1>1, <1>2, FS_Surjection

LEMMA RegionsApart ==
  ASSUME NEW h, HeapInv(h)
  PROVE  /\ \A i \in DOMAIN h.free : h.free[i].at \in Nat /\ BlockEnd(h.free[i]) \in Nat
                                     /\ h.free[i].at < BlockEnd(h.free[i])
         /\ \A b \in h.used : First(b) \in Nat /\ BlockEnd(b) \in Nat /\ First(b) < BlockEnd(b)
         /\ \A i, j \in DOMAIN h.free : i # j => \/ BlockEnd(h.free[i]) <= h.free[j].at
                                                 \/ BlockEnd(h.free[j]) <= h.free[i].at
         /\ \A b, c \in h.used : b # c => BlockEnd(b) <= First(c) \/ BlockEnd(c) <= First(b)
         /\ \A i \in DOMAIN h.free, b \in h.used : \/ BlockEnd(h.free[i]) <= First(b)
                                                   \/ BlockEnd(b) <= h.free[i].at
<1>1. h.free \in Seq(Block) /\ Spread(h.free)
  BY HeapHas DEF FreeList
<1>2. \A i \in DOMAIN h.free : h.free[i].at \in Nat /\ BlockEnd(h.free[i]) \in Nat
                               /\ h.free[i].at < BlockEnd(h.free[i])
  <2>1. ASSUME NEW c \in Block PROVE c.at \in Nat /\ BlockEnd(c) \in Nat /\ c.at < BlockEnd(c)
    <3>1. c.at \in Nat /\ c.size \in Nat /\ BlockEnd(c) \in Nat /\ BlockEnd(c) = c.at + 32 + c.size
      BY BlockIs
    <3> QED BY <3>1
  <2>2. \A i \in DOMAIN h.free : h.free[i] \in Block
    BY <1>1
  <2> QED BY <2>1, <2>2
<1>3. ASSUME NEW b \in h.used
      PROVE  First(b) \in Nat /\ BlockEnd(b) \in Nat /\ First(b) < BlockEnd(b)
  <2>1. /\ b.at \in Nat /\ b.size \in Nat /\ b.pad \in 0 .. 127
        /\ First(b) \in Nat /\ First(b) = b.at - b.pad
        /\ BlockEnd(b) \in Nat /\ BlockEnd(b) = b.at + 32 + b.size
    BY UsedHas
  <2> QED BY <2>1
<1>4. ASSUME NEW i \in DOMAIN h.free, NEW j \in DOMAIN h.free, i # j
      PROVE  BlockEnd(h.free[i]) <= h.free[j].at \/ BlockEnd(h.free[j]) <= h.free[i].at
  <2>1. i < j \/ j < i
    BY <1>1, <1>4
  <2>2. BlockEnd(h.free[i]) < h.free[j].at \/ BlockEnd(h.free[j]) < h.free[i].at
    BY <1>1, <2>1 DEF Spread
  <2> QED BY <1>2, <2>2
<1>5. \A b, c \in h.used : b # c => BlockEnd(b) <= First(c) \/ BlockEnd(c) <= First(b)
  BY UsedApartIs
<1>6. ASSUME NEW i \in DOMAIN h.free, NEW b \in h.used
      PROVE  BlockEnd(h.free[i]) <= First(b) \/ BlockEnd(b) <= h.free[i].at
  <2>1. OffAll(First(b), BlockEnd(b), h.free)
    BY UsedHas
  <2> QED BY <2>1 DEF OffAll, Off
<1> QED BY <1>2, <1>3, <1>4, <1>5, <1>6

LEMMA RegionHas ==
  ASSUME NEW a, NEW z
  PROVE  Region(a, z).start = a /\ Region(a, z).stop = z
BY DEF Region

LEMMA LayoutIs == ASSUME IInv PROVE Layout
<1> DEFINE n == Len(heap.free)
           freeAt(i) == Region(heap.free[i].at, BlockEnd(heap.free[i]))
           usedAt(b) == Region(First(b), BlockEnd(b))
           F == {freeAt(i) : i \in 1 .. n}
           U == {usedAt(b) : b \in heap.used}
<1>1. /\ heap.free \in Seq(Block) /\ n \in Nat /\ DOMAIN heap.free = 1 .. n /\ IsFiniteSet(heap.used)
      /\ Spread(heap.free)
  BY HeapHas DEF IInv, FreeList
<1> HIDE DEF n
<1>2. /\ \A i \in 1 .. n : heap.free[i].at \in Nat /\ BlockEnd(heap.free[i]) \in Nat
                           /\ heap.free[i].at < BlockEnd(heap.free[i])
      /\ \A b \in heap.used : First(b) \in Nat /\ BlockEnd(b) \in Nat /\ First(b) < BlockEnd(b)
      /\ \A i, j \in 1 .. n : i # j => \/ BlockEnd(heap.free[i]) <= heap.free[j].at
                                       \/ BlockEnd(heap.free[j]) <= heap.free[i].at
      /\ \A b, c \in heap.used : b # c => BlockEnd(b) <= First(c) \/ BlockEnd(c) <= First(b)
      /\ \A i \in 1 .. n, b \in heap.used : \/ BlockEnd(heap.free[i]) <= First(b)
                                            \/ BlockEnd(b) <= heap.free[i].at
  BY <1>1, RegionsApart DEF IInv
<1>3. FreeRegions = F /\ UsedRegions = U
  BY <1>1 DEF FreeRegions, UsedRegions, UsedRegion, ToRange, First
<1>4. /\ \A i \in 1 .. n : freeAt(i).start = heap.free[i].at /\ freeAt(i).stop = BlockEnd(heap.free[i])
      /\ \A b \in heap.used : usedAt(b).start = First(b) /\ usedAt(b).stop = BlockEnd(b)
  BY RegionHas
<1> HIDE DEF freeAt, usedAt
<1>5. \A r, s \in F \union U : r # s => r.stop <= s.start \/ s.stop <= r.start
  <2> SUFFICES ASSUME NEW r \in F \union U, NEW s \in F \union U, r # s
               PROVE  r.stop <= s.start \/ s.stop <= r.start
    OBVIOUS
  <2>1. CASE r \in F /\ s \in F
    <3>1. PICK i \in 1 .. n, j \in 1 .. n : r = freeAt(i) /\ s = freeAt(j)
      BY <2>1
    <3> QED BY <1>2, <1>4, <3>1
  <2>2. CASE r \in F /\ s \in U
    <3>1. PICK i \in 1 .. n, b \in heap.used : r = freeAt(i) /\ s = usedAt(b)
      BY <2>2
    <3> QED BY <1>2, <1>4, <3>1
  <2>3. CASE r \in U /\ s \in F
    <3>1. PICK i \in 1 .. n, b \in heap.used : s = freeAt(i) /\ r = usedAt(b)
      BY <2>3
    <3> QED BY <1>2, <1>4, <3>1
  <2>4. CASE r \in U /\ s \in U
    <3>1. PICK b \in heap.used, c \in heap.used : r = usedAt(b) /\ s = usedAt(c)
      BY <2>4
    <3> QED BY <1>2, <1>4, <3>1
  <2> QED BY <2>1, <2>2, <2>3, <2>4
<1>6. IsFiniteSet(F) /\ Cardinality(F) = n
  <2> DEFINE f == [i \in 1 .. n |-> freeAt(i)]
  <2>1. f \in [1 .. n -> F] /\ \A t \in F : \E i \in 1 .. n : f[i] = t
    OBVIOUS
  <2>2. ASSUME NEW i \in 1 .. n, NEW j \in 1 .. n, i # j PROVE f[i] # f[j]
    BY <1>2, <1>4, <2>2
  <2>3. IsFiniteSet(1 .. n) /\ Cardinality(1 .. n) = n
    <3>1. IsFiniteSet(1 .. n) /\ Cardinality(1 .. n) = IF 1 > n THEN 0 ELSE n - 1 + 1
      BY <1>1, FS_Interval
    <3> QED BY <1>1, <3>1
  <2> HIDE DEF f, F
  <2> QED BY <2>1, <2>2, <2>3, DistinctImages
<1>7. IsFiniteSet(U) /\ Cardinality(U) = Cardinality(heap.used)
  <2> DEFINE f == [b \in heap.used |-> usedAt(b)]
  <2>1. f \in [heap.used -> U] /\ \A t \in U : \E b \in heap.used : f[b] = t
    OBVIOUS
  <2>2. ASSUME NEW b \in heap.used, NEW c \in heap.used, b # c PROVE f[b] # f[c]
    BY <1>2, <1>4, <2>2
  <2> HIDE DEF f, U
  <2> QED BY <1>1, <2>1, <2>2, DistinctImages
<1>8. F \cap U = {}
  <2> SUFFICES ASSUME NEW i \in 1 .. n, NEW b \in heap.used, freeAt(i) = usedAt(b) PROVE FALSE
    OBVIOUS
  <2> QED BY <1>2, <1>4
<1> HIDE DEF F, U
<1>9. Cardinality(F \union U) = n + Cardinality(heap.used)
  <2>1. Cardinality(F \union U) = Cardinality(F) + Cardinality(U) - Cardinality(F \cap U)
    BY <1>6, <1>7, FS_Union
  <2>2. Cardinality(F \cap U) = 0
    BY <1>8, FS_EmptySet
  <2>3. Cardinality(heap.used) \in Nat
    BY <1>1, FS_CardinalityType
  <2> QED BY <1>1, <1>6, <1>7, <2>1, <2>2, <2>3
<1>10. ASSUME NEW i \in 1 .. n - 1 PROVE heap.free[i].at < heap.free[i + 1].at
  <2>1. i \in 1 .. n /\ i + 1 \in 1 .. n /\ i < i + 1
    BY <1>1
  <2>2. BlockEnd(heap.free[i]) < heap.free[i + 1].at
    BY <1>1, <2>1 DEF Spread
  <2> QED BY <1>2, <2>1, <2>2
<1>11. Cardinality(FreeRegions \union UsedRegions) = Len(heap.free) + Cardinality(heap.used)
  BY <1>3, <1>9 DEF n
<1> QED BY <1>3, <1>5, <1>10, <1>11 DEF Layout, n

(* No two blocks, with their headers and paddings, share a byte, and the    *)
(* free list is sorted by address.                                         *)
THEOREM BlocksAreApart == DisciplinedSpec => []Layout
<1>1. IInv => Layout
  BY LayoutIs
<1> QED BY <1>1, Invariant, PTL

-----------------------------------------------------------------------------
(* What GetExpHeapAllocatableSize answers: the most any free block can give. *)
LEMMA AllocatableSizeIs ==
  ASSUME NEW h, HeapInv(h), NEW al \in Nat \ {0}, al % 4 = 0
  PROVE  /\ \A i \in DOMAIN h.free : AllocatableIn(h.free[i], al) <= AllocatableSize(h, al)
         /\ \/ AllocatableSize(h, al) = 0
            \/ \E i \in DOMAIN h.free : AllocatableIn(h.free[i], al) = AllocatableSize(h, al)
         /\ \A i \in DOMAIN h.free : AllocatableIn(h.free[i], al) \in Nat
<1> DEFINE found == {0} \union {AllocatableIn(h.free[i], al) : i \in DOMAIN h.free}
           more == found \ {0}
<1>1. h.free \in Seq(Block) /\ h.start \in Nat /\ h.stop \in Nat /\ FreeList(h.free, h.start, h.stop)
  BY HeapHas
<1>2. ASSUME NEW i \in DOMAIN h.free
      PROVE  AllocatableIn(h.free[i], al) \in Nat /\ AllocatableIn(h.free[i], al) <= h.stop
  <2> DEFINE b == h.free[i]
             p == BlockStart(b, al)
             z == BlockEnd(b)
  <2>1. b \in Block /\ z \in Nat /\ z <= h.stop
    <3>1. b \in Block /\ z <= h.stop
      BY <1>1, FreeBlockHas
    <3> QED BY <3>1, BlockIs
  <2>2. p \in Nat
    BY <2>1, BlockStartIs
  <2>3. AllocatableIn(b, al) = IF p < z THEN z - p ELSE 0
    BY DEF AllocatableIn
  <2> HIDE DEF b, p, z
  <2>4. AllocatableIn(b, al) \in Nat /\ AllocatableIn(b, al) <= h.stop
    BY <1>1, <2>1, <2>2, <2>3
  <2> QED BY <2>4 DEF b
<1>3. more \subseteq 1 .. h.stop /\ found \subseteq Nat
  BY <1>1, <1>2
<1>4. \E x \in found : \A y \in found : y <= x
  <2>1. CASE more = {}
    <3>1. found = {0}
      BY <2>1
    <3> QED BY <3>1
  <2>2. CASE more # {}
    <3>1. PICK x \in more : \A y \in more : y <= x
      <4> HIDE DEF found
      <4> QED BY <1>1, <1>3, <2>2, GreatestNumber
    <3>2. 0 <= x
      BY <1>3
    <3> QED BY <3>1, <3>2
  <2> QED BY <2>1, <2>2
<1>5. AllocatableSize(h, al) = CHOOSE x \in found : \A y \in found : y <= x
  BY DEF AllocatableSize
<1>6. AllocatableSize(h, al) \in found /\ \A y \in found : y <= AllocatableSize(h, al)
  <2> HIDE DEF found
  <2> QED BY <1>4, <1>5
<1> QED BY <1>2, <1>6

LEMMA RequestIs ==
  ASSUME NEW h, HeapInv(h), NEW n \in Nat, 0 < n, NEW al \in Int, ValidAlignment(al), ProperRequest(n, al)
  PROVE  AllocateFromExpHeap(h, n, al).ptr # 0 <=> RoundedSize(n) <= AllocatableSize(h, Widened(al))
<1> DEFINE size == RoundedSize(n)
           w == Widened(al)
           direction == IF al >= 0 THEN "Front" ELSE "Back"
           r == AllocateFrom(h, size, w, direction)
<1>1. size \in Nat /\ Word(size) /\ size >= 4 /\ size + w <= SizeMod
  <2>1. n <= SizeMod - 4 /\ size + w <= SizeMod
    BY ProperIs
  <2> QED BY <2>1, RoundedSizeIs
<1>2. w \in Nat \ {0} /\ w % 4 = 0
  BY ValidIs
<1>3. direction \in {"Front", "Back"}
  OBVIOUS
<1>4. AllocateFromExpHeap(h, n, al) = r
  BY DEF AllocateFromExpHeap
<1> HIDE DEF size, w, direction
<1>5. r.ptr # 0 <=> Fitting(h, size, w) # {}
  <2>1. Serves(r, h, size, w)
    BY <1>1, <1>2, <1>3, AllocateFromIs
  <2> HIDE DEF r
  <2> QED BY <2>1 DEF Serves
<1>6. ASSUME NEW i \in DOMAIN h.free
      PROVE  i \in Fitting(h, size, w) <=> size <= AllocatableIn(h.free[i], w)
  <2> DEFINE b == h.free[i]
             p == BlockStart(b, w)
             z == BlockEnd(b)
  <2>1. b \in Block /\ b.at \in Nat /\ b.size \in Nat /\ z = b.at + 32 + b.size /\ Pointer(b) = b.at + 32
    <3>1. h.start \in Nat /\ h.stop \in Nat /\ FreeList(h.free, h.start, h.stop)
      BY HeapHas
    <3> QED BY <3>1, FreeBlockHas
  <2>2. p \in Nat
    BY <1>2, <2>1, BlockStartIs
  <2>3. AllocatableIn(b, w) = IF p < z THEN z - p ELSE 0
    BY DEF AllocatableIn
  <2>4. i \in Fitting(h, size, w) <=> b.size >= size + p - Pointer(b)
    <3>1. i \in Fitting(h, size, w) <=> b.size >= (size + BlockOffset(b, w)) % SizeMod
      BY DEF Fitting
    <3> HIDE DEF b
    <3> QED BY <1>1, <1>2, <2>1, <3>1, OffsetIs
  <2> HIDE DEF b, p, z
  <2>5. b.size >= size + p - Pointer(b) <=> size <= AllocatableIn(b, w)
    BY <1>1, <2>1, <2>2, <2>3
  <2> QED BY <2>4, <2>5 DEF b
<1>7. /\ \A i \in DOMAIN h.free : AllocatableIn(h.free[i], w) <= AllocatableSize(h, w)
      /\ \/ AllocatableSize(h, w) = 0
         \/ \E i \in DOMAIN h.free : AllocatableIn(h.free[i], w) = AllocatableSize(h, w)
      /\ \A i \in DOMAIN h.free : AllocatableIn(h.free[i], w) \in Nat
  BY <1>2, AllocatableSizeIs
<1>8. Fitting(h, size, w) \subseteq DOMAIN h.free
  BY DEF Fitting
<1>9. Fitting(h, size, w) # {} => size <= AllocatableSize(h, w)
  <2> SUFFICES ASSUME NEW i \in Fitting(h, size, w) PROVE size <= AllocatableSize(h, w)
    OBVIOUS
  <2>1. size <= AllocatableIn(h.free[i], w) /\ AllocatableIn(h.free[i], w) <= AllocatableSize(h, w)
    BY <1>6, <1>7, <1>8
  <2>2. AllocatableIn(h.free[i], w) \in Nat /\ AllocatableSize(h, w) \in Nat
    BY <1>7, <1>8
  <2> QED BY <1>1, <2>1, <2>2
<1>10. size <= AllocatableSize(h, w) => Fitting(h, size, w) # {}
  BY <1>1, <1>6, <1>7
<1> QED BY <1>4, <1>5, <1>9, <1>10 DEF size, w

(* A request is refused exactly if it asks for more than                   *)
(* GetExpHeapAllocatableSize answers.                                      *)
THEOREM SizeAnsweredIsExact == DisciplinedSpec => []AllocatableSizeIsExact
<1>1. ASSUME IInv PROVE AllocatableSizeIsExact
  <2>1. ASSUME NEW n \in Sizes \ {0}, NEW al \in Alignments, ValidAlignment(al), ProperRequest(n, al)
        PROVE  AllocateFromExpHeap(heap, n, al).ptr # 0
                 <=> RoundedSize(n) <= AllocatableSize(heap, Widened(al))
    <3>1. n \in Nat /\ 0 < n /\ al \in Int
      BY <2>1, Arguments
    <3> QED BY <1>1, <2>1, <3>1, RequestIs DEF IInv
  <2> QED BY <2>1 DEF AllocatableSizeIsExact
<1> QED BY <1>1, Invariant, PTL

-----------------------------------------------------------------------------
(* The bytes that get lost. *)
LEMMA LostIs ==
  ASSUME NEW h, HeapInv(h)
  PROVE  Lost(h) = {a \in h.start .. h.stop - 1 : Stray(h, a)}
<1>1. h.start \in Nat /\ h.stop \in Nat /\ FreeList(h.free, h.start, h.stop)
  BY HeapHas
<1> DEFINE free == {Bytes(Region(b.at, BlockEnd(b))) : b \in ToRange(h.free)}
           used == {Bytes(UsedRegion(b)) : b \in h.used}
<1>2. Lost(h) = (h.start .. h.stop - 1) \ UNION (free \union used)
  BY DEF Lost, Bytes
<1>3. ASSUME NEW a \in Nat
      PROVE  (\E r \in free : a \in r) <=> ~OffAll(a, a + 1, h.free)
  <2>1. (\E r \in free : a \in r) <=> \E i \in DOMAIN h.free : a \in Bytes(Region(h.free[i].at, BlockEnd(h.free[i])))
    BY DEF ToRange
  <2>2. ASSUME NEW i \in DOMAIN h.free
        PROVE  a \in Bytes(Region(h.free[i].at, BlockEnd(h.free[i]))) <=> ~Off(a, a + 1, h.free[i])
    <3>1. h.free[i].at \in Nat /\ h.free[i].size \in Nat /\ BlockEnd(h.free[i]) = h.free[i].at + 32 + h.free[i].size
      BY <1>1, FreeBlockHas
    <3> QED BY <3>1 DEF Bytes, Region, Off
  <2> QED BY <2>1, <2>2 DEF OffAll
<1>4. ASSUME NEW a \in Nat
      PROVE  (\E r \in used : a \in r) <=> ~(\A b \in h.used : a < First(b) \/ BlockEnd(b) <= a)
  <2>1. ASSUME NEW b \in h.used
        PROVE  a \in Bytes(UsedRegion(b)) <=> ~(a < First(b) \/ BlockEnd(b) <= a)
    <3>1. First(b) \in Nat /\ BlockEnd(b) \in Nat /\ First(b) = b.at - b.pad
      BY UsedHas
    <3>2. Bytes(UsedRegion(b)) = First(b) .. BlockEnd(b) - 1
      BY <3>1 DEF Bytes, Region, UsedRegion
    <3> QED BY <3>1, <3>2
  <2> QED BY <2>1
<1> HIDE DEF free, used
<1>5. ASSUME NEW a \in h.start .. h.stop - 1
      PROVE  a \in UNION (free \union used) <=> ~Stray(h, a)
  <2>1. a \in Nat
    BY <1>1
  <2>2. a \in UNION (free \union used) <=> (\E r \in free : a \in r) \/ (\E r \in used : a \in r)
    OBVIOUS
  <2> QED BY <1>3, <1>4, <2>1, <2>2 DEF Stray
<1> QED BY <1>2, <1>5

LEMMA KeepsIs ==
  ASSUME NEW h, NEW g, HeapInv(h), HeapInv(g), g.start = h.start, g.stop = h.stop, Keeps(h, g)
  PROVE  Lost(g) = Lost(h)
<1>1. \A a \in h.start .. h.stop - 1 : a \in Nat
  BY HeapHas
<1> QED BY <1>1, LostIs DEF Keeps

LEMMA DropsIs ==
  ASSUME NEW h, NEW g, HeapInv(h), HeapInv(g), g.start = h.start, g.stop = h.stop, Drops(h, g)
  PROVE  Lost(h) \subseteq Lost(g) /\ Cardinality(Lost(g) \ Lost(h)) < MaximumPaddingalignment
<1>1. \A a \in h.start .. h.stop - 1 : a \in Nat
  BY HeapHas
<1>2. /\ Lost(h) = {a \in h.start .. h.stop - 1 : Stray(h, a)}
      /\ Lost(g) = {a \in h.start .. h.stop - 1 : Stray(g, a)}
  BY LostIs
<1>3. Lost(h) \subseteq Lost(g)
  BY <1>1, <1>2 DEF Drops
<1>4. PICK y \in Nat : \A a \in Nat : Stray(g, a) => Stray(h, a) \/ (y <= a /\ a < y + 127)
  BY DEF Drops
<1>5. Lost(g) \ Lost(h) \subseteq y .. y + 126
  <2> SUFFICES ASSUME NEW a \in Lost(g), a \notin Lost(h) PROVE a \in y .. y + 126
    OBVIOUS
  <2>1. a \in h.start .. h.stop - 1 /\ Stray(g, a) /\ ~Stray(h, a) /\ a \in Nat
    BY <1>1, <1>2
  <2> QED BY <1>4, <2>1
<1>6. IsFiniteSet(y .. y + 126) /\ Cardinality(y .. y + 126) = 127
  <2>1. y \in Int /\ y + 126 \in Int /\ ~(y > y + 126) /\ (y + 126) - y + 1 = 127
    OBVIOUS
  <2> QED BY <2>1, FS_Interval
<1>7. Cardinality(Lost(g) \ Lost(h)) \in Nat /\ Cardinality(Lost(g) \ Lost(h)) <= 127
  <2>1. IsFiniteSet(Lost(g) \ Lost(h)) /\ Cardinality(Lost(g) \ Lost(h)) <= Cardinality(y .. y + 126)
    BY <1>5, <1>6, FS_Subset
  <2> QED BY <1>6, <2>1, FS_CardinalityType
<1> QED BY <1>3, <1>7 DEF MaximumPaddingalignment

LEMMA LossStep ==
  ASSUME IInv, IInv', Unmoved, Losses
  PROVE  LosesToNewBlock
<1>1. HeapInv(heap) /\ HeapInv(heap') /\ heap'.start = heap.start /\ heap'.stop = heap.stop
  BY DEF IInv, Unmoved
<1>2. CASE Keeps(heap, heap')
  <2>1. Lost(heap') = Lost(heap)
    BY <1>1, <1>2, KeepsIs
  <2>2. Lost(heap') \ Lost(heap) = {}
    BY <2>1
  <2>3. Cardinality({}) = 0
    BY FS_EmptySet
  <2> QED BY <2>1, <2>2, <2>3 DEF LosesToNewBlock, MaximumPaddingalignment
<1>3. CASE Drops(heap, heap') /\ ~(Pointers(heap') \subseteq Pointers(heap))
  <2>1. Lost(heap) \subseteq Lost(heap') /\ Cardinality(Lost(heap') \ Lost(heap)) < MaximumPaddingalignment
    BY <1>1, <1>3, DropsIs
  <2> QED BY <1>3, <2>1 DEF LosesToNewBlock
<1> QED BY <1>2, <1>3 DEF Losses

LEMMA AdjustLoses ==
  ASSUME IInv, heap # NoHeap, Adjust
  PROVE  LosesToNewBlock
<1>1. heap' = Adjusted(heap)
  BY DEF Adjust, NoHandle
<1>2. HeapInv(heap) /\ HeapInv(heap') /\ heap'.start = heap.start /\ heap'.used = heap.used
  BY <1>1, AdjustedIs DEF IInv
<1>3. Lost(heap') = Lost(heap)
  <2>1. /\ Lost(heap) = {a \in heap.start .. heap.stop - 1 : Stray(heap, a)}
        /\ Lost(heap') = {a \in heap.start .. heap'.stop - 1 : Stray(heap', a)}
    BY <1>2, LostIs
  <2>2. heap.start \in Nat /\ heap.stop \in Nat /\ heap'.stop \in Nat
    BY <1>2, HeapHas
  <2>3. \A a \in Nat : a < heap'.stop /\ Stray(heap', a) <=> a < heap.stop /\ Stray(heap, a)
    BY <1>1, <1>2, AdjustedKeeps
  <2>4. ASSUME NEW a PROVE a \in Lost(heap') <=> a \in Lost(heap)
    <3>1. a \in Lost(heap) <=> a \in Nat /\ heap.start <= a /\ a < heap.stop /\ Stray(heap, a)
      BY <2>1, <2>2
    <3>2. a \in Lost(heap') <=> a \in Nat /\ heap.start <= a /\ a < heap'.stop /\ Stray(heap', a)
      BY <2>1, <2>2
    <3> QED BY <2>3, <3>1, <3>2
  <2> QED BY <2>4
<1>4. Pointers(heap') = Pointers(heap)
  BY <1>2 DEF Pointers
<1> QED BY <1>3, <1>4 DEF LosesToNewBlock

(* Blocks given out cost fewer than 128 bytes each, and no other call loses *)
(* any (lmem_impl_exp_heap.cpp, ConvertFreeBlockToUsedBlock and             *)
(* CoalesceFreedRegion).                                                   *)
THEOREM LossesAreBounded == DisciplinedSpec => OnlyAllocationLoses
<1>1. ASSUME IInv, IInv', DisciplinedNext
      PROVE  (\E a \in Arenas : Initialize(a)) \/ Destroy \/ LosesToNewBlock
  <2>1. CASE \E a \in Arenas : ProperArena(a) /\ Initialize(a)
    BY <2>1
  <2>2. CASE heap # NoHeap /\ Destroy
    BY <2>2
  <2>3. CASE heap # NoHeap /\ Adjust
    BY <1>1, <2>3, AdjustLoses
  <2>4. CASE /\ heap # NoHeap
             /\ \E n \in Sizes, al \in Alignments :
                  ValidAlignment(al) /\ ProperRequest(n, al) /\ Allocate(n, al)
    <3>1. PICK n \in Sizes, al \in Alignments :
               ValidAlignment(al) /\ ProperRequest(n, al) /\ Allocate(n, al)
      BY <2>4
    <3>2. (heap' = heap \/ Obtained(n, al)) /\ Losses
      BY <1>1, <2>4, <3>1, AllocateStep
    <3>3. Unmoved
      BY <3>2 DEF Obtained, Unmoved
    <3> QED BY <1>1, <3>2, <3>3, LossStep
  <2>5. CASE heap # NoHeap /\ \E b \in heap.used : Free(b)
    BY <1>1, <2>5, FreeStep, LossStep
  <2>6. CASE /\ heap # NoHeap
             /\ \E b \in heap.used, n \in Sizes \ {0} : ProperRequest(n, MinimumAlignment) /\ Reallocate(b, n)
    <3>1. PICK b \in heap.used, n \in Sizes \ {0} : ProperRequest(n, MinimumAlignment) /\ Reallocate(b, n)
      BY <2>6
    <3>2. (heap' = heap \/ Replaced(b, n)) /\ Losses
      BY <1>1, <2>6, <3>1, ReallocateStep
    <3>3. Unmoved
      BY <3>2 DEF Replaced, Unmoved
    <3> QED BY <1>1, <3>2, <3>3, LossStep
  <2>7. CASE /\ heap # NoHeap
             /\ \/ \E m \in Modes : SetAllocationMode(m)
                \/ \E use \in BOOLEAN : SetUseMarginsOfAlignment(use)
    BY <1>1, <2>7, ModeStep, LossStep
  <2> QED BY <1>1, <2>1, <2>2, <2>3, <2>4, <2>5, <2>6, <2>7 DEF DisciplinedNext
<1> QED BY <1>1, Invariant, PTL DEF DisciplinedSpec, OnlyAllocationLoses

-----------------------------------------------------------------------------
(* The heap implements Allocator: each step lets a client see what one of   *)
(* the allocator's does.                                                   *)
Span(h) == [start |-> h.start, stop |-> h.stop]
View(b) == [ptr |-> Pointer(b), size |-> b.size]

LEMMA SeenHas ==
  ASSUME NEW h, HeapInv(h)
  PROVE  /\ Seen(h) = {View(b) : b \in h.used}
         /\ Span(h).start = h.start /\ Span(h).stop = h.stop
         /\ \A b \in h.used : View(b).ptr = Pointer(b) /\ View(b).size = b.size
         /\ \A b, c \in h.used : b # c => View(b) # View(c)
         /\ \A b \in h.used : h.start <= View(b).ptr /\ View(b).ptr + View(b).size <= h.stop
         /\ \A b, c \in h.used : b # c => \/ View(b).ptr + View(b).size <= View(c).ptr
                                          \/ View(c).ptr + View(c).size <= View(b).ptr
<1>1. Seen(h) = {View(b) : b \in h.used}
  BY DEF Seen, View
<1>2. Span(h).start = h.start /\ Span(h).stop = h.stop
  BY DEF Span
<1>3. \A b \in h.used : View(b).ptr = Pointer(b) /\ View(b).size = b.size
  BY DEF View
<1>4. /\ \A b, c \in h.used : b # c => Pointer(b) # Pointer(c)
      /\ \A b \in h.used : h.start <= Pointer(b) /\ Pointer(b) + b.size <= h.stop
      /\ \A b, c \in h.used : b # c => \/ Pointer(b) + b.size <= Pointer(c)
                                       \/ Pointer(c) + c.size <= Pointer(b)
  BY SeenIs
<1> QED BY <1>1, <1>2, <1>3, <1>4

LEMMA OpenSimulation ==
  ASSUME IInv', heap'.used = {}, heap'.start <= heap'.stop
  PROVE  Allocated!Open
<1>1. Seen(heap') = {} /\ Span(heap').start <= Span(heap').stop
  BY DEF Seen, Span
<1> QED BY <1>1 DEF Allocated!Open, Seen, Span

LEMMA StutterSimulation ==
  ASSUME Unmoved, heap'.used = heap.used
  PROVE  UNCHANGED Allocated!allocatorVars
BY DEF Unmoved, Allocated!allocatorVars

LEMMA TrimSimulation ==
  ASSUME IInv, IInv', Trimmed
  PROVE  Allocated!Trim
<1>1. /\ Seen(heap') = Seen(heap)
      /\ Span(heap').start = Span(heap).start /\ Span(heap').stop <= Span(heap).stop
  BY DEF Seen, Span, Trimmed
<1>2. \A s \in Seen(heap) : s.ptr + s.size <= Span(heap').stop
  BY <1>1, SeenHas DEF IInv
<1> QED BY <1>1, <1>2 DEF Allocated!Trim, Seen, Span

LEMMA ObtainSimulation ==
  ASSUME IInv, IInv', NEW n \in Sizes, NEW al \in Alignments, Obtained(n, al)
  PROVE  Allocated!Obtain(n, al)
<1>1. PICK b \in UsedBlock : /\ b \notin heap.used /\ heap'.used = heap.used \union {b}
                             /\ b.size >= n /\ Pointer(b) % Magnitude(al) = 0
  BY DEF Obtained
<1>2. /\ b \in heap'.used /\ heap.used \subseteq heap'.used
      /\ Span(heap') = Span(heap)
  BY <1>1 DEF Obtained, Unmoved, Span
<1>3. /\ Seen(heap) = {View(c) : c \in heap.used}
      /\ Seen(heap') = {View(c) : c \in heap'.used}
  BY SeenHas DEF IInv
<1>4. /\ View(b).size >= n /\ View(b).ptr % Magnitude(al) = 0
      /\ Span(heap).start <= View(b).ptr /\ View(b).ptr + View(b).size <= Span(heap).stop
  BY <1>1, <1>2, SeenHas DEF IInv
<1>5. \A c \in heap.used : /\ View(c) # View(b)
                           /\ \/ View(b).ptr + View(b).size <= View(c).ptr
                              \/ View(c).ptr + View(c).size <= View(b).ptr
  BY <1>1, <1>2, SeenHas DEF IInv
<1>6. View(b) \in Seen(heap') /\ View(b) \notin Seen(heap) /\ Seen(heap') = Seen(heap) \union {View(b)}
  BY <1>1, <1>2, <1>3, <1>5
<1>7. \A c \in Seen(heap) : \/ View(b).ptr + View(b).size <= c.ptr
                            \/ c.ptr + c.size <= View(b).ptr
  BY <1>3, <1>5
<1>8. Allocated!Magnitude(al) = Magnitude(al)
  BY DEF Allocated!Magnitude, Magnitude
<1>9. \E v \in Seen(heap') : /\ v \notin Seen(heap) /\ Seen(heap') = Seen(heap) \union {v}
                             /\ v.size >= n /\ v.ptr % Magnitude(al) = 0
                             /\ Span(heap).start <= v.ptr /\ v.ptr + v.size <= Span(heap).stop
                             /\ \A c \in Seen(heap) : v.ptr + v.size <= c.ptr \/ c.ptr + c.size <= v.ptr
  BY <1>4, <1>6, <1>7
<1> QED BY <1>2, <1>8, <1>9 DEF Allocated!Obtain, Allocated!Inside, Allocated!Apart, Seen, Span

LEMMA ReleaseSimulation ==
  ASSUME IInv, NEW b \in heap.used, Unmoved, heap'.used = heap.used \ {b}
  PROVE  View(b) \in Seen(heap) /\ Allocated!Release(View(b))
<1>1. Span(heap') = Span(heap)
  BY DEF Unmoved, Span
<1>2. /\ Seen(heap) = {View(c) : c \in heap.used}
      /\ \A c \in heap.used : c # b => View(c) # View(b)
  BY SeenHas DEF IInv
<1>3. Seen(heap') = {View(c) : c \in heap'.used}
  BY DEF Seen, View
<1>4. View(b) \in Seen(heap) /\ Seen(heap') = Seen(heap) \ {View(b)}
  BY <1>2, <1>3
<1> QED BY <1>1, <1>4 DEF Allocated!Release, Seen, Span

LEMMA ReplaceSimulation ==
  ASSUME IInv, IInv', NEW b \in heap.used, NEW n \in Sizes, Replaced(b, n)
  PROVE  View(b) \in Seen(heap) /\ Allocated!Replace(View(b), n)
<1>1. PICK c \in heap'.used : /\ c \notin heap.used \ {b} /\ heap'.used = (heap.used \ {b}) \union {c}
                              /\ c.size >= n
  BY DEF Replaced
<1>2. Span(heap') = Span(heap)
  BY DEF Replaced, Unmoved, Span
<1>3. /\ Seen(heap) = {View(d) : d \in heap.used}
      /\ Seen(heap') = {View(d) : d \in heap'.used}
      /\ \A d \in heap.used : d # b => View(d) # View(b)
  BY SeenHas DEF IInv
<1>4. /\ View(b) \in Seen(heap) /\ View(c) \in Seen(heap')
      /\ Seen(heap') = (Seen(heap) \ {View(b)}) \union {View(c)}
  BY <1>1, <1>3
<1>5. /\ View(c).size >= n
      /\ Span(heap).start <= View(c).ptr /\ View(c).ptr + View(c).size <= Span(heap).stop
  BY <1>1, <1>2, SeenHas DEF IInv
<1>6. ASSUME NEW v \in Seen(heap) \ {View(b)}
      PROVE  View(c).ptr + View(c).size <= v.ptr \/ v.ptr + v.size <= View(c).ptr
  <2>1. PICK d \in heap.used \ {b} : v = View(d)
    BY <1>3
  <2>2. d # c /\ d \in heap'.used
    BY <1>1, <2>1
  <2> QED BY <2>1, <2>2, SeenHas DEF IInv
<1>7. \E w \in Seen(heap') : /\ Seen(heap') = (Seen(heap) \ {View(b)}) \union {w}
                             /\ w.size >= n
                             /\ Span(heap).start <= w.ptr /\ w.ptr + w.size <= Span(heap).stop
                             /\ \A d \in Seen(heap) \ {View(b)} : w.ptr + w.size <= d.ptr \/ d.ptr + d.size <= w.ptr
  BY <1>4, <1>5, <1>6
<1> QED BY <1>2, <1>4, <1>7 DEF Allocated!Replace, Allocated!Inside, Allocated!Apart, Seen, Span

LEMMA NextSimulation ==
  ASSUME IInv, IInv', [DisciplinedNext]_vars
  PROVE  [Allocated!Next]_Allocated!allocatorVars
<1>1. CASE UNCHANGED vars
  BY <1>1, StutterSimulation DEF vars, Unmoved
<1>2. CASE DisciplinedNext
  <2>1. \/ heap'.used = {} /\ heap'.start <= heap'.stop
        \/ Trimmed
        \/ Unmoved /\ heap'.used = heap.used
        \/ \E n \in Sizes, al \in Alignments : Obtained(n, al)
        \/ \E b \in heap.used : Unmoved /\ heap'.used = heap.used \ {b}
        \/ \E b \in heap.used, n \in Sizes : Replaced(b, n)
    BY <1>2, StepIs
  <2>2. CASE heap'.used = {} /\ heap'.start <= heap'.stop
    BY <2>2, OpenSimulation DEF Allocated!Next
  <2>3. CASE Trimmed
    BY <2>3, TrimSimulation DEF Allocated!Next
  <2>4. CASE Unmoved /\ heap'.used = heap.used
    BY <2>4, StutterSimulation
  <2>5. CASE \E n \in Sizes, al \in Alignments : Obtained(n, al)
    BY <2>5, ObtainSimulation DEF Allocated!Next
  <2>6. CASE \E b \in heap.used : Unmoved /\ heap'.used = heap.used \ {b}
    <3>1. PICK b \in heap.used : Unmoved /\ heap'.used = heap.used \ {b}
      BY <2>6
    <3>2. View(b) \in Seen(heap) /\ Allocated!Release(View(b))
      BY <3>1, ReleaseSimulation
    <3> QED BY <3>2 DEF Allocated!Next, Seen
  <2>7. CASE \E b \in heap.used, n \in Sizes : Replaced(b, n)
    <3>1. PICK b \in heap.used, n \in Sizes : Replaced(b, n)
      BY <2>7
    <3>2. View(b) \in Seen(heap) /\ Allocated!Replace(View(b), n)
      BY <3>1, ReplaceSimulation
    <3> QED BY <3>2 DEF Allocated!Next, Seen
  <2> QED BY <2>1, <2>2, <2>3, <2>4, <2>5, <2>6, <2>7
<1> QED BY <1>1, <1>2

(* The heap implements the allocator: blocks handed out lie in the arena,   *)
(* as aligned and as large as asked for, apart from one another, and stay   *)
(* as they are until they are freed or resized themselves.                 *)
THEOREM HeapIsAllocator == DisciplinedSpec => ImplementsAllocator
<1>1. Init => Allocated!Init
  BY NoHeapIs DEF Init, Allocated!Init, Allocated!NoArena
<1>2. IInv /\ IInv' /\ [DisciplinedNext]_vars => [Allocated!Next]_Allocated!allocatorVars
  BY NextSimulation
<1> QED BY <1>1, <1>2, Invariant, PTL DEF DisciplinedSpec, ImplementsAllocator, Allocated!Spec
=============================================================================
