----------------------------- MODULE ElfSymbols -----------------------------
(***************************************************************************)
(* How RoModule finds a symbol (rtld/RoModule.cpp): by a table in the GNU  *)
(* format, with a bloom filter and chains of hashes that lie side by side, *)
(* or in the older ELF format, with chains of symbol numbers.  A lookup by *)
(* hashes goes the same way and compares a hash of the name in its place.  *)
(*                                                                         *)
(* The tables are made by the linker, which is external.  A module's       *)
(* symbols are given as what it says of each name; symbol 0 is the null    *)
(* symbol, and what is found is a symbol's number, 0 for none.             *)
(***************************************************************************)
EXTENDS Integers, Sequences, FiniteSetsExt

CONSTANTS
  Names,
  HashOf,     (* [Names -> Nat]: hashDjb2, and hashElfBucket as well      *)
  WordBits,   (* bits of a word of the bloom filter                       *)
  MaskWords,  (* words of the bloom filter                                *)
  Shift       (* 2^m_GnuHashShift2                                        *)

Kinds == {"absent", "undefined", "common", "defined"}

ASSUME ElfAssumption ==
  /\ HashOf \in [Names -> Nat]
  /\ {WordBits, MaskWords, Shift} \subseteq Nat \ {0}

-----------------------------------------------------------------------------
(* The linker.  A module has one symbol for each name it says something    *)
(* of.  Undefined symbols come first, the others are grouped by bucket.    *)
IsSymbolTable(syms, says) ==
  LET all == 1 .. Len(syms.names)
      hashed == syms.symoffset .. Len(syms.names)
      bucketOf(i) == HashOf[syms.names[i]] % syms.nbuckets
  IN /\ syms.nbuckets \in Nat \ {0}
     /\ syms.names \in Seq(Names)
     /\ {syms.names[i] : i \in all} = {n \in Names : says[n] # "absent"}
     /\ \A i, j \in all : syms.names[i] = syms.names[j] => i = j
     /\ syms.shndx = [i \in all |-> says[syms.names[i]]]
     /\ syms.symoffset \in 1 .. Len(syms.names) + 1
     /\ \A i \in all : i < syms.symoffset <=> syms.shndx[i] = "undefined"
     /\ \A i, j \in hashed : i < j => bucketOf(i) <= bucketOf(j)

BitsOf(hash) == {hash % WordBits, (hash \div Shift) % WordBits}
WordOf(hash) == (hash \div WordBits) % MaskWords
InBucket(syms, from, b) ==
  {i \in from .. Len(syms.names) : HashOf[syms.names[i]] % syms.nbuckets = b}

GnuTable(syms) ==
  LET hash(i) == HashOf[syms.names[i]]
      hashed == syms.symoffset .. Len(syms.names)
      mates(i) == InBucket(syms, syms.symoffset, hash(i) % syms.nbuckets)
      evened(h) == h - (h % 2)
  IN [bloom |-> [w \in 0 .. MaskWords - 1 |-> UNION {BitsOf(hash(i)) : i \in {j \in hashed : WordOf(hash(j)) = w}}],
      buckets |-> [b \in 0 .. syms.nbuckets - 1 |->
                     IF InBucket(syms, syms.symoffset, b) = {} THEN 0 ELSE Min(InBucket(syms, syms.symoffset, b))],
      chain |-> [i \in hashed |-> evened(hash(i)) + IF i = Max(mates(i)) THEN 1 ELSE 0]]

ElfTable(syms) ==
  LET below(i) == {j \in InBucket(syms, 1, HashOf[syms.names[i]] % syms.nbuckets) : j < i}
  IN [buckets |-> [b \in 0 .. syms.nbuckets - 1 |->
                     IF InBucket(syms, 1, b) = {} THEN 0 ELSE Max(InBucket(syms, 1, b))],
      chains |-> [i \in 1 .. Len(syms.names) |-> IF below(i) = {} THEN 0 ELSE Max(below(i))]]

IsLinked(table, says) ==
  /\ IsSymbolTable(table.syms, says)
  /\ table.gnu = GnuTable(table.syms)
  /\ table.elf = ElfTable(table.syms)

-----------------------------------------------------------------------------
(* A symbol that answers: it has the name and a place. *)
Answers(syms, i, name) == syms.shndx[i] = "defined" /\ syms.names[i] = name

(* A defect: the first hashed symbol is taken for an empty bucket. *)
IsEmptyToo(symIdx, symoffset) == symIdx <= symoffset
IsEmpty(symIdx, symoffset) == symIdx < symoffset

GetSymbolByNameGnu(syms, table, name) ==
  LET nameHash == HashOf[name]
      symIdx == table.buckets[nameHash % syms.nbuckets]
      last == Min({i \in DOMAIN table.chain : i >= symIdx /\ table.chain[i] % 2 = 1})
      found == {i \in symIdx .. last : table.chain[i] \div 2 = nameHash \div 2 /\ Answers(syms, i, name)}
  IN IF ~(BitsOf(nameHash) \subseteq table.bloom[WordOf(nameHash)]) \/ IsEmpty(symIdx, syms.symoffset)
       THEN 0
       ELSE IF found = {} THEN 0 ELSE Min(found)

GetSymbolByNameElf(syms, table, name) ==
  LET walk[k \in 0 .. Len(syms.names)] ==
        IF k = 0 THEN table.buckets[HashOf[name] % syms.nbuckets]
        ELSE IF walk[k - 1] = 0 THEN 0 ELSE table.chains[walk[k - 1]]
      found == {k \in DOMAIN walk : walk[k] # 0 /\ Answers(syms, walk[k], name)}
  IN IF found = {} THEN 0 ELSE walk[Min(found)]

(* What is to be found. *)
Defines(says, name) == says[name] = "defined"
NumberOf(syms, name) == CHOOSE i \in 1 .. Len(syms.names) : syms.names[i] = name
=============================================================================
