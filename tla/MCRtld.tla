------------------------------ MODULE MCRtld ------------------------------
(* Two families of images: a single module with every combination of      *)
(* symbols, for the hash tables, and the linker with two modules whose     *)
(* entries refer to symbols of each other.                                *)
EXTENDS Rtld, SequencesExt

(* "a" and "b" differ in the bit that ends a chain, all share a bucket of  *)
(* one, "a" and "d" share the bits of the filter.                          *)
MCNames == {"a", "b", "c", "d"}
MCHashOf == ("a" :> 4) @@ ("b" :> 5) @@ ("c" :> 11) @@ ("d" :> 20)

Entry(type, name, weak, hidden, addend) ==
  [type |-> type, name |-> name, weak |-> weak, hidden |-> hidden, addend |-> addend]
Own == Entry("relative", "", FALSE, FALSE, 3)
Absent == [n \in MCNames |-> "absent"]

Symbols(says, nbuckets) ==
  LET undefined == SetToSeq({n \in Names : says[n] = "undefined"})
      bucketOf(n) == HashOf[n] % nbuckets
      hashed == SetToSortSeq({n \in Names : says[n] \in {"common", "defined"}},
                             LAMBDA m, n : bucketOf(m) < bucketOf(n))
      names == undefined \o hashed
  IN [names |-> names, nbuckets |-> nbuckets, symoffset |-> Len(undefined) + 1,
      shndx |-> [i \in 1 .. Len(names) |-> says[names[i]]]]
Linked(says, nbuckets) ==
  LET syms == Symbols(says, nbuckets) IN [syms |-> syms, gnu |-> GnuTable(syms), elf |-> ElfTable(syms)]

Module(says, gnu, nbuckets, rela, entries, init) ==
  [says |-> says, gnu |-> gnu, table |-> Linked(says, nbuckets), rela |-> rela, entries |-> entries,
   init |-> init, listed |-> init, perms |-> <<"rx", "r", "rw">>]

Alone == {<<Module(says, gnu, nbuckets, TRUE, <<>>, FALSE)>> :
            says \in [MCNames -> Kinds], gnu \in BOOLEAN, nbuckets \in {1, 3}}

Linkers == {Module(Absent, rela, 1, rela, <<Own>>, FALSE) : rela \in BOOLEAN}
References == {Entry("glob_dat", "a", FALSE, FALSE, 2), Entry("absolute", "a", TRUE, TRUE, 1),
               Entry("jump_slot", "b", TRUE, FALSE, 0), Entry("absolute", "b", FALSE, TRUE, 1),
               Entry("other", "a", FALSE, FALSE, 0)}
Says == {Absent, [Absent EXCEPT !["a"] = "defined"], [Absent EXCEPT !["b"] = "defined", !["a"] = "undefined"],
         [Absent EXCEPT !["a"] = "defined", !["b"] = "defined"], [Absent EXCEPT !["a"] = "common"]}
Loaded == {Module(says, rela, 2, rela, <<Own, e>>, e.hidden) :
             says \in Says, rela \in BOOLEAN, e \in References}
LoadedLast == {y \in Loaded : y.entries[2].name = "a" /\ y.entries[2].weak = y.rela}
Together == {<<l, x, y>> : l \in Linkers, x \in Loaded, y \in LoadedLast}

Broken ==
  {<<CHOOSE l \in Linkers : TRUE, [x EXCEPT !.perms = p]>> :
     x \in Loaded, p \in {<<"rx", "rw">>, <<"r", "rw">>, <<"rx", "r", "r", "rw">>, <<"rx", "r", "rx">>}}

MCImages == Alone \union Together \union Broken
=============================================================================
