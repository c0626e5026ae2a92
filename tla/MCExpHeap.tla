----------------------------- MODULE MCExpHeap -----------------------------
(***************************************************************************)
(* A page-aligned arena, as BssHeap gives it to initialize, of a few       *)
(* blocks, one that has no room for the heap, requests that leave          *)
(* remainders on every side of the 36 and 128 byte thresholds, and the     *)
(* largest one that cannot wrap around when it is aligned to 64.           *)
(***************************************************************************)
EXTENDS ExpHeap

MCArenas == {[addr |-> 4096, size |-> 104 + 184], [addr |-> 4096, size |-> 30]}
MCSizes == {0, 41, 65536 - 65}
MCAlignments == {1, 64, -64, -2}
=============================================================================
