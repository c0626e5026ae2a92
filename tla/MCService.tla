---------------------------- MODULE MCService ----------------------------
(* Service with two threads.  The sets are interchangeable.               *)
EXTENDS Service, TLC

Symmetry == UNION {Permutations(S) : S \in {Threads, Slots, Handles, Sessions, Ids}}
=============================================================================
