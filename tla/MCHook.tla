------------------------------- MODULE MCHook -------------------------------
(***************************************************************************)
(* A module of a few words with every kind of hook: a one-word and a       *)
(* two-word trampoline, a one-word Replace and a two-word AsmBlock.  With  *)
(* N = 2 a one-word hook saves, and later restores, its neighbour's word.  *)
(***************************************************************************)
EXTENDS Hook

MCHooks == {"tNear", "tFar", "rNear", "asm"}
MCKind == [tNear |-> "trampoline", tFar |-> "trampoline", rNear |-> "replace", asm |-> "asm"]
MCNumInstrs == [tNear |-> 1, tFar |-> 2, rNear |-> 1, asm |-> 2]
=============================================================================
